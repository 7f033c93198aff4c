---------------------------- MODULE ContractProofs ----------------------------
(***************************************************************************)
(* What a native releases it holds, and with that every native, on every   *)
(* path and among any number of threads, is a run of CallContract.         *)
(***************************************************************************)
EXTENDS NativeCallsProofs

----------------------------------------------------------------------------
(* Releases.                                                               *)

\* What n holds for sure after step k it held before, or step k acquired it.
LEMMA MustHoldStep ==
    ASSUME NEW n \in Native, NEW k \in Nat \ {0}, NEW r \in MustHold(n, k + 1)
    PROVE  /\ r \notin Steps(n)[k].frees
           /\ r \in Steps(n)[k].gets \/ r \in MustHold(n, k)
<1>1. PICK i \in 1..k + 1 - 1 :
        /\ r \in Steps(n)[i].gets \ Steps(n)[i].frees
        /\ ~Skippable(n, i)
        /\ \A j \in i + 1..k + 1 - 1 : r \notin Steps(n)[j].frees
  BY DEF MustHold
<1>2. CASE i = k
  BY <1>1, <1>2
<1>3. CASE i # k
  <2>1. i \in 1..k - 1 /\ k \in i + 1..k + 1 - 1
    BY <1>3
  <2>2. \A j \in i + 1..k - 1 : r \notin Steps(n)[j].frees
    BY <1>1
  <2> QED
    BY <1>1, <2>1, <2>2 DEF MustHold
<1> QED
  BY <1>2, <1>3

\* What n holds for sure where an argument makes it skip to, it holds already.
LEMMA MustHoldSkip ==
    ASSUME NEW n \in Native, NEW k \in Nat \ {0}, NEW l \in Nat,
           Steps(n)[k].skips \in Nat \ {0}, k <= l, l <= k + Steps(n)[k].skips
    PROVE  MustHold(n, l) \subseteq MustHold(n, k)
<1> SUFFICES ASSUME NEW r \in MustHold(n, l) PROVE r \in MustHold(n, k)
  OBVIOUS
<1>1. PICK i \in 1..l - 1 :
        /\ r \in Steps(n)[i].gets \ Steps(n)[i].frees
        /\ ~Skippable(n, i)
        /\ \A j \in i + 1..l - 1 : r \notin Steps(n)[j].frees
  BY DEF MustHold
<1>2. i \in 1..k - 1
  <2> SUFFICES ASSUME i \notin 1..k - 1 PROVE FALSE
    OBVIOUS
  <2>1. k \in 1..i /\ k + Steps(n)[k].skips > i
    OBVIOUS
  <2> QED
    BY <1>1, <2>1 DEF Skippable
<1>3. \A j \in i + 1..k - 1 : r \notin Steps(n)[j].frees
  BY <1>1
<1> QED
  BY <1>1, <1>2, <1>3 DEF MustHold

\* One rung on, what the rungs ahead release is still there, unless it was
\* released by this one, and then it is not released again.
LEMMA BacksNext ==
    ASSUME NEW path \in Seq(RungType), NEW i \in Nat \ {0}, i <= Len(path),
           NEW n, NEW k, NEW h, NEW g,
           NothingTwice(path), Backs(path, i, n, k, h),
           \A r \in h : r \in g \/ (path[i].op = "free" /\ r = path[i].res)
    PROVE  Backs(path, i + 1, n, k, g)
<1>1. Len(path) \in Nat
  BY LenProperties
<1> SUFFICES ASSUME NEW j \in i + 1..Len(path), path[j].op = "free"
             PROVE  path[j].res \in g \/ MayBeNull(n, k, path[j].res)
  BY DEF Backs
<1>2. j \in i..Len(path) /\ i \in 1..Len(path) /\ j \in 1..Len(path) /\ i # j
  BY <1>1
<1>3. path[j].res \in h \/ MayBeNull(n, k, path[j].res)
  BY <1>2 DEF Backs
<1>4. path[i].op = "free" => path[i].res # path[j].res
  BY <1>2 DEF NothingTwice
<1> QED
  BY <1>3, <1>4

\* A path that is backed by what is held for sure is backed by what is held.
LEMMA BacksMore ==
    ASSUME NEW path, NEW i, NEW n, NEW k, NEW h, NEW g,
           h \subseteq g, Backs(path, i, n, k, h)
    PROVE  Backs(path, i, n, k, g)
BY DEF Backs

\* No path of a call releases anything twice.
LEMMA PathOnce ==
    ASSUME \A n \in Native : Backed(n), NEW c \in CallType, Placed(c)
    PROVE  NothingTwice(PathOf(c))
<1>1. c.native \in Native /\ c.pc \in 1..Len(Steps(c.native))
  BY DEF Placed, Steps
<1>2. CASE c.exit = 0
  BY <1>1, <1>2 DEF Backed, PathOf
<1>3. CASE c.exit # 0
  <2>1. c.exit \in 1..Len(Steps(c.native)[c.pc].fail)
    <3>1. c.exit \in Nat /\ c.exit \in 0..Len(StepOf(c).fail)
      BY DEF CallType, Placed
    <3>2. Len(StepOf(c).fail) \in Nat
      <4>1. StepOf(c).fail \in Seq(Seq(RungType))
        BY PlacedTyped DEF StepType
      <4> QED
        BY <4>1, LenProperties
    <3>3. StepOf(c) = Steps(c.native)[c.pc]
      BY DEF StepOf, Steps
    <3> QED
      BY <1>3, <3>1, <3>2, <3>3
  <2>2. PathOf(c) = Steps(c.native)[c.pc].fail[c.exit]
    BY <1>3 DEF PathOf, StepOf, Steps
  <2> QED
    BY <1>1, <2>1, <2>2 DEF Backed
<1> QED
  BY <1>2, <1>3

\* A step of one thread t, which ends up at c holding h.
LEMMA FreesUpdated ==
    ASSUME TypeOK, FreesHeld, NEW t \in Thread, NEW c, NEW h,
           call' = [call EXCEPT ![t] = c], held' = [held EXCEPT ![t] = h],
           c = Idle \/ Affords(c, h)
    PROVE  FreesHeld'
<1> SUFFICES ASSUME NEW s \in Thread, call'[s] # Idle
             PROVE  Affords(call'[s], held'[s])
  BY DEF FreesHeld, Active, Affords, MustHold, Backs, MayBeNull, Steps, Skippable,
         PathOf, StepOf
<1>1. CASE s = t
  BY <1>1 DEF TypeOK
<1>2. CASE s # t
  BY <1>2 DEF TypeOK, FreesHeld, Active
<1> QED
  BY <1>1, <1>2

\* A thread that advances, by one step or by what this one skips.
LEMMA AffordsAdvance ==
    ASSUME TypeOK, NEW t \in Thread, Stepping(t), NEW k \in Nat \ {0}, NEW h,
           Backed(call[t].native), Advance(t, k),
           k = 1 \/ k = Current(t).skips,
           \A l \in Nat : call[t].pc < l /\ l <= call[t].pc + k
                          => MustHold(call[t].native, l) \subseteq h
    PROVE  \E c \in CallType :
              call' = [call EXCEPT ![t] = c] /\ c # Idle /\ Affords(c, h)
<1> DEFINE n == call[t].native
           len == Len(Steps(n))
<1>1. PICK c \in CallType :
         /\ Placed(c)
         /\ call' = [call EXCEPT ![t] = c]
         /\ c.native = n
         /\ c.exit = 0
         /\ \/ c.rung = 0 /\ c.pc = call[t].pc + k
            \/ c.rung = 1 /\ c.pc = call[t].pc /\ call[t].pc + k > len
  BY AdvancePlaced
<1>2. /\ call[t].pc \in Nat \ {0} /\ call[t].pc \in 1..len /\ len \in Nat
      /\ Current(t) = Steps(n)[call[t].pc]
  BY SteppingTyped
<1>3. c # Idle
  <2>1. c.native # "" /\ Idle.native = ""
    BY <1>1, SteppingTyped, ScriptTyped DEF Idle
  <2> QED
    BY <2>1
<1>4. CASE c.rung = 0 /\ c.pc = call[t].pc + k
  <2>1. MustHold(n, c.pc) \subseteq h
    <3>1. call[t].pc + k \in Nat /\ call[t].pc < call[t].pc + k
      BY <1>2
    <3> QED
      BY <1>4, <3>1
  <2> QED
    BY <1>1, <1>3, <1>4, <2>1 DEF Affords
<1>5. CASE c.rung = 1 /\ c.pc = call[t].pc /\ call[t].pc + k > len
  <2>1. MustHold(n, len + 1) \subseteq h
    <3>1. len + 1 \in Nat /\ call[t].pc < len + 1 /\ len + 1 <= call[t].pc + k
      BY <1>2, <1>5
    <3> QED
      BY <3>1
  <2>2. Backs(Code[n].done, 1, n, call[t].pc, MustHold(n, len + 1))
    <3>1. call[t].pc + 1 > len \/ call[t].pc + Steps(n)[call[t].pc].skips > len
      BY <1>2, <1>5
    <3> QED
      BY <1>2, <3>1 DEF Backed
  <2>3. PathOf(c) = Code[n].done
    BY <1>1 DEF PathOf
  <2>4. Backs(PathOf(c), c.rung, c.native, c.pc, h)
    BY <1>1, <1>5, <2>1, <2>2, <2>3, BacksMore
  <2>5. c.rung # 0
    BY <1>5
  <2>6. Affords(c, h)
    BY <2>4, <2>5 DEF Affords
  <2> QED
    BY <1>1, <1>3, <2>6
<1> QED
  BY <1>1, <1>4, <1>5

\* What is known of a thread about to execute a step.
LEMMA SteppingHeld ==
    ASSUME TypeOK, FreesHeld, NEW t \in Thread, Stepping(t)
    PROVE  MustHold(call[t].native, call[t].pc) \subseteq held[t]
BY SteppingTyped DEF FreesHeld, Affords, Stepping

\* The rungs.
LEMMA FreesUnwinds ==
    ASSUME \A n \in Native : Backed(n),
           TypeOK, FreesHeld, NEW t \in Thread, Unwinding(t),
           call' = [call EXCEPT ![t].rung = @ + 1],
           NEW h, held' = [held EXCEPT ![t] = h],
           \/ h = held[t]
           \/ h = held[t] \ {CurrentRung(t).res} /\ CurrentRung(t).op = "free"
    PROVE  FreesHeld'
<1> DEFINE r == call[t].rung
<1>1. /\ Active(t)
      /\ r \in Nat \ {0} /\ r <= Len(Path(t)) /\ Path(t) \in Seq(RungType)
  BY UnwindingTyped
<1>2. call[t] \in CallType /\ Placed(call[t])
  BY <1>1, ActivePlaced
<1>3. PICK c \in CallType :
         /\ Placed(c)
         /\ call' = [call EXCEPT ![t] = c]
         /\ c.native = call[t].native
         /\ c.pc = call[t].pc
         /\ c.rung = call[t].rung + 1
         /\ c.rung # 0
         /\ PathOf(c) = Path(t)
  BY RungPlaced, Zenon
<1>4. Backs(Path(t), r, call[t].native, call[t].pc, held[t])
  BY <1>1 DEF FreesHeld, Affords, Path
<1>5. NothingTwice(Path(t))
  BY <1>2, PathOnce DEF Path
<1>6. \A x \in held[t] : x \in h \/ (Path(t)[r].op = "free" /\ x = Path(t)[r].res)
  BY DEF CurrentRung
<1> HIDE DEF r
<1>7. Backs(Path(t), r + 1, call[t].native, call[t].pc, h)
  BY <1>1, <1>4, <1>5, <1>6, BacksNext
<1>8. Affords(c, h)
  BY <1>3, <1>7 DEF Affords, r
<1> QED
  BY <1>3, <1>8, FreesUpdated

\* Every step leaves what the rungs ahead release held, when every path of the
\* natives is backed.
LEMMA FreesStep ==
    ASSUME \A n \in Native : Backed(n),
           TypeOK, FreesHeld, [Next]_vars
    PROVE  FreesHeld'
<1>1. ASSUME NEW t \in Thread, NEW n \in Calls[t], Begin(t, n)
      PROVE  FreesHeld'
  <2> DEFINE c == [native |-> n, pc |-> 1, exit |-> 0, rung |-> 0]
  <2>1. c.rung = 0 /\ c.native = n /\ c.pc = 1
    OBVIOUS
  <2>2. call' = [call EXCEPT ![t] = c] /\ held' = [held EXCEPT ![t] = held[t]]
    BY <1>1 DEF Begin, TypeOK
  <2> HIDE DEF c
  <2>3. MustHold(n, 1) = {}
    BY DEF MustHold
  <2>4. Affords(c, held[t])
    BY <2>1, <2>3 DEF Affords
  <2> QED
    BY <2>2, <2>4, FreesUpdated
<1>2. ASSUME NEW t \in Thread, Proceed(t)
      PROVE  FreesHeld'
  <2> DEFINE h == (held[t] \union Current(t).gets) \ Current(t).frees
             n == call[t].native
             k == call[t].pc
  <2>1. /\ n \in Native /\ k \in Nat \ {0}
        /\ Current(t) = Steps(n)[k] /\ Stepping(t) /\ Advance(t, 1)
    BY <1>2, SteppingTyped DEF Proceed
  <2>2. MustHold(n, k) \subseteq held[t]
    BY <2>1, SteppingHeld
  <2>3. MustHold(n, k + 1) \subseteq h
    BY <2>1, <2>2, MustHoldStep
  <2>4. \A l \in Nat : k < l /\ l <= k + 1 => l = k + 1
    BY <2>1
  <2>5. \A l \in Nat : k < l /\ l <= k + 1 => MustHold(n, l) \subseteq h
    BY <2>3, <2>4
  <2>6. held' = [held EXCEPT ![t] = h]
    BY <1>2 DEF Proceed, TypeOK
  <2>7. Backed(n) /\ 1 \in Nat \ {0}
    BY <2>1
  <2> HIDE DEF h
  <2>8. \E c \in CallType : call' = [call EXCEPT ![t] = c] /\ c # Idle /\ Affords(c, h)
    BY <2>1, <2>5, <2>7, AffordsAdvance
  <2> QED
    BY <2>6, <2>8, FreesUpdated
<1>3. ASSUME NEW t \in Thread, Skip(t)
      PROVE  FreesHeld'
  <2> DEFINE n == call[t].native
             k == call[t].pc
             j == Current(t).skips
  <2>1. /\ n \in Native /\ k \in Nat \ {0} /\ j \in Nat \ {0}
        /\ Current(t) = Steps(n)[k] /\ Stepping(t) /\ Advance(t, j)
    BY <1>3, SteppingTyped DEF Skip
  <2>2. MustHold(n, k) \subseteq held[t]
    BY <2>1, SteppingHeld
  <2>3. \A l \in Nat : k < l /\ l <= k + j => MustHold(n, l) \subseteq held[t]
    BY <2>1, <2>2, MustHoldSkip
  <2>4. held' = [held EXCEPT ![t] = held[t]]
    BY <1>3 DEF Skip, TypeOK
  <2>5. Backed(n)
    BY <2>1
  <2>6. \E c \in CallType :
           call' = [call EXCEPT ![t] = c] /\ c # Idle /\ Affords(c, held[t])
    BY <2>1, <2>3, <2>5, AffordsAdvance
  <2> QED
    BY <2>4, <2>6, FreesUpdated
<1>4. ASSUME NEW t \in Thread, Fail(t)
      PROVE  FreesHeld'
  <2> DEFINE n == call[t].native
             k == call[t].pc
  <2>1. /\ n \in Native /\ k \in 1..Len(Steps(n))
        /\ Current(t) = Steps(n)[k] /\ Stepping(t)
    BY <1>4, SteppingTyped DEF Fail
  <2>2. PICK e \in 1..Len(Current(t).fail) :
            call' = [call EXCEPT ![t].exit = e, ![t].rung = 1]
    BY <1>4 DEF Fail
  <2>3. PICK c \in CallType :
            /\ Placed(c)
            /\ call' = [call EXCEPT ![t] = c]
            /\ c.native = n
            /\ c.pc = k
            /\ c.exit = e
            /\ c.rung = 1
            /\ PathOf(c) = Current(t).fail[e]
    BY <2>1, <2>2, FailPlaced, Zenon
  <2>4. MustHold(n, k) \subseteq held[t]
    BY <2>1, SteppingHeld
  <2>5. Backs(Current(t).fail[e], 1, n, k, MustHold(n, k))
    BY <2>1, <2>2 DEF Backed
  <2>6. Backs(Current(t).fail[e], 1, n, k, held[t])
    BY <2>4, <2>5, BacksMore
  <2>7. c.rung # 0
    BY <2>3
  <2>8. Affords(c, held[t])
    BY <2>3, <2>6, <2>7 DEF Affords
  <2>9. held' = [held EXCEPT ![t] = held[t]]
    BY <1>4 DEF Fail, TypeOK
  <2> QED
    BY <2>3, <2>8, <2>9, FreesUpdated
<1>5. ASSUME NEW t \in Thread, ReleaseResource(t)
      PROVE  FreesHeld'
  <2>1. held' = [held EXCEPT ![t] = held[t] \ {CurrentRung(t).res}]
    BY <1>5 DEF ReleaseResource, TypeOK
  <2> QED
    BY <1>5, <2>1, FreesUnwinds DEF ReleaseResource, AtRung
<1>6. ASSUME NEW t \in Thread,
             \/ WipeScratch(t) \/ DetachRandom(t) \/ DropResult(t)
             \/ LeaveUnset(t) \/ FormatError(t) \/ ThrowException(t)
      PROVE  FreesHeld'
  <2>1. /\ held' = [held EXCEPT ![t] = held[t]]
        /\ Unwinding(t)
        /\ call' = [call EXCEPT ![t].rung = @ + 1]
    BY <1>6 DEF WipeScratch, DetachRandom, DropResult, LeaveUnset, FormatError,
                ThrowException, AtRung, TypeOK
  <2> QED
    BY <2>1, FreesUnwinds
<1>7. ASSUME NEW t \in Thread, Return(t)
      PROVE  FreesHeld'
  BY <1>7, FreesUpdated DEF Return
<1>8. CASE UNCHANGED vars
  <2> SUFFICES ASSUME NEW s \in Thread, call'[s] # Idle
               PROVE  Affords(call'[s], held'[s])
    BY DEF FreesHeld, Active, Affords, MustHold, Backs, MayBeNull, Steps, Skippable,
           PathOf, StepOf
  <2> QED
    BY <1>8 DEF vars, FreesHeld, Active
<1> QED
  BY <1>1, <1>2, <1>3, <1>4, <1>5, <1>6, <1>7, <1>8 DEF Next, Run

\* Whatever the rungs a call is on have yet to release, it holds, or it is an
\* optional argument that may be null.
THEOREM ReleasesAlwaysBacked ==
    ASSUME \A n \in Native : Backed(n)
    PROVE  Spec => []FreesHeld
<1>1. Init => FreesHeld
  BY DEF Init, FreesHeld, Active
<1>2. TypeOK /\ FreesHeld /\ [Next]_vars => FreesHeld'
  BY FreesStep
<1> QED
  BY <1>1, <1>2, TypeCorrect, PTL DEF Spec

\* No label of a goto ladder releases what was not acquired, or releases
\* anything twice, whichever statement failed.
THEOREM OnlyHeldIsReleased ==
    ASSUME \A n \in Native : Backed(n)
    PROVE  Spec => []ReleasesHeld
<1>1. TypeOK /\ FreesHeld => ReleasesHeld
  <2> SUFFICES ASSUME TypeOK, FreesHeld, NEW t \in Thread, Unwinding(t),
                      CurrentRung(t).op = "free"
               PROVE  \/ CurrentRung(t).res \in held[t]
                      \/ \E i \in 1..call[t].pc :
                           /\ CurrentRung(t).res \in Body(t).steps[i].gets
                           /\ Body(t).steps[i].skips > 0
    BY DEF ReleasesHeld
  <2>1. /\ Active(t)
        /\ call[t].rung \in Nat \ {0} /\ call[t].rung <= Len(Path(t))
        /\ Path(t) \in Seq(RungType)
    BY UnwindingTyped
  <2>2. Backs(Path(t), call[t].rung, call[t].native, call[t].pc, held[t])
    BY <2>1 DEF FreesHeld, Affords, Path
  <2>3. call[t].rung \in call[t].rung..Len(Path(t))
    BY <2>1, LenProperties
  <2> QED
    BY <2>2, <2>3 DEF Backs, MayBeNull, CurrentRung, Steps, Body
<1> QED
  BY <1>1, ReleasesAlwaysBacked, TypeCorrect, PTL DEF Spec

----------------------------------------------------------------------------
(* Exceptions of the JVM.                                                  *)

\* A step of one thread t, which ends up at c with an exception of the JVM or not.
LEMMA RefusedUpdated ==
    ASSUME TypeOK, RefusedLeaves, NEW t \in Thread, NEW c, NEW x,
           call' = [call EXCEPT ![t] = c], refused' = [refused EXCEPT ![t] = x],
           x => c.rung > 0
    PROVE  RefusedLeaves'
<1> SUFFICES ASSUME NEW s \in Thread, refused'[s] PROVE call'[s].rung > 0
  BY DEF RefusedLeaves
<1>1. CASE s = t
  BY <1>1 DEF TypeOK
<1>2. CASE s # t
  BY <1>2 DEF TypeOK, RefusedLeaves
<1> QED
  BY <1>1, <1>2

\* A step of t that leaves the exceptions of the JVM as they are and t on its way
\* out if it was.
LEMMA RefusedKept ==
    ASSUME TypeOK, RefusedLeaves, NEW t \in Thread, NEW c, UNCHANGED refused,
           call' = [call EXCEPT ![t] = c], call[t].rung > 0 => c.rung > 0
    PROVE  RefusedLeaves'
<1>1. refused' = [refused EXCEPT ![t] = refused[t]]
  BY DEF TypeOK
<1>2. refused[t] => c.rung > 0
  BY DEF RefusedLeaves
<1> QED
  BY <1>1, <1>2, RefusedUpdated

LEMMA RefusedStep ==
    ASSUME TypeOK, RefusedLeaves, [Next]_vars
    PROVE  RefusedLeaves'
<1>1. CASE UNCHANGED vars
  BY <1>1 DEF vars, RefusedLeaves
<1>2. ASSUME NEW t \in Thread, NEW n \in Calls[t], Begin(t, n)
      PROVE  RefusedLeaves'
  <2>1. ~(call[t].rung > 0)
    <3>1. call[t] = Idle /\ Idle.rung = 0
      BY <1>2 DEF Begin, Active, Idle
    <3> QED
      BY <3>1
  <2>2. UNCHANGED refused /\ \E c : call' = [call EXCEPT ![t] = c]
    BY <1>2 DEF Begin
  <2> QED
    BY <2>1, <2>2, RefusedKept
<1>3. ASSUME NEW t \in Thread, Proceed(t) \/ Skip(t)
      PROVE  RefusedLeaves'
  <2>1. PICK k \in Nat \ {0} : Stepping(t) /\ Advance(t, k) /\ UNCHANGED refused
    <3>1. Stepping(t)
      BY <1>3 DEF Proceed, Skip
    <3>2. Current(t).skips \in Nat
      BY <3>1, SteppingTyped
    <3> QED
      BY <1>3, <3>1, <3>2 DEF Proceed, Skip
  <2>2. PICK c \in CallType : call' = [call EXCEPT ![t] = c]
    BY <2>1, AdvancePlaced, Zenon
  <2>3. ~(call[t].rung > 0)
    BY <2>1 DEF Stepping
  <2> QED
    BY <2>1, <2>2, <2>3, RefusedKept
<1>4. ASSUME NEW t \in Thread, Fail(t)
      PROVE  RefusedLeaves'
  <2>1. PICK e \in 1..Len(Current(t).fail) :
          call' = [call EXCEPT ![t].exit = e, ![t].rung = 1]
    BY <1>4 DEF Fail
  <2>2. call' = [call EXCEPT ![t] = [call[t] EXCEPT !.exit = e, !.rung = 1]]
    BY <2>1
  <2>3. call[t] \in CallType
    BY DEF TypeOK
  <2> DEFINE c == [call[t] EXCEPT !.exit = e, !.rung = 1]
  <2>5. c.rung = 1
    BY <2>3 DEF CallType
  <2>6. call' = [call EXCEPT ![t] = c]
    BY <2>2
  <2>7. c.rung > 0
    BY <2>5
  <2> HIDE DEF c
  <2>4. PICK jvm \in BOOLEAN : refused' = [refused EXCEPT ![t] = jvm]
    BY <1>4 DEF Fail
  <2> QED
    BY <2>4, <2>6, <2>7, RefusedUpdated
<1>5. ASSUME NEW t \in Thread,
             \/ ReleaseResource(t) \/ WipeScratch(t) \/ DetachRandom(t)
             \/ DropResult(t) \/ LeaveUnset(t) \/ FormatError(t) \/ ThrowException(t)
      PROVE  RefusedLeaves'
  <2>1. Unwinding(t) /\ call' = [call EXCEPT ![t].rung = @ + 1] /\ UNCHANGED refused
    BY <1>5 DEF ReleaseResource, WipeScratch, DetachRandom, DropResult, LeaveUnset,
                FormatError, ThrowException, AtRung
  <2>2. PICK c \in CallType :
           call' = [call EXCEPT ![t] = c] /\ c.rung = call[t].rung + 1
    BY <2>1, RungPlaced, Zenon
  <2>3. c.rung > 0
    BY <2>1, <2>2, UnwindingTyped
  <2> QED
    BY <2>1, <2>2, <2>3, RefusedKept
<1>6. ASSUME NEW t \in Thread, Return(t)
      PROVE  RefusedLeaves'
  BY <1>6, RefusedUpdated DEF Return
<1> QED
  BY <1>1, <1>2, <1>3, <1>4, <1>5, <1>6 DEF Next, Run

\* A call that the JVM has refused something executes no other statement of its
\* straight-line path.
LEMMA RefusedAlwaysLeaves == Spec => []RefusedLeaves
<1>1. Init => RefusedLeaves
  BY DEF Init, RefusedLeaves
<1>2. TypeOK /\ RefusedLeaves /\ [Next]_vars => RefusedLeaves'
  BY RefusedStep
<1> QED
  BY <1>1, <1>2, TypeCorrect, PTL DEF Spec

----------------------------------------------------------------------------
(* The contract.                                                           *)

\* The native each thread is in, as the contract sees it.
Method == [t \in Thread |-> call[t].native]

\* A step of t within one native is not seen in Method; a call and a return are.
LEMMA MethodUpdated ==
    ASSUME TypeOK, NEW t \in Thread, NEW c, call' = [call EXCEPT ![t] = c]
    PROVE  Method' = [Method EXCEPT ![t] = c.native]
BY DEF TypeOK, Method

LEMMA MethodKept ==
    ASSUME TypeOK, NEW t \in Thread, NEW c, call' = [call EXCEPT ![t] = c],
           c.native = call[t].native
    PROVE  Method' = Method
<1>1. Method' = [Method EXCEPT ![t] = Method[t]]
  BY MethodUpdated DEF Method
<1> QED
  BY <1>1 DEF Method

\* A thread in a native is in a native for the contract too.
LEMMA MethodActive ==
    ASSUME TypeOK, NEW t \in Thread, Active(t)
    PROVE  Method[t] \in Native /\ Method[t] # ""
BY ActivePlaced, CodeAssumption DEF Method

\* What a step acquires is a resource of the contract.
LEMMA StepResource ==
    ASSUME NEW n \in Native, NEW k \in 1..Len(Steps(n)), NEW r \in Steps(n)[k].gets
    PROVE  r \in Resources
BY DEF Resources, Steps

\* A call begins.
LEMMA BeginEnters ==
    ASSUME TypeOK, NEW t \in Thread, NEW n \in Calls[t], Begin(t, n)
    PROVE  Contract!Enter(t)
<1> DEFINE c == [native |-> n, pc |-> 1, exit |-> 0, rung |-> 0]
<1>1. n \in Native
  BY CodeAssumption
<1>2. call' = [call EXCEPT ![t] = c] /\ c.native = n
  BY DEF Begin
<1> HIDE DEF c
<1>3. Method' = [Method EXCEPT ![t] = n]
  BY <1>2, MethodUpdated
<1>4. Method[t] = ""
  <2>1. call[t] = Idle /\ Idle.native = ""
    BY DEF Begin, Active, Idle
  <2> QED
    BY <2>1 DEF Method
<1>5. held' = held /\ value' = value /\ refused' = refused /\ thrown' = thrown
  BY DEF Begin
<1> QED
  BY <1>1, <1>3, <1>4, <1>5 DEF Contract!Enter, Method

\* A step that succeeds acquires, releases or produces, with no exception pending.
LEMMA ProceedWorks ==
    ASSUME TypeOK, OutcomeIsOwed, RefusedLeaves, NEW t \in Thread, Proceed(t),
           Orderly(call[t].native)
    PROVE  \/ Contract!Acquire(t) \/ Contract!Produce(t) \/ Contract!Release(t)
           \/ UNCHANGED Contract!vars
<1> DEFINE n == call[t].native
           k == call[t].pc
           s == Steps(n)[k]
<1>1. /\ n \in Native /\ k \in 1..Len(Steps(n)) /\ Current(t) = s
      /\ Stepping(t) /\ Advance(t, 1) /\ Active(t)
  BY SteppingTyped DEF Proceed, Stepping
<1>2. ~thrown[t] /\ ~refused[t]
  BY <1>1, SteppingOutcome DEF RefusedLeaves, Stepping
<1>3. Method' = Method
  <2>1. PICK c \in CallType : call' = [call EXCEPT ![t] = c] /\ c.native = n
    BY <1>1, AdvancePlaced
  <2> QED
    BY <2>1, MethodKept
<1>4. Method[t] # ""
  BY <1>1, MethodActive
<1>5. /\ held' = [held EXCEPT ![t] = (held[t] \union s.gets) \ s.frees]
      /\ value' = [value EXCEPT ![t] = value[t] \/ s.makes]
      /\ refused' = refused /\ thrown' = thrown
  BY <1>1 DEF Proceed, TypeOK
<1>6. \/ s.gets = {} /\ s.frees = {}
      \/ ~s.makes /\ s.frees = {} /\ \E r \in s.gets : s.gets = {r}
      \/ ~s.makes /\ s.gets = {} /\ \E r \in s.frees : s.frees = {r}
  BY <1>1 DEF Orderly
<1>7. ASSUME ~s.makes PROVE value' = value
  <2>1. value' = [value EXCEPT ![t] = value[t]]
    BY <1>5, <1>7 DEF TypeOK
  <2> QED
    BY <2>1 DEF TypeOK
<1> HIDE DEF n, k, s
<1>8. CASE s.gets = {} /\ s.frees = {}
  <2>1. held' = held
    BY <1>5, <1>8 DEF TypeOK
  <2>2. CASE s.makes
    <3>1. value' = [value EXCEPT ![t] = TRUE]
      BY <1>5, <2>2
    <3> QED
      BY <1>2, <1>3, <1>4, <1>5, <2>1, <3>1
         DEF Contract!Produce, Contract!Working, Method
  <2>3. CASE ~s.makes
    BY <1>3, <1>5, <1>7, <2>1, <2>3 DEF Contract!vars, Method
  <2> QED
    BY <2>2, <2>3
<1>9. CASE ~s.makes /\ s.frees = {} /\ \E r \in s.gets : s.gets = {r}
  <2>1. PICK r \in s.gets : s.gets = {r}
    BY <1>9
  <2>2. r \in Resources
    BY <1>1, StepResource DEF s
  <2>3. held' = [held EXCEPT ![t] = held[t] \union {r}]
    BY <1>5, <1>9, <2>1
  <2> QED
    BY <1>2, <1>3, <1>4, <1>5, <1>7, <1>9, <2>2, <2>3
       DEF Contract!Acquire, Contract!Working, Method
<1>10. CASE ~s.makes /\ s.gets = {} /\ \E r \in s.frees : s.frees = {r}
  <2>1. PICK r : s.frees = {r}
    BY <1>10
  <2>2. held' = [held EXCEPT ![t] = held[t] \ {r}]
    BY <1>5, <1>10, <2>1
  <2>3. CASE r \in held[t]
    BY <1>3, <1>4, <1>5, <1>7, <1>10, <2>2, <2>3 DEF Contract!Release, Method
  <2>4. CASE r \notin held[t]
    <3>1. held' = held
      BY <2>2, <2>4 DEF TypeOK
    <3> QED
      BY <1>3, <1>5, <1>7, <1>10, <3>1 DEF Contract!vars, Method
  <2> QED
    BY <2>3, <2>4
<1> QED
  BY <1>6, <1>8, <1>9, <1>10

\* A step that is skipped is nothing to the contract.
LEMMA SkipHides ==
    ASSUME TypeOK, NEW t \in Thread, Skip(t)
    PROVE  UNCHANGED Contract!vars
<1> DEFINE j == Current(t).skips
<1>1. j \in Nat \ {0} /\ Stepping(t) /\ Advance(t, j)
  BY SteppingTyped DEF Skip
<1> HIDE DEF j
<1>2. PICK c \in CallType : call' = [call EXCEPT ![t] = c] /\ c.native = call[t].native
  BY <1>1, AdvancePlaced
<1>3. Method' = Method
  BY <1>2, MethodKept
<1> QED
  BY <1>3 DEF Skip, Contract!vars, Method

\* A step that fails takes the result back, if it is the one that makes it, and the
\* JVM may have refused it something.
LEMMA FailWithdraws ==
    ASSUME TypeOK, OutcomeIsOwed, RefusedLeaves, NEW t \in Thread, Fail(t)
    PROVE  \/ Contract!Withdraw(t) \/ Contract!Refuse(t)
           \/ UNCHANGED Contract!vars
<1>1. Stepping(t) /\ Active(t)
  BY DEF Fail, Stepping
<1>2. PICK e \in 1..Len(Current(t).fail) :
          call' = [call EXCEPT ![t].exit = e, ![t].rung = 1]
  BY DEF Fail
<1>3. PICK c \in CallType : call' = [call EXCEPT ![t] = c] /\ c.native = call[t].native
  BY <1>1, <1>2, FailPlaced, Zenon
<1>4. Method' = Method
  BY <1>3, MethodKept
<1>5. Method[t] # "" /\ ~thrown[t] /\ ~refused[t]
  <2>1. ~thrown[t]
    BY <1>1, SteppingOutcome
  <2>2. ~refused[t]
    BY <1>1 DEF RefusedLeaves, Stepping
  <2> QED
    BY <1>1, <2>1, <2>2, MethodActive
<1>6. /\ held' = held /\ thrown' = thrown
      /\ value' = [value EXCEPT ![t] = value[t] /\ ~Current(t).makes]
  BY DEF Fail, TypeOK
<1>7. value' = value \/ value' = [value EXCEPT ![t] = FALSE]
  <2>1. CASE Current(t).makes
    BY <1>6, <2>1
  <2>2. CASE ~Current(t).makes
    <3>1. value' = [value EXCEPT ![t] = value[t]]
      BY <1>6, <2>2 DEF TypeOK
    <3> QED
      BY <3>1 DEF TypeOK
  <2> QED
    BY <2>1, <2>2
<1>8. PICK jvm \in BOOLEAN : refused' = [refused EXCEPT ![t] = jvm]
  BY DEF Fail
<1>9. CASE jvm
  <2>1. refused' = [refused EXCEPT ![t] = TRUE]
    BY <1>8, <1>9
  <2> QED
    BY <1>4, <1>5, <1>6, <1>7, <2>1 DEF Contract!Refuse, Contract!Working, Method
<1>10. CASE ~jvm
  <2>1. refused' = refused
    BY <1>5, <1>8, <1>10 DEF TypeOK
  <2> QED
    BY <1>4, <1>5, <1>6, <1>7, <2>1 DEF Contract!Withdraw, Contract!vars, Method
<1> QED
  BY <1>9, <1>10

\* The rungs: the native stays, and is one for the contract.
LEMMA RungStays ==
    ASSUME TypeOK, NEW t \in Thread,
           Unwinding(t), call' = [call EXCEPT ![t].rung = @ + 1]
    PROVE  Method' = Method /\ Method[t] # ""
<1>1. PICK c \in CallType : call' = [call EXCEPT ![t] = c] /\ c.native = call[t].native
  BY RungPlaced, Zenon
<1>2. Active(t)
  BY UnwindingTyped
<1> QED
  BY <1>1, <1>2, MethodKept, MethodActive

\* A rung releases something, takes the result back, throws if nothing is thrown
\* yet, or is nothing to the contract.
LEMMA ReleaseRung ==
    ASSUME TypeOK, NEW t \in Thread, ReleaseResource(t)
    PROVE  Contract!Release(t) \/ UNCHANGED Contract!vars
<1> DEFINE r == CurrentRung(t).res
<1>1. Method' = Method /\ Method[t] # ""
  BY RungStays DEF ReleaseResource, AtRung
<1>2. /\ held' = [held EXCEPT ![t] = held[t] \ {r}]
      /\ value' = value /\ refused' = refused /\ thrown' = thrown
  BY DEF ReleaseResource, TypeOK
<1> HIDE DEF r
<1>3. CASE r \in held[t]
  BY <1>1, <1>2, <1>3 DEF Contract!Release, Method
<1>4. CASE r \notin held[t]
  <2>1. held' = held
    BY <1>2, <1>4 DEF TypeOK
  <2> QED
    BY <1>1, <1>2, <2>1 DEF Contract!vars, Method
<1> QED
  BY <1>3, <1>4

LEMMA QuietRung ==
    ASSUME TypeOK, NEW t \in Thread,
           WipeScratch(t) \/ DetachRandom(t) \/ FormatError(t)
    PROVE  UNCHANGED Contract!vars
<1>1. /\ Unwinding(t) /\ call' = [call EXCEPT ![t].rung = @ + 1]
      /\ held' = held /\ value' = value /\ refused' = refused /\ thrown' = thrown
  BY DEF WipeScratch, DetachRandom, FormatError, AtRung
<1>2. Method' = Method
  BY <1>1, RungStays
<1> QED
  BY <1>1, <1>2 DEF Contract!vars, Method

LEMMA DropRung ==
    ASSUME TypeOK, NEW t \in Thread, DropResult(t)
    PROVE  Contract!Withdraw(t)
<1>1. Method' = Method /\ Method[t] # ""
  BY RungStays DEF DropResult, AtRung
<1> QED
  BY <1>1 DEF DropResult, Contract!Withdraw, Method

\* Only a path of Odd leaves the result unset.
LEMMA UnsetRung ==
    ASSUME TypeOK, OutcomeIsOwed, NEW t \in Thread, LeaveUnset(t)
    PROVE  Contract!Withdraw(t) \/ Contract!Forget(t)
<1>1. /\ Unwinding(t) /\ call' = [call EXCEPT ![t].rung = @ + 1]
      /\ CurrentRung(t).op = "unset"
      /\ held' = held /\ refused' = refused /\ thrown' = thrown
  BY DEF LeaveUnset, AtRung
<1>2. Method' = Method /\ Method[t] # ""
  BY <1>1, RungStays
<1>3. PICK v \in BOOLEAN : value' = [value EXCEPT ![t] = v]
  BY DEF LeaveUnset
<1>4. LeftAt(t) \in Odd
  <2>1. /\ Active(t)
        /\ call[t].rung \in Nat \ {0} /\ call[t].rung <= Len(Path(t))
        /\ Path(t) \in Seq(RungType)
    BY <1>1, UnwindingTyped
  <2>2. call[t].rung \in call[t].rung..Len(Path(t))
    BY <2>1, LenProperties
  <2>3. OpFrom(Path(t), call[t].rung, "unset")
    BY <1>1, <2>2 DEF OpFrom, CurrentRung
  <2>4. Decides(call[t], value[t], thrown[t]) /\ call[t].rung # 0
    BY <2>1 DEF OutcomeIsOwed
  <2> QED
    BY <2>3, <2>4 DEF Decides, Path, LeftAt
<1>5. Method[t] \in {p[1] : p \in Odd}
  <2>1. LeftAt(t)[1] = Method[t]
    BY DEF LeftAt, Method
  <2> QED
    BY <1>4, <2>1
<1>6. CASE v
  <2>1. value' = [value EXCEPT ![t] = TRUE]
    BY <1>3, <1>6
  <2> QED
    BY <1>1, <1>2, <1>5, <2>1 DEF Contract!Forget, Method
<1>7. CASE ~v
  <2>1. value' = [value EXCEPT ![t] = FALSE]
    BY <1>3, <1>7
  <2> QED
    BY <1>1, <1>2, <2>1 DEF Contract!Withdraw, Method
<1> QED
  BY <1>6, <1>7

LEMMA ThrowRung ==
    ASSUME TypeOK, NEW t \in Thread, ThrowException(t)
    PROVE  Contract!Raise(t) \/ UNCHANGED Contract!vars
<1>1. Method' = Method /\ Method[t] # ""
  BY RungStays DEF ThrowException, AtRung
<1>2. /\ held' = held /\ value' = value /\ refused' = refused
      /\ thrown' = [thrown EXCEPT ![t] = TRUE]
  BY DEF ThrowException
<1>3. CASE ~thrown[t]
  BY <1>1, <1>2, <1>3 DEF Contract!Raise, Method
<1>4. CASE thrown[t]
  <2>1. thrown[t] = TRUE
    BY <1>4 DEF TypeOK
  <2>2. thrown' = thrown
    BY <1>2, <2>1 DEF TypeOK
  <2> QED
    BY <1>1, <1>2, <2>2 DEF Contract!vars, Method
<1> QED
  BY <1>3, <1>4

\* A native returns with nothing held and exactly one of result and exception,
\* or is one of those known not to.
LEMMA ReturnLeaves ==
    ASSUME TypeOK, NoLeak, OneOutcome, NEW t \in Thread, Return(t)
    PROVE  Contract!Leave(t)
<1>1. Returning(t) /\ call[t].rung > 0
  BY DEF Return, Returning
<1>2. Active(t)
  <2>1. Idle.rung = 0
    BY DEF Idle
  <2> QED
    BY <1>1, <2>1 DEF Active
<1>3. Method[t] # ""
  BY <1>2, MethodActive
<1>4. Method' = [Method EXCEPT ![t] = ""]
  <2>1. call' = [call EXCEPT ![t] = Idle] /\ Idle.native = ""
    BY DEF Return, Idle
  <2> QED
    BY <2>1, MethodUpdated
<1>5. held[t] = {} \/ LeftAt(t) \in Leaky
  BY <1>1 DEF NoLeak
<1>6. value[t] # thrown[t] \/ LeftAt(t) \in Odd
  BY <1>1 DEF OneOutcome
<1>7. LeftAt(t)[1] = Method[t]
  BY DEF LeftAt, Method
<1>8. /\ held[t] = {} \/ Method[t] \in {p[1] : p \in Leaky}
      /\ value[t] # thrown[t] \/ Method[t] \in {p[1] : p \in Odd}
  BY <1>5, <1>6, <1>7
<1> QED
  BY <1>3, <1>4, <1>8 DEF Return, Contract!Leave, Method

\* Natives that balance, decide and go about it in order implement CallContract:
\* whatever fails and however threads interleave, each releases what it
\* acquired, works only while no exception is pending, neither the JVM's nor its
\* own, and gives Java one of a result and an exception.
THEOREM NativesKeepContract ==
    ASSUME \A n \in Native : Balanced(n) /\ Decided(n) /\ Orderly(n)
    PROVE  Spec => KeepsContract
<1> DEFINE Inv == TypeOK /\ OutcomeIsOwed /\ RefusedLeaves /\ NoLeak /\ OneOutcome
<1>1. Init => Contract!Init
  <2> SUFFICES ASSUME Init PROVE Contract!Init
    OBVIOUS
  <2>1. \A t \in Thread : call[t] = Idle /\ Idle.native = ""
    BY DEF Init, Idle
  <2>2. [t \in Thread |-> call[t].native] = [t \in Thread |-> ""]
    BY <2>1
  <2> QED
    BY <2>2 DEF Init, Contract!Init
<1>2. Inv /\ [Next]_vars => [Contract!Next]_(Contract!vars)
  <2> SUFFICES ASSUME Inv, [Next]_vars
               PROVE  Contract!Next \/ UNCHANGED Contract!vars
    BY Zenon
  <2>1. CASE UNCHANGED vars
    BY <2>1 DEF vars, Contract!vars
  <2>2. ASSUME NEW t \in Thread, NEW n \in Calls[t], Begin(t, n)
        PROVE  Contract!Next
    BY <2>2, BeginEnters DEF Contract!Next
  <2>3. ASSUME NEW t \in Thread, Proceed(t)
        PROVE  Contract!Next \/ UNCHANGED Contract!vars
    <3>1. Orderly(call[t].native)
      BY <2>3, SteppingTyped DEF Proceed
    <3> QED
      BY <2>3, <3>1, ProceedWorks DEF Contract!Next
  <2>4. ASSUME NEW t \in Thread, Return(t)
        PROVE  Contract!Next
    BY <2>4, ReturnLeaves DEF Contract!Next
  <2>5. ASSUME NEW t \in Thread, Skip(t) \/ Fail(t)
        PROVE  Contract!Next \/ UNCHANGED Contract!vars
    BY <2>5, SkipHides, FailWithdraws DEF Contract!Next
  <2>6. ASSUME NEW t \in Thread,
               \/ ReleaseResource(t) \/ WipeScratch(t) \/ DetachRandom(t)
               \/ DropResult(t) \/ LeaveUnset(t) \/ FormatError(t) \/ ThrowException(t)
        PROVE  Contract!Next \/ UNCHANGED Contract!vars
    BY <2>6, ReleaseRung, QuietRung, DropRung, UnsetRung, ThrowRung DEF Contract!Next
  <2> QED
    BY <2>1, <2>2, <2>3, <2>4, <2>5, <2>6 DEF Next, Run
<1>3. \A n \in Native : Balanced(n)
  OBVIOUS
<1>4. \A n \in Native : Decided(n)
  OBVIOUS
<1>5. Spec => []TypeOK
  BY TypeCorrect
<1>6. Spec => []NoLeak
  BY <1>3, NothingLeaks
<1>7. Spec => []OneOutcome
  BY <1>4, OneOutcomeAlways
<1>8. Spec => []OutcomeIsOwed
  BY <1>4, OutcomeAlwaysOwed
<1>9. Spec => Contract!Spec
  BY <1>1, <1>2, <1>5, <1>6, <1>7, <1>8, RefusedAlwaysLeaves, PTL DEF Spec, Contract!Spec
<1> QED
  BY <1>9 DEF KeepsContract

----------------------------------------------------------------------------
(* What a native does while an exception is pending.                       *)

\* A path that throws has no second throw ahead.
LEMMA PathThrowsOnce ==
    ASSUME \A n \in Native : Decided(n) /\ ThrowsOnce(n),
           TypeOK, NEW t \in Thread, Unwinding(t), CurrentRung(t).op = "throw"
    PROVE  ~OpFrom(Path(t), call[t].rung + 1, "throw")
<1> DEFINE n == call[t].native
           k == call[t].rung
<1>1. /\ Active(t) /\ n \in Native /\ k \in Nat \ {0} /\ k <= Len(Path(t))
      /\ Path(t) \in Seq(RungType) /\ Len(Path(t)) \in Nat
  BY UnwindingTyped, LenProperties
<1>2. call[t] \in CallType /\ Placed(call[t])
  BY <1>1, ActivePlaced
<1>3. CASE call[t].exit = 0
  <2>1. Path(t) = Code[n].done
    BY <1>3 DEF Path, PathOf
  <2>2. ~OpFrom(Path(t), 1, "throw")
    BY <1>1, <2>1 DEF Decided
  <2>3. k \in 1..Len(Path(t))
    BY <1>1
  <2> QED
    BY <2>2, <2>3 DEF OpFrom, CurrentRung
<1>4. CASE call[t].exit # 0
  <2>1. call[t].pc \in 1..Len(Steps(n))
    BY <1>2 DEF Placed, Steps
  <2>2. Path(t) = Steps(n)[call[t].pc].fail[call[t].exit]
    BY <1>4 DEF Path, PathOf, StepOf, Steps
  <2>3. call[t].exit \in 1..Len(Steps(n)[call[t].pc].fail)
    <3>1. Len(StepOf(call[t]).fail) \in Nat
      BY <1>2, PlacedTyped, LenProperties
    <3> QED
      BY <1>2, <1>4, <3>1 DEF Placed, StepOf, Steps
  <2>4. \A i, j \in 1..Len(Path(t)) :
          Path(t)[i].op = "throw" /\ Path(t)[j].op = "throw" => i = j
    BY <1>1, <2>1, <2>2, <2>3 DEF ThrowsOnce
  <2>5. Path(t)[k].op = "throw" /\ k \in 1..Len(Path(t))
    BY <1>1 DEF CurrentRung
  <2>6. \A i \in k + 1..Len(Path(t)) : i \in 1..Len(Path(t)) /\ i # k
    BY <1>1
  <2> QED
    BY <2>4, <2>5, <2>6 DEF OpFrom
<1> QED
  BY <1>3, <1>4

\* A step of one thread t, which ends up at c with an exception or not.
LEMMA ThrownUpdated ==
    ASSUME TypeOK, NoSecondThrow, NEW t \in Thread, NEW c, NEW x,
           call' = [call EXCEPT ![t] = c], thrown' = [thrown EXCEPT ![t] = x],
           x => c.rung > 0 /\ ~OpFrom(PathOf(c), c.rung, "throw")
    PROVE  NoSecondThrow'
<1> SUFFICES ASSUME NEW s \in Thread, thrown'[s]
             PROVE  call'[s].rung > 0 /\ ~OpFrom(PathOf(call'[s]), call'[s].rung, "throw")
  BY DEF NoSecondThrow, Path, OpFrom, PathOf, StepOf
<1>1. CASE s = t
  BY <1>1 DEF TypeOK
<1>2. CASE s # t
  BY <1>2 DEF TypeOK, NoSecondThrow, Path
<1> QED
  BY <1>1, <1>2

\* A step of a thread that is at no rung, and so has not thrown.
LEMMA ThrownNot ==
    ASSUME TypeOK, NoSecondThrow, NEW t \in Thread, call[t].rung = 0, UNCHANGED thrown,
           NEW c, call' = [call EXCEPT ![t] = c]
    PROVE  NoSecondThrow'
<1>1. thrown' = [thrown EXCEPT ![t] = thrown[t]]
  BY DEF TypeOK
<1>2. ~thrown[t]
  BY DEF NoSecondThrow
<1>3. thrown[t] => c.rung > 0 /\ ~OpFrom(PathOf(c), c.rung, "throw")
  BY <1>2
<1> QED
  BY <1>1, <1>3, ThrownUpdated

\* A rung other than a throw.
LEMMA ThrownUnwinds ==
    ASSUME TypeOK, NoSecondThrow, NEW t \in Thread, Unwinding(t),
           call' = [call EXCEPT ![t].rung = @ + 1], UNCHANGED thrown
    PROVE  NoSecondThrow'
<1>1. PICK c \in CallType :
         /\ call' = [call EXCEPT ![t] = c]
         /\ c.rung = call[t].rung + 1
         /\ PathOf(c) = Path(t)
  BY RungPlaced, Zenon
<1>2. /\ call[t].rung \in Nat \ {0} /\ call[t].rung <= Len(Path(t))
      /\ Path(t) \in Seq(RungType)
  BY UnwindingTyped
<1>3. thrown[t] => ~OpFrom(Path(t), call[t].rung + 1, "throw")
  BY <1>2, OpNext DEF NoSecondThrow
<1>4. thrown' = [thrown EXCEPT ![t] = thrown[t]]
  BY DEF TypeOK
<1>5. c.rung > 0
  BY <1>1, <1>2
<1>6. thrown[t] => c.rung > 0 /\ ~OpFrom(PathOf(c), c.rung, "throw")
  BY <1>1, <1>3, <1>5
<1> QED
  BY <1>1, <1>4, <1>6, ThrownUpdated

LEMMA ThrowStep ==
    ASSUME \A n \in Native : Decided(n) /\ ThrowsOnce(n),
           TypeOK, NoSecondThrow, [Next]_vars
    PROVE  NoSecondThrow'
<1>1. CASE UNCHANGED vars
  BY <1>1 DEF vars, NoSecondThrow, Path, OpFrom, PathOf, StepOf
<1>2. ASSUME NEW t \in Thread, NEW n \in Calls[t], Begin(t, n)
      PROVE  NoSecondThrow'
  <2>1. call[t].rung = 0
    <3>1. call[t] = Idle
      BY <1>2 DEF Begin, Active
    <3>2. Idle.rung = 0
      BY DEF Idle
    <3> QED
      BY <3>1, <3>2
  <2>2. UNCHANGED thrown /\ \E c : call' = [call EXCEPT ![t] = c]
    BY <1>2 DEF Begin
  <2> QED
    BY <2>1, <2>2, ThrownNot
<1>3. ASSUME NEW t \in Thread, Proceed(t) \/ Skip(t)
      PROVE  NoSecondThrow'
  <2>1. PICK k \in Nat \ {0} : Stepping(t) /\ Advance(t, k) /\ UNCHANGED thrown
    <3>1. Stepping(t)
      BY <1>3 DEF Proceed, Skip
    <3>2. Current(t).skips \in Nat
      BY <3>1, SteppingTyped
    <3> QED
      BY <1>3, <3>1, <3>2 DEF Proceed, Skip
  <2>2. PICK c \in CallType : call' = [call EXCEPT ![t] = c]
    BY <2>1, AdvancePlaced, Zenon
  <2> QED
    BY <2>1, <2>2, ThrownNot DEF Stepping
<1>4. ASSUME NEW t \in Thread, Fail(t)
      PROVE  NoSecondThrow'
  <2>1. PICK e \in 1..Len(Current(t).fail) :
          call' = [call EXCEPT ![t].exit = e, ![t].rung = 1]
    BY <1>4 DEF Fail
  <2>2. Stepping(t) /\ UNCHANGED thrown
    BY <1>4 DEF Fail
  <2>3. PICK c \in CallType : call' = [call EXCEPT ![t] = c]
    BY <2>1, <2>2, FailPlaced, Zenon
  <2> QED
    BY <2>2, <2>3, ThrownNot DEF Stepping
<1>5. ASSUME NEW t \in Thread,
             \/ ReleaseResource(t) \/ WipeScratch(t) \/ DetachRandom(t)
             \/ DropResult(t) \/ LeaveUnset(t) \/ FormatError(t)
      PROVE  NoSecondThrow'
  <2>1. /\ Unwinding(t) /\ call' = [call EXCEPT ![t].rung = @ + 1] /\ UNCHANGED thrown
    BY <1>5 DEF ReleaseResource, WipeScratch, DetachRandom, DropResult, LeaveUnset,
                FormatError, AtRung
  <2> QED
    BY <2>1, ThrownUnwinds
<1>6. ASSUME NEW t \in Thread, ThrowException(t)
      PROVE  NoSecondThrow'
  <2>1. /\ Unwinding(t) /\ CurrentRung(t).op = "throw"
        /\ call' = [call EXCEPT ![t].rung = @ + 1]
        /\ thrown' = [thrown EXCEPT ![t] = TRUE]
    BY <1>6 DEF ThrowException, AtRung
  <2>2. PICK c \in CallType :
           /\ call' = [call EXCEPT ![t] = c]
           /\ c.rung = call[t].rung + 1
           /\ PathOf(c) = Path(t)
    BY <2>1, RungPlaced, Zenon
  <2>3. c.rung > 0
    BY <2>1, <2>2, UnwindingTyped
  <2>4. ~OpFrom(PathOf(c), c.rung, "throw")
    BY <2>1, <2>2, PathThrowsOnce
  <2> QED
    BY <2>1, <2>2, <2>3, <2>4, ThrownUpdated
<1>7. ASSUME NEW t \in Thread, Return(t)
      PROVE  NoSecondThrow'
  BY <1>7, ThrownUpdated DEF Return
<1> QED
  BY <1>1, <1>2, <1>3, <1>4, <1>5, <1>6, <1>7 DEF Next, Run

\* A call that has thrown has no other throw ahead of it.
THEOREM NeverThrowsTwice ==
    ASSUME \A n \in Native : Decided(n) /\ ThrowsOnce(n)
    PROVE  Spec => []NoSecondThrow
<1>1. Init => NoSecondThrow
  BY DEF Init, NoSecondThrow
<1>2. TypeOK /\ NoSecondThrow /\ [Next]_vars => NoSecondThrow'
  BY ThrowStep
<1> QED
  BY <1>1, <1>2, TypeCorrect, PTL DEF Spec

\* What t does while an exception is pending, of the JVM or its own: it executes no
\* statement of its straight-line path, acquires nothing, makes no result but on
\* the paths of Odd, and throws only if it has not thrown yet.
CleansUp(t) ==
    /\ ~Stepping(t)
    /\ ThrowException(t) => ~thrown[t]
    /\ held'[t] \subseteq held[t]
    /\ value'[t] => value[t] \/ LeftAt(t) \in Odd

LEMMA PendingStep ==
    ASSUME TypeOK, OutcomeIsOwed, NoSecondThrow, RefusedLeaves, [Next]_vars,
           NEW t \in Thread, thrown[t] \/ refused[t]
    PROVE  CleansUp(t)
<1>1. ~Stepping(t)
  BY DEF NoSecondThrow, RefusedLeaves, Stepping
<1>2. ASSUME ThrowException(t), thrown[t] PROVE FALSE
  <2>1. Unwinding(t) /\ CurrentRung(t).op = "throw"
    BY <1>2 DEF ThrowException, AtRung
  <2>2. /\ call[t].rung \in Nat \ {0} /\ call[t].rung <= Len(Path(t))
        /\ Path(t) \in Seq(RungType)
    BY <2>1, UnwindingTyped
  <2>3. OpFrom(Path(t), call[t].rung, "throw")
    BY <2>1, <2>2, OpNext DEF CurrentRung
  <2> QED
    BY <1>2, <2>3 DEF NoSecondThrow
<1>3. held'[t] \subseteq held[t] /\ (value'[t] => value[t] \/ LeftAt(t) \in Odd)
  <2>1. CASE UNCHANGED <<held, value>>
    BY <2>1
  <2>2. ASSUME NEW s \in Thread, s # t, Run(s)
        PROVE  held'[t] = held[t] /\ value'[t] = value[t]
    <3>1. \/ \E h : held' = [held EXCEPT ![s] = h]
          \/ held' = held
      BY <2>2 DEF Run, Proceed, Skip, Fail, ReleaseResource, WipeScratch, DetachRandom,
                  DropResult, LeaveUnset, FormatError, ThrowException, Return
    <3>2. \/ \E v : value' = [value EXCEPT ![s] = v]
          \/ value' = value
      BY <2>2 DEF Run, Proceed, Skip, Fail, ReleaseResource, WipeScratch, DetachRandom,
                  DropResult, LeaveUnset, FormatError, ThrowException, Return
    <3> QED
      BY <2>2, <3>1, <3>2 DEF TypeOK
  <2>3. CASE ReleaseResource(t)
    BY <2>3 DEF ReleaseResource, TypeOK
  <2>4. CASE DropResult(t)
    BY <2>4 DEF DropResult, TypeOK
  <2>5. CASE Return(t)
    BY <2>5 DEF Return, TypeOK
  <2>6. CASE LeaveUnset(t)
    <3>1. Unwinding(t) /\ CurrentRung(t).op = "unset" /\ held' = held
      BY <2>6 DEF LeaveUnset, AtRung
    <3>2. /\ call[t].rung \in Nat \ {0} /\ call[t].rung <= Len(Path(t))
          /\ Path(t) \in Seq(RungType) /\ Active(t)
      BY <3>1, UnwindingTyped
    <3>3. OpFrom(Path(t), call[t].rung, "unset")
      BY <3>1, <3>2, OpNext DEF CurrentRung
    <3>4. Decides(call[t], value[t], thrown[t])
      BY <3>2 DEF OutcomeIsOwed
    <3>5. LeftAt(t) \in Odd
      BY <3>2, <3>3, <3>4 DEF Decides, LeftAt, Path
    <3> QED
      BY <3>1, <3>5
  <2>7. CASE WipeScratch(t) \/ DetachRandom(t) \/ FormatError(t) \/ ThrowException(t)
    BY <2>1, <2>7 DEF WipeScratch, DetachRandom, FormatError, ThrowException
  <2>8. ASSUME NEW s \in Thread, NEW n \in Calls[s], Begin(s, n)
        PROVE  UNCHANGED <<held, value>>
    BY <2>8 DEF Begin
  <2>9. ~Proceed(t) /\ ~Skip(t) /\ ~Fail(t)
    BY <1>1 DEF Proceed, Skip, Fail
  <2>10. CASE UNCHANGED vars
    BY <2>1, <2>10 DEF vars
  <2>11. CASE Run(t)
    BY <2>3, <2>4, <2>5, <2>6, <2>7, <2>9, <2>11 DEF Run
  <2> QED
    BY <2>1, <2>2, <2>8, <2>10, <2>11 DEF Next
<1> QED
  BY <1>1, <1>2, <1>3 DEF CleansUp

\* With an exception pending, whether a function of the JVM left it or the native has
\* thrown it, a native only cleans up: no check of a result in mynanojava.c and
\* bitcoin_util.c lets the straight-line path go on, and every throw...() is the last
\* thing before a goto into the ladder, or the return.  Over an exception of the JVM
\* it throws its own, once.
THEOREM PendingOnlyCleansUp ==
    ASSUME \A n \in Native : Decided(n) /\ ThrowsOnce(n)
    PROVE  Spec => [][\A t \in Thread : thrown[t] \/ refused[t] => CleansUp(t)]_vars
<1>1. \A n \in Native : Decided(n)
  OBVIOUS
<1>2. Spec => []OutcomeIsOwed
  BY <1>1, OutcomeAlwaysOwed
<1>3. Spec => []NoSecondThrow
  BY NeverThrowsTwice
<1>4. TypeOK /\ OutcomeIsOwed /\ NoSecondThrow /\ RefusedLeaves /\ [Next]_vars =>
        [\A t \in Thread : thrown[t] \/ refused[t] => CleansUp(t)]_vars
  BY PendingStep
<1> QED
  BY <1>2, <1>3, <1>4, RefusedAlwaysLeaves, TypeCorrect, PTL DEF Spec

----------------------------------------------------------------------------
(* Calls end.  No native waits for another thread, and none has a loop.    *)

\* The statements that the call c, which no more than m rungs end, has ahead of it
\* at most, the return among them.
Ahead(c, m) ==
    IF c = Idle THEN 0
    ELSE IF c.rung = 0 THEN Len(Steps(c.native)) - c.pc + m + 2
    ELSE Len(PathOf(c)) + 2 - c.rung

\* A call that is placed has a statement ahead, and no more than m once it is on the
\* path that ends it.
LEMMA AheadIs ==
    ASSUME NEW m \in Nat, \A n \in Native : EndsWithin(n, m), NEW c \in CallType, Placed(c)
    PROVE  /\ c # Idle
           /\ c.rung = 0 => /\ Ahead(c, m) = Len(Steps(c.native)) - c.pc + m + 2
                            /\ Len(Steps(c.native)) \in Nat /\ c.pc \in Nat
                            /\ c.pc <= Len(Steps(c.native))
           /\ c.rung # 0 => /\ Ahead(c, m) = Len(PathOf(c)) + 2 - c.rung
                            /\ Len(PathOf(c)) \in Nat /\ Len(PathOf(c)) <= m
                            /\ c.rung \in 1..Len(PathOf(c)) + 1
           /\ Ahead(c, m) \in Nat \ {0}
<1>1. c # Idle
  <2>1. Idle.native = ""
    BY DEF Idle
  <2> QED
    BY <2>1, CodeAssumption DEF Placed
<1>2. Len(Steps(c.native)) \in Nat /\ c.pc \in 1..Len(Steps(c.native))
  BY ScriptTyped DEF Placed, Steps
<1>3. Len(PathOf(c)) \in Nat /\ Len(StepOf(c).fail) \in Nat
  BY PlacedTyped, LenProperties
<1>4. Len(PathOf(c)) <= m
  <2>1. CASE c.exit = 0
    BY <2>1 DEF EndsWithin, PathOf, Placed
  <2>2. CASE c.exit # 0
    <3>1. c.exit \in 1..Len(StepOf(c).fail)
      BY <1>3, <2>2 DEF Placed
    <3>2. StepOf(c) = Steps(c.native)[c.pc] /\ PathOf(c) = StepOf(c).fail[c.exit]
      BY <2>2 DEF StepOf, Steps, PathOf
    <3> QED
      BY <1>2, <3>1, <3>2 DEF EndsWithin, Placed
  <2> QED
    BY <2>1, <2>2
<1>5. c.rung \in 0..Len(PathOf(c)) + 1
  BY DEF Placed
<1>6. CASE c.rung = 0
  BY <1>1, <1>2, <1>6 DEF Ahead
<1>7. CASE c.rung # 0
  BY <1>1, <1>3, <1>4, <1>5, <1>7 DEF Ahead
<1> QED
  BY <1>1, <1>6, <1>7

\* Further down the straight-line path, onto a path that ends the call, and down it.
LEMMA AheadNext ==
    ASSUME NEW m \in Nat, \A n \in Native : EndsWithin(n, m),
           NEW c \in CallType, Placed(c), NEW d \in CallType, Placed(d),
           d.native = c.native,
           \/ c.rung = 0 /\ d.rung = 0 /\ d.pc > c.pc
           \/ c.rung = 0 /\ d.rung = 1
           \/ c.rung # 0 /\ d.rung = c.rung + 1 /\ PathOf(d) = PathOf(c)
    PROVE  Ahead(d, m) \in Nat /\ Ahead(d, m) < Ahead(c, m)
<1>1. /\ c.rung = 0 => /\ Ahead(c, m) = Len(Steps(c.native)) - c.pc + m + 2
                       /\ Len(Steps(c.native)) \in Nat /\ c.pc \in Nat
                       /\ c.pc <= Len(Steps(c.native))
      /\ c.rung # 0 => /\ Ahead(c, m) = Len(PathOf(c)) + 2 - c.rung
                       /\ Len(PathOf(c)) \in Nat /\ c.rung \in 1..Len(PathOf(c)) + 1
  BY AheadIs
<1>2. /\ d.rung = 0 => /\ Ahead(d, m) = Len(Steps(c.native)) - d.pc + m + 2
                       /\ d.pc \in Nat
      /\ d.rung # 0 => /\ Ahead(d, m) = Len(PathOf(d)) + 2 - d.rung
                       /\ Len(PathOf(d)) \in Nat /\ Len(PathOf(d)) <= m
      /\ Ahead(d, m) \in Nat
  BY AheadIs
<1>3. CASE c.rung = 0 /\ d.rung = 0 /\ d.pc > c.pc
  BY <1>1, <1>2, <1>3
<1>4. CASE c.rung = 0 /\ d.rung = 1
  BY <1>1, <1>2, <1>4
<1>5. CASE c.rung # 0 /\ d.rung = c.rung + 1 /\ PathOf(d) = PathOf(c)
  BY <1>1, <1>2, <1>5
<1> QED
  BY <1>3, <1>4, <1>5

\* The place of one thread changes.
LEMMA CallMoves ==
    ASSUME TypeOK, NEW t \in Thread, NEW c, call' = [call EXCEPT ![t] = c]
    PROVE  call'[t] = c /\ \A u \in Thread \ {t} : call'[u] = call[u]
BY DEF TypeOK

\* Every statement of t brings its call nearer to the end.
LEMMA RunNearer ==
    ASSUME NEW m \in Nat, \A n \in Native : EndsWithin(n, m), TypeOK, NEW t \in Thread, Run(t)
    PROVE  /\ Ahead(call[t], m) \in Nat \ {0}
           /\ Ahead(call'[t], m) \in Nat /\ Ahead(call'[t], m) < Ahead(call[t], m)
           /\ \A u \in Thread \ {t} : call'[u] = call[u]
<1>1. ASSUME NEW k \in Nat \ {0}, Stepping(t), Advance(t, k)
      PROVE  /\ Ahead(call[t], m) \in Nat \ {0}
             /\ Ahead(call'[t], m) \in Nat /\ Ahead(call'[t], m) < Ahead(call[t], m)
             /\ \A u \in Thread \ {t} : call'[u] = call[u]
  <2>1. PICK c \in CallType :
              /\ Placed(c)
              /\ call' = [call EXCEPT ![t] = c]
              /\ c.native = call[t].native
              /\ \/ c.rung = 0 /\ c.pc = call[t].pc + k
                 \/ c.rung = 1
    BY <1>1, AdvancePlaced, Zenon
  <2>2. call[t] \in CallType /\ Placed(call[t]) /\ call[t].rung = 0
    BY <1>1, ActivePlaced DEF Stepping
  <2>3. call'[t] = c /\ \A u \in Thread \ {t} : call'[u] = call[u]
    BY <2>1, CallMoves
  <2>4. c.rung = 0 => c.pc > call[t].pc
    <3>1. call[t].pc \in Nat
      BY <2>2 DEF CallType
    <3>2. c.rung = 0 => c.pc = call[t].pc + k
      BY <2>1
    <3> QED
      BY <1>1, <3>1, <3>2
  <2>5. Ahead(c, m) \in Nat /\ Ahead(c, m) < Ahead(call[t], m)
    BY <2>1, <2>2, <2>4, AheadNext
  <2> QED
    BY <2>2, <2>3, <2>5, AheadIs
<1>2. CASE Proceed(t)
  BY <1>1, <1>2 DEF Proceed
<1>3. CASE Skip(t)
  <2>1. Stepping(t) /\ Advance(t, Current(t).skips) /\ Current(t).skips \in Nat \ {0}
    BY <1>3, SteppingTyped DEF Skip
  <2> QED
    BY <1>1, <2>1
<1>4. CASE Fail(t)
  <2>1. PICK e \in 1..Len(Current(t).fail) :
          call' = [call EXCEPT ![t].exit = e, ![t].rung = 1]
    BY <1>4 DEF Fail
  <2>2. Stepping(t)
    BY <1>4 DEF Fail
  <2>3. PICK c \in CallType :
          /\ Placed(c)
          /\ call' = [call EXCEPT ![t] = c]
          /\ c.native = call[t].native
          /\ c.rung = 1
    <3>1. \E c \in CallType :
              /\ Placed(c)
              /\ call' = [call EXCEPT ![t] = c]
              /\ c.native = call[t].native
              /\ c.pc = call[t].pc
              /\ c.exit = e
              /\ c.rung = 1
              /\ PathOf(c) = Current(t).fail[e]
      BY <2>1, <2>2, FailPlaced, Zenon
    <3> QED
      BY <3>1, Zenon
  <2>4. call[t] \in CallType /\ Placed(call[t]) /\ call[t].rung = 0
    BY <2>2, ActivePlaced DEF Stepping
  <2>5. call'[t] = c /\ \A u \in Thread \ {t} : call'[u] = call[u]
    BY <2>3, CallMoves
  <2>6. Ahead(c, m) \in Nat /\ Ahead(c, m) < Ahead(call[t], m)
    BY <2>3, <2>4, AheadNext
  <2> QED
    BY <2>4, <2>5, <2>6, AheadIs
<1>5. CASE \/ ReleaseResource(t) \/ WipeScratch(t) \/ DetachRandom(t) \/ DropResult(t)
           \/ LeaveUnset(t) \/ FormatError(t) \/ ThrowException(t)
  <2>1. Unwinding(t) /\ call' = [call EXCEPT ![t].rung = @ + 1]
    BY <1>5 DEF ReleaseResource, WipeScratch, DetachRandom, DropResult, LeaveUnset,
                FormatError, ThrowException, AtRung
  <2>2. PICK c \in CallType :
           /\ Placed(c) /\ call' = [call EXCEPT ![t] = c]
           /\ c.native = call[t].native /\ c.rung = call[t].rung + 1
           /\ PathOf(c) = Path(t)
    BY <2>1, RungPlaced, Zenon
  <2>3. /\ call[t] \in CallType /\ Placed(call[t]) /\ call[t].rung # 0
        /\ Path(t) = PathOf(call[t])
    BY <2>1, UnwindingTyped, ActivePlaced DEF Path
  <2>4. call'[t] = c /\ \A u \in Thread \ {t} : call'[u] = call[u]
    BY <2>2, CallMoves
  <2>5. Ahead(c, m) \in Nat /\ Ahead(c, m) < Ahead(call[t], m)
    BY <2>2, <2>3, AheadNext
  <2> QED
    BY <2>3, <2>4, <2>5, AheadIs
<1>6. CASE Return(t)
  <2>1. call[t] # Idle
    <3>1. Idle.rung = 0
      BY DEF Idle
    <3> QED
      BY <1>6, <3>1 DEF Return, Returning
  <2>2. call[t] \in CallType /\ Placed(call[t])
    BY <2>1, ActivePlaced DEF Active
  <2>3. call'[t] = Idle /\ \A u \in Thread \ {t} : call'[u] = call[u]
    BY <1>6, CallMoves DEF Return
  <2>4. Ahead(Idle, m) = 0
    BY DEF Ahead
  <2> QED
    BY <2>2, <2>3, <2>4, AheadIs
<1> QED
  BY <1>2, <1>3, <1>4, <1>5, <1>6 DEF Run

\* Every statement a thread executes inside a native brings it nearer to the return
\* statement, and no other thread takes it further away: the natives call one
\* another in no cycle, jump only forwards, and wait for nothing.
THEOREM CallComesNearer ==
    ASSUME NEW m \in Nat, \A n \in Native : EndsWithin(n, m)
    PROVE  Spec => [][\A t \in Thread : Run(t) =>
                        /\ Ahead(call[t], m) \in Nat
                        /\ Ahead(call'[t], m) \in Nat
                        /\ Ahead(call'[t], m) < Ahead(call[t], m)
                        /\ \A u \in Thread \ {t} : call'[u] = call[u]]_vars
<1>1. TypeOK /\ [Next]_vars =>
        [\A t \in Thread : Run(t) =>
           /\ Ahead(call[t], m) \in Nat
           /\ Ahead(call'[t], m) \in Nat
           /\ Ahead(call'[t], m) < Ahead(call[t], m)
           /\ \A u \in Thread \ {t} : call'[u] = call[u]]_vars
  BY RunNearer
<1> QED
  BY <1>1, TypeCorrect, PTL DEF Spec

=============================================================================
