----------------------------- MODULE NativeCalls -----------------------------
(***************************************************************************)
(* Java threads inside the native methods of libmynanojava.                *)
(*                                                                         *)
(* None of the natives takes a lock, so any number of Java threads may be  *)
(* inside them at once.  What they share is                                *)
(*                                                                         *)
(*  - msg: the scratch buffer `static char msg[768]', one for each         *)
(*    translation unit that includes nano_java_common.h, through which     *)
(*    arguments, keys, results and error texts pass;                       *)
(*  - hook: the one random function of the crypto library, which natives   *)
(*    attach before and detach after they use it.                          *)
(*                                                                         *)
(* What each native does, statement by statement, is Code[n] (CallSteps);  *)
(* the actions below say what executing one step or one rung of an exit    *)
(* path does to the state.                                                 *)
(***************************************************************************)
EXTENDS CallSteps

CONSTANTS
    Thread,   \* the Java threads
    Native,   \* the names of the native methods they call
    Code,     \* Code[n]: the script of native n
    Calls,    \* Calls[t]: the natives that t calls
    Leaky,    \* the <<native, step>> known to return with something acquired
    Odd,      \* the <<native, step>> known to return both or neither of a
              \* result and an exception
    Unwiped   \* the natives known to leave a secret in msg when they fail

ASSUME CodeAssumption ==
    /\ "" \notin Native
    /\ Code \in [Native -> ScriptType]
    /\ \A n \in Native : Code[n].steps # <<>>
    /\ Calls \in [Thread -> SUBSET Native]

Unit == {Code[n].unit : n \in Native}

VARIABLES
    call,     \* call[t]: the native t is in and how far it is
    held,     \* held[t]: the JNI strings and arrays pinned, memory allocated
    loaded,   \* loaded[t]: the data this call has put into msg
    value,    \* value[t]: the result variable of the call is set
    refused,  \* refused[t]: the JVM refused the call something, and left an
              \* exception of its own pending
    thrown,   \* thrown[t]: the call has raised the exception Java is to see
    msg,      \* msg[u][c]: what cell c of unit u's scratch buffer holds
    hook      \* TRUE while a random function is attached

vars == <<call, held, loaded, value, refused, thrown, msg, hook>>

----------------------------------------------------------------------------
(* Where a thread is: in no native, at step pc of the straight-line path    *)
(* (rung is 0), or at a rung of the exit path it took from step pc.  Exit 0 *)
(* is the path every call that fails nowhere falls through.                *)

CallType == [native : Native \union {""}, pc : Nat, exit : Nat, rung : Nat]

Idle == [native |-> "", pc |-> 0, exit |-> 0, rung |-> 0]

StepOf(c) == Code[c.native].steps[c.pc]

PathOf(c) == IF c.exit = 0 THEN Code[c.native].done ELSE StepOf(c).fail[c.exit]

\* The call c is somewhere in the script of its native.
Placed(c) ==
    /\ c.native \in Native
    /\ c.pc \in 1..Len(Code[c.native].steps)
    /\ c.exit \in 0..Len(StepOf(c).fail)
    /\ c.rung \in 0..Len(PathOf(c)) + 1
    /\ c.rung = 0 => c.exit = 0

Active(t) == call[t] # Idle

Body(t) == Code[call[t].native]

\* About to execute step pc.
Stepping(t) == Active(t) /\ call[t].rung = 0

Current(t) == StepOf(call[t])

Path(t) == PathOf(call[t])

Unwinding(t) == call[t].rung > 0 /\ call[t].rung <= Len(Path(t))

CurrentRung(t) == Path(t)[call[t].rung]

\* About to execute the return statement.
Returning(t) == call[t].rung > 0 /\ call[t].rung > Len(Path(t))

----------------------------------------------------------------------------
(* The scratch buffer.                                                     *)

Blank == [is |-> "zero"]

Mark(t, what) == [by |-> t, in |-> call[t].native, is |-> what]

\* (mutant) One msg for all units.
Written_shared(t, data) ==
    [u \in Unit |->
        [c \in CellStart |->
            IF \E d \in data : c \in d.cells
              THEN Mark(t, (CHOOSE d \in data : c \in d.cells).is)
              ELSE msg[u][c]]]

\* The buffer of t's unit after t has written the given data into it.
Written(t, data) ==
    [msg EXCEPT ![Body(t).unit] =
        [c \in CellStart |->
            IF \E d \in data : c \in d.cells
              THEN Mark(t, (CHOOSE d \in data : c \in d.cells).is)
              ELSE @[c]]]

\* The datum d is in the buffer as t wrote it.
Intact(t, d) ==
    \A c \in d.cells : msg[Body(t).unit][c] = Mark(t, d.is)

Text(rung) == [cells |-> rung.cells, is |-> "text"]

Secret(m) == m.is \in SecretKind

\* Once t has returned nobody needs what it left behind: public remains are
\* all alike.  A secret stays what it is.
Stale == [is |-> "stale"]

Left(t) ==
    [msg EXCEPT ![Body(t).unit] =
        [c \in CellStart |->
            IF /\ @[c] \notin {Blank, Stale}
               /\ @[c].by = t
               /\ ~Secret(@[c])
              THEN Stale
              ELSE @[c]]]

----------------------------------------------------------------------------
(* Steps.                                                                  *)

Init ==
    /\ call = [t \in Thread |-> Idle]
    /\ held = [t \in Thread |-> {}]
    /\ loaded = [t \in Thread |-> {}]
    /\ value = [t \in Thread |-> FALSE]
    /\ refused = [t \in Thread |-> FALSE]
    /\ thrown = [t \in Thread |-> FALSE]
    /\ msg = [u \in Unit |-> [c \in CellStart |-> Blank]]
    /\ hook = FALSE

\* Java calls native n.
Begin(t, n) ==
    /\ ~Active(t)
    /\ call' = [call EXCEPT ![t] = [native |-> n, pc |-> 1, exit |-> 0, rung |-> 0]]
    /\ UNCHANGED <<held, loaded, value, refused, thrown, msg, hook>>

\* (mutant) Runs past the last statement.
Advance_past(t, k) ==
    call' = IF call[t].pc + k > Len(Body(t).steps) + 1
              THEN [call EXCEPT ![t].rung = 1]
              ELSE [call EXCEPT ![t].pc = @ + k]

\* k steps on, or to the return ladder after the last one.
Advance(t, k) ==
    call' = IF call[t].pc + k > Len(Body(t).steps)
              THEN [call EXCEPT ![t].rung = 1]
              ELSE [call EXCEPT ![t].pc = @ + k]

\* A step succeeds.
Proceed(t) ==
    /\ Stepping(t)
    /\ Advance(t, 1)
    /\ held' = [held EXCEPT ![t] = (@ \union Current(t).gets) \ Current(t).frees]
    /\ loaded' = [loaded EXCEPT ![t] = @ \union Current(t).writes]
    /\ msg' = Written(t, Current(t).writes)
    /\ hook' = (Current(t).hook = "attach" \/ (hook /\ Current(t).hook # "detach"))
    /\ value' = [value EXCEPT ![t] = @ \/ Current(t).makes]
    /\ UNCHANGED <<refused, thrown>>

\* A null optional argument, or a mode bit that is not set, skips steps.
Skip(t) ==
    /\ Stepping(t)
    /\ Current(t).skips > 0
    /\ Advance(t, Current(t).skips)
    /\ UNCHANGED <<held, loaded, value, refused, thrown, msg, hook>>

\* (mutant) Jumps to the label above, which fits the next step.
Fail_label_above(t) ==
    /\ Stepping(t)
    /\ LET n == IF call[t].pc < Len(Body(t).steps) THEN call[t].pc + 1 ELSE call[t].pc
       IN  \E e \in 1..Len(Body(t).steps[n].fail) :
             call' = [call EXCEPT ![t].pc = n, ![t].exit = e, ![t].rung = 1]
    /\ msg' \in {msg, Written(t, Current(t).writes)}
    /\ value' = [value EXCEPT ![t] = @ /\ ~Current(t).makes]
    /\ \E jvm \in BOOLEAN : refused' = [refused EXCEPT ![t] = jvm]
    /\ UNCHANGED <<held, loaded, thrown, hook>>

\* A step fails and leaves by one of its exits; the library may have written
\* some of its output before it gave up.  What failed may be a function of the
\* JVM, which then leaves an exception of its own; which of the checks in a step
\* it is, is not told apart.
Fail(t) ==
    /\ Stepping(t)
    /\ \E e \in 1..Len(Current(t).fail) :
         call' = [call EXCEPT ![t].exit = e, ![t].rung = 1]
    /\ msg' \in {msg, Written(t, Current(t).writes)}
    /\ value' = [value EXCEPT ![t] = @ /\ ~Current(t).makes]
    /\ \E jvm \in BOOLEAN : refused' = [refused EXCEPT ![t] = jvm]
    /\ UNCHANGED <<held, loaded, thrown, hook>>

----------------------------------------------------------------------------
(* Rungs.                                                                  *)

AtRung(t, op) ==
    /\ Unwinding(t)
    /\ CurrentRung(t).op = op
    /\ call' = [call EXCEPT ![t].rung = @ + 1]

\* (mutant) Releases nothing.
ReleaseResource_forgets(t) ==
    /\ AtRung(t, "free")
    /\ UNCHANGED <<held, loaded, value, refused, thrown, msg, hook>>

ReleaseResource(t) ==
    /\ AtRung(t, "free")
    /\ held' = [held EXCEPT ![t] = @ \ {CurrentRung(t).res}]
    /\ UNCHANGED <<loaded, value, refused, thrown, msg, hook>>

\* (mutant) memset with the size of a pointer.
WipeScratch_sizeof(t) ==
    /\ AtRung(t, "zero")
    /\ msg' = [msg EXCEPT ![Body(t).unit][0] = Blank]
    /\ UNCHANGED <<held, loaded, value, refused, thrown, hook>>

WipeScratch(t) ==
    /\ AtRung(t, "zero")
    /\ msg' = [msg EXCEPT ![Body(t).unit] = [c \in CellStart |-> Blank]]
    /\ UNCHANGED <<held, loaded, value, refused, thrown, hook>>

\* (mutant) Leaves the random function attached.
DetachRandom_forgets(t) ==
    /\ AtRung(t, "off")
    /\ UNCHANGED <<held, loaded, value, refused, thrown, msg, hook>>

DetachRandom(t) ==
    /\ AtRung(t, "off")
    /\ hook' = FALSE
    /\ UNCHANGED <<held, loaded, value, refused, thrown, msg>>

DropResult(t) ==
    /\ AtRung(t, "unmake")
    /\ value' = [value EXCEPT ![t] = FALSE]
    /\ UNCHANGED <<held, loaded, refused, thrown, msg, hook>>

\* The result variable is returned although nothing was assigned to it.
LeaveUnset(t) ==
    /\ AtRung(t, "unset")
    /\ \E v \in BOOLEAN : value' = [value EXCEPT ![t] = v]
    /\ UNCHANGED <<held, loaded, refused, thrown, msg, hook>>

FormatError(t) ==
    /\ AtRung(t, "say")
    /\ msg' = Written(t, {Text(CurrentRung(t))})
    /\ UNCHANGED <<held, loaded, value, refused, thrown, hook>>

\* (mutant) No goto after the throw: the next statement is executed.
ThrowException_runs_on(t) ==
    /\ Unwinding(t)
    /\ CurrentRung(t).op = "throw"
    /\ call' = IF call[t].pc = Len(Body(t).steps)
                 THEN [call EXCEPT ![t].exit = 0, ![t].rung = 1]
                 ELSE [call EXCEPT ![t].exit = 0, ![t].rung = 0, ![t].pc = @ + 1]
    /\ thrown' = [thrown EXCEPT ![t] = TRUE]
    /\ UNCHANGED <<held, loaded, value, refused, msg, hook>>

\* throwNewException, which makes calls of the JVM even if an exception of the JVM
\* is pending; what becomes of them is in ThrowNew.
ThrowException(t) ==
    /\ AtRung(t, "throw")
    /\ thrown' = [thrown EXCEPT ![t] = TRUE]
    /\ UNCHANGED <<held, loaded, value, refused, msg, hook>>

\* Back in Java, which sees the exception if one is pending and the result
\* otherwise.  What is still held is out of everybody's reach from here on.
Return(t) ==
    /\ Returning(t)
    /\ call' = [call EXCEPT ![t] = Idle]
    /\ held' = [held EXCEPT ![t] = {}]
    /\ loaded' = [loaded EXCEPT ![t] = {}]
    /\ value' = [value EXCEPT ![t] = FALSE]
    /\ refused' = [refused EXCEPT ![t] = FALSE]
    /\ thrown' = [thrown EXCEPT ![t] = FALSE]
    /\ msg' = Left(t)
    /\ UNCHANGED hook

----------------------------------------------------------------------------

Run(t) ==
    \/ Proceed(t)
    \/ Skip(t)
    \/ Fail(t)
    \/ ReleaseResource(t)
    \/ WipeScratch(t)
    \/ DetachRandom(t)
    \/ DropResult(t)
    \/ LeaveUnset(t)
    \/ FormatError(t)
    \/ ThrowException(t)
    \/ Return(t)

Next == \E t \in Thread : Run(t) \/ \E n \in Calls[t] : Begin(t, n)

Spec == Init /\ [][Next]_vars

----------------------------------------------------------------------------
(* Properties.                                                             *)

\* The statement at which the call of t left its straight-line path.
LeftAt(t) == <<call[t].native, call[t].pc>>

\* Every thread is in no native or at a place of the script of the native it
\* called, and what it holds, has loaded and finds in msg is of the right kind.
TypeOK ==
    /\ call \in [Thread -> CallType]
    /\ \A t \in Thread : call[t] = Idle \/ Placed(call[t])
    /\ held \in [Thread -> SUBSET STRING]
    /\ loaded \in [Thread -> SUBSET DataType]
    /\ value \in [Thread -> BOOLEAN]
    /\ refused \in [Thread -> BOOLEAN]
    /\ thrown \in [Thread -> BOOLEAN]
    /\ msg \in [Unit -> [CellStart ->
          {Blank, Stale} \union [by : Thread, in : Native, is : DataKind]]]
    /\ hook \in BOOLEAN

\* At the return statement of a native no JNI string or array is pinned and no
\* memory allocated, whichever statement failed and however far down the goto
\* ladder it entered; the paths of Leaky are the known exceptions.
NoLeak ==
    \A t \in Thread : Returning(t) /\ held[t] # {} => LeftAt(t) \in Leaky

\* A label of a goto ladder releases only what was acquired: a statement never
\* jumps to a label above the one that fits it.  Only an optional argument
\* (`previous' of the first block) may be released as null.
ReleasesHeld ==
    \A t \in Thread : Unwinding(t) /\ CurrentRung(t).op = "free" =>
        \/ CurrentRung(t).res \in held[t]
        \/ \E i \in 1..call[t].pc :
             /\ CurrentRung(t).res \in Body(t).steps[i].gets
             /\ Body(t).steps[i].skips > 0

\* What a call reads back from msg, the text of the exception it throws among
\* it, is what it wrote there: not its own later data, and not that of another
\* call.
ReadsIntact ==
    \A t \in Thread :
        /\ Stepping(t) =>
             \A d \in Current(t).reads \intersect loaded[t] : Intact(t, d)
        /\ Unwinding(t) /\ CurrentRung(t).op = "throw" =>
             Intact(t, Text(CurrentRung(t)))

\* No seed, private key, master key or WIF that a native put into msg is there
\* once that call is over, whether it returned a result or threw; the natives of
\* Unwiped are the known exceptions.
SecretsDieWithCall ==
    \A u \in Unit, c \in CellStart :
        Secret(msg[u][c]) /\ msg[u][c].in \notin Unwiped
          => call[msg[u][c].by].native = msg[u][c].in

\* Java gets either a result or an exception, never both and never neither, but
\* for the paths of Odd.
OneOutcome ==
    \A t \in Thread : Returning(t) /\ value[t] = thrown[t] => LeftAt(t) \in Odd

\* Whenever the crypto library draws random bytes a random function is attached
\* (f_nano_crypto_util.h calls that mandatory).
RandomServed ==
    \A t \in Thread : Stepping(t) /\ Current(t).hook = "draw" => hook

\* No random function stays attached when no native runs: every
\* f_random_attach() is followed by an f_random_detach() on every path.
HookAtRest == (\A t \in Thread : ~Active(t)) => ~hook

----------------------------------------------------------------------------
(* The contract of CallContract, kept with everything else hidden.         *)

Resources == UNION {UNION {Code[n].steps[i].gets : i \in 1..Len(Code[n].steps)}
                      : n \in Native}

Contract == INSTANCE CallContract WITH
    Method   <- Native,
    Resource <- Resources,
    Leaky    <- {p[1] : p \in Leaky},
    Odd      <- {p[1] : p \in Odd},
    method   <- [t \in Thread |-> call[t].native],
    pins     <- held,
    given    <- value,
    refused  <- refused,
    raised   <- thrown

\* Every native, on every path, is a run of the contract of CallContract: in
\* particular nothing is acquired or produced while an exception is pending, be
\* it the JVM's or the native's own.
KeepsContract == Contract!Spec

==============================================================================
