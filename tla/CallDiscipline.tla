---------------------------- MODULE CallDiscipline ----------------------------
(***************************************************************************)
(* The discipline the natives are written in, as conditions on the text of *)
(* one script at a time, and the inductive invariants of NativeCalls that  *)
(* follow from it.  A script is judged alone; what follows holds for any   *)
(* number of threads running any of the natives at once.                   *)
(*                                                                         *)
(* Each condition compares what may be outstanding where a path is entered *)
(* with what the path settles.  MayHold, MayServe and MayStain are found   *)
(* by looking back over the steps, like a forward data flow analysis.      *)
(***************************************************************************)
EXTENDS NativeCalls

Steps(n) == Code[n].steps

\* An argument may make n jump over step j.
Skippable(n, j) ==
    \E m \in 1..j : Steps(n)[m].skips > 0 /\ m + Steps(n)[m].skips > j

----------------------------------------------------------------------------
(* Resources.                                                              *)

\* What n may hold when it is about to execute step k.
MayHold(n, k) ==
    UNION {{r \in Steps(n)[i].gets \ Steps(n)[i].frees :
               \A j \in i + 1..k - 1 : r \in Steps(n)[j].frees => Skippable(n, j)}
             : i \in 1..k - 1}

\* What the rungs of a path release, from the given one on.
FreedFrom(path, first) ==
    {path[i].res : i \in {j \in first..Len(path) : path[j].op = "free"}}

Balanced(n) ==
    /\ \A i \in 1..Len(Steps(n)) : \A e \in 1..Len(Steps(n)[i].fail) :
         \/ MayHold(n, i) \subseteq FreedFrom(Steps(n)[i].fail[e], 1)
         \/ <<n, i>> \in Leaky
    /\ MayHold(n, Len(Steps(n)) + 1) \subseteq FreedFrom(Code[n].done, 1)

\* All that the call c holds is released on its way out.
Owes(c, resources) ==
    IF c.rung = 0
      THEN resources \subseteq MayHold(c.native, c.pc)
      ELSE \/ resources \subseteq FreedFrom(PathOf(c), c.rung)
           \/ <<c.native, c.pc>> \in Leaky

\* At every moment, what a call holds is released by the path it is on, or may
\* have been acquired by the steps it has executed; a thread in no call holds
\* nothing.  This makes NoLeak inductive.
HeldIsOwed ==
    \A t \in Thread : IF Active(t) THEN Owes(call[t], held[t]) ELSE held[t] = {}

\* r, which an optional argument stands for, may be null wherever the steps up to
\* k were reached.
MayBeNull(n, k, r) == \E i \in 1..k : r \in Steps(n)[i].gets /\ Steps(n)[i].skips > 0

\* What n holds for sure when it is about to execute step k.
MustHold(n, k) ==
    UNION {{r \in Steps(n)[i].gets \ Steps(n)[i].frees :
               /\ ~Skippable(n, i)
               /\ \A j \in i + 1..k - 1 : r \notin Steps(n)[j].frees}
             : i \in 1..k - 1}

\* A path releases nothing twice.
NothingTwice(path) ==
    \A i, j \in 1..Len(path) :
        i # j /\ path[i].op = "free" /\ path[j].op = "free" => path[i].res # path[j].res

\* The rungs of a path, from the given one on, release only what is among the
\* resources, or what may be null after step k of n.
Backs(path, first, n, k, resources) ==
    \A i \in first..Len(path) : path[i].op = "free" =>
        path[i].res \in resources \/ MayBeNull(n, k, path[i].res)

\* No path of n releases what n need not hold there; the one without an exit is
\* entered from every step that may be the last.
Backed(n) ==
    /\ \A i \in 1..Len(Steps(n)) :
         /\ \A e \in 1..Len(Steps(n)[i].fail) :
              /\ NothingTwice(Steps(n)[i].fail[e])
              /\ Backs(Steps(n)[i].fail[e], 1, n, i, MustHold(n, i))
         /\ i + 1 > Len(Steps(n)) \/ i + Steps(n)[i].skips > Len(Steps(n)) =>
              Backs(Code[n].done, 1, n, i, MustHold(n, Len(Steps(n)) + 1))
    /\ NothingTwice(Code[n].done)

\* The call c, which holds these resources, releases nothing else on its way out.
Affords(c, resources) ==
    IF c.rung = 0
      THEN MustHold(c.native, c.pc) \subseteq resources
      ELSE Backs(PathOf(c), c.rung, c.native, c.pc, resources)

\* At every moment, what the rungs ahead release is held, or null.  This makes
\* ReleasesHeld inductive.
FreesHeld == \A t \in Thread : Active(t) => Affords(call[t], held[t])

----------------------------------------------------------------------------
(* The random function.                                                    *)

\* n may have attached the random function and not detached it.
MayServe(n, k) ==
    \E i \in 1..k - 1 :
        /\ Steps(n)[i].hook = "attach"
        /\ \A j \in i + 1..k - 1 : Steps(n)[j].hook = "detach" => Skippable(n, j)

OffFrom(path, first) == \E i \in first..Len(path) : path[i].op = "off"

Bracketed(n) ==
    /\ \A i \in 1..Len(Steps(n)) : \A e \in 1..Len(Steps(n)[i].fail) :
         MayServe(n, i) => OffFrom(Steps(n)[i].fail[e], 1)
    /\ MayServe(n, Len(Steps(n)) + 1) => OffFrom(Code[n].done, 1)

\* The call c detaches the random function on its way out.
Serves(c) ==
    IF c.rung = 0 THEN MayServe(c.native, c.pc) ELSE OffFrom(PathOf(c), c.rung)

\* At every moment, while a random function is attached some call is still to
\* detach it.  This makes HookAtRest inductive.
HookIsOwed == hook => \E t \in Thread : Active(t) /\ Serves(call[t])

----------------------------------------------------------------------------
(* Secrets in the scratch buffer.                                          *)

\* The cells that the steps before k may have written a secret into.
MayStain(n, k) ==
    UNION {UNION {d.cells : d \in {w \in Steps(n)[i].writes : w.is \in SecretKind}}
             : i \in 1..k - 1}

\* The cells that rung i of a path overwrites.
Erases(path, i) ==
    CASE path[i].op = "zero" -> CellStart
      [] path[i].op = "say"  -> path[i].cells
      [] OTHER               -> {}

ErasedFrom(path, first) == UNION {Erases(path, i) : i \in first..Len(path)}

\* The step that fails may have written before it failed.
Wipes(n) ==
    n \notin Unwiped =>
        /\ \A i \in 1..Len(Steps(n)) : \A e \in 1..Len(Steps(n)[i].fail) :
             MayStain(n, i + 1) \subseteq ErasedFrom(Steps(n)[i].fail[e], 1)
        /\ MayStain(n, Len(Steps(n)) + 1) \subseteq ErasedFrom(Code[n].done, 1)

\* The call c overwrites cell x of unit u's buffer on its way out.
WillErase(c, u, x) ==
    /\ Code[c.native].unit = u
    /\ IF c.rung = 0 THEN x \in MayStain(c.native, c.pc)
                     ELSE x \in ErasedFrom(PathOf(c), c.rung)

\* At every moment, a secret in msg belongs to a call that is still to overwrite
\* the cell it is in.  This makes SecretsDieWithCall inductive.
SecretIsOwed ==
    \A u \in Unit, x \in CellStart :
        LET m == msg[u][x]
        IN  Secret(m) /\ m.in \notin Unwiped =>
              /\ call[m.by].native = m.in
              /\ WillErase(call[m.by], u, x)

----------------------------------------------------------------------------
(* Result or exception.                                                    *)

\* Some step before k makes the result.
MayMake(n, k) == \E i \in 1..k - 1 : Steps(n)[i].makes

\* One does for sure: an argument that skips it leads to an exit named in Odd.
MustMake(n, k) ==
    \E i \in 1..k - 1 :
        /\ Steps(n)[i].makes
        /\ \A m \in 1..i : Steps(n)[m].skips > 0 /\ m + Steps(n)[m].skips > i =>
             <<n, m>> \in Odd /\ m + Steps(n)[m].skips > Len(Steps(n))

OpFrom(path, first, op) == \E i \in first..Len(path) : path[i].op = op

\* A path with an exit throws, and gives up the result there may be; the path
\* without one does neither.
Decided(n) ==
    /\ \A i \in 1..Len(Steps(n)) : \A e \in 1..Len(Steps(n)[i].fail) :
         LET path == Steps(n)[i].fail[e]
         IN  \/ <<n, i>> \in Odd
             \/ /\ OpFrom(path, 1, "throw") /\ ~OpFrom(path, 1, "unset")
                /\ MayMake(n, i) => OpFrom(path, 1, "unmake")
    /\ MustMake(n, Len(Steps(n)) + 1)
    /\ \A op \in {"throw", "unmake", "unset"} : ~OpFrom(Code[n].done, 1, op)

\* The call c, which has a result or not and an exception pending or not, ends
\* up with one of the two.
Decides(c, made, threw) ==
    IF c.rung = 0
      THEN /\ ~threw
           /\ made => MayMake(c.native, c.pc)
           /\ MustMake(c.native, c.pc) => made
      ELSE \/ <<c.native, c.pc>> \in Odd
           \/ /\ c.exit = 0 /\ made /\ ~threw
              /\ \A op \in {"throw", "unmake", "unset"} : ~OpFrom(PathOf(c), c.rung, op)
           \/ /\ c.exit # 0
              /\ threw \/ OpFrom(PathOf(c), c.rung, "throw")
              /\ made => OpFrom(PathOf(c), c.rung, "unmake")
              /\ ~OpFrom(PathOf(c), c.rung, "unset")

\* At every moment, a call that has not yet one of a result and an exception, or
\* has both, is on a path that settles it.  This makes OneOutcome inductive.
OutcomeIsOwed ==
    \A t \in Thread :
        IF Active(t) THEN Decides(call[t], value[t], thrown[t])
                     ELSE ~value[t] /\ ~thrown[t]

\* A path throws once.
ThrowsOnce(n) ==
    \A i \in 1..Len(Steps(n)) : \A e \in 1..Len(Steps(n)[i].fail) :
        LET path == Steps(n)[i].fail[e]
        IN  \A k, l \in 1..Len(path) :
              path[k].op = "throw" /\ path[l].op = "throw" => k = l

\* At every moment, a call that has thrown is on its way out and has no other throw
\* ahead.
NoSecondThrow ==
    \A t \in Thread : thrown[t] =>
        call[t].rung > 0 /\ ~OpFrom(Path(t), call[t].rung, "throw")

\* At every moment, a call that the JVM has refused something is on its way out.
RefusedLeaves == \A t \in Thread : refused[t] => call[t].rung > 0

----------------------------------------------------------------------------
(* What holds only for threads that are kept apart.                        *)

\* n attaches, detaches or draws from the random function.
UsesRandom(n) ==
    \/ \E i \in 1..Len(Steps(n)) :
         \/ Steps(n)[i].hook # ""
         \/ \E e \in 1..Len(Steps(n)[i].fail) : OpFrom(Steps(n)[i].fail[e], 1, "off")
    \/ OpFrom(Code[n].done, 1, "off")

\* n has attached the random function for sure, and not detached it.
MustServe(n, k) ==
    \E i \in 1..k - 1 :
        /\ Steps(n)[i].hook = "attach"
        /\ ~Skippable(n, i)
        /\ \A j \in i + 1..k - 1 : Steps(n)[j].hook # "detach"

Served(n) == \A i \in 1..Len(Steps(n)) : Steps(n)[i].hook = "draw" => MustServe(n, i)

\* Two threads do not use the random function at once, as they never call
\* natives that do.
OneServed ==
    \A s, t \in Thread : s # t =>
        \A n \in Calls[s], m \in Calls[t] : ~UsesRandom(n) \/ ~UsesRandom(m)

\* This makes RandomServed inductive.
ServesInTime ==
    \A t \in Thread : Active(t) =>
        /\ call[t].native \in Calls[t]
        /\ call[t].rung = 0 /\ MustServe(call[t].native, call[t].pc) => hook

\* Step j of n writes something else where d is.
Clobbers(n, j, d) ==
    \E e \in Steps(n)[j].writes : e.is # d.is /\ e.cells \intersect d.cells # {}

\* If d was loaded by the steps before k of n, it was so since it was last
\* written over.
Kept(n, k, d) ==
    \A j \in 1..k - 1 : Clobbers(n, j, d) =>
        \/ \A i \in 1..j : d \notin Steps(n)[i].writes
        \/ \E i \in j + 1..k - 1 : d \in Steps(n)[i].writes /\ ~Skippable(n, i)

\* A rung that touches msg.
Scribbles(rung) == rung.op \in {"say", "zero"}

Shows(rung) == rung.op = "throw" /\ rung.cells # {}

\* Rung m of a path formats the text that rung i throws.
SaidFor(path, m, i) ==
    /\ path[m].op = "say"
    /\ path[m].cells = path[i].cells
    /\ \A l \in m + 1..i - 1 : ~Scribbles(path[l])

Legible(path) ==
    \A i \in 1..Len(path) : Shows(path[i]) => \E m \in 1..i - 1 : SaidFor(path, m, i)

\* n reads back only what nothing of its own has been written over since.
Readable(n) ==
    /\ \A i \in 1..Len(Steps(n)) :
         /\ \A d \in Steps(n)[i].writes : ~Clobbers(n, i, d)
         /\ \A d \in Steps(n)[i].reads : Kept(n, i, d)
         /\ \A e \in 1..Len(Steps(n)[i].fail) : Legible(Steps(n)[i].fail[e])
    /\ Legible(Code[n].done)

\* No two threads call natives of one unit.
OneEachUnit ==
    \A s, t \in Thread : s # t =>
        \A n \in Calls[s], m \in Calls[t] : Code[n].unit # Code[m].unit

\* What t has loaded and not written over is in msg, and so is the text it is
\* about to throw, or it is about to be formatted.  This makes ReadsIntact
\* inductive.
LoadedStays(t) ==
    \A d \in loaded[t] :
        /\ \E i \in 1..call[t].pc - 1 : d \in Steps(call[t].native)[i].writes
        /\ Kept(call[t].native, call[t].pc, d) => Intact(t, d)

TextsStay(t) ==
    \A i \in call[t].rung..Len(Path(t)) : Shows(Path(t)[i]) =>
        \/ \E m \in call[t].rung..i - 1 : SaidFor(Path(t), m, i)
        \/ /\ Intact(t, Text(Path(t)[i]))
           /\ \A l \in call[t].rung..i - 1 : ~Scribbles(Path(t)[l])

StaysIntact ==
    \A t \in Thread :
        IF Active(t)
          THEN /\ call[t].native \in Calls[t]
               /\ IF call[t].rung = 0 THEN LoadedStays(t) ELSE TextsStay(t)
          ELSE loaded[t] = {}

----------------------------------------------------------------------------
(* The contract.                                                           *)

\* A step acquires one thing, or releases one, or makes the result.
Orderly(n) ==
    \A i \in 1..Len(Steps(n)) :
        LET s == Steps(n)[i]
        IN  \/ s.gets = {} /\ s.frees = {}
            \/ ~s.makes /\ s.frees = {} /\ \E r \in s.gets : s.gets = {r}
            \/ ~s.makes /\ s.gets = {} /\ \E r \in s.frees : s.frees = {r}

----------------------------------------------------------------------------
(* Termination.                                                            *)

\* No exit path of n, nor the one without an exit, is longer than m rungs.
EndsWithin(n, m) ==
    /\ Len(Code[n].done) <= m
    /\ \A i \in 1..Len(Steps(n)) : \A e \in 1..Len(Steps(n)[i].fail) :
         Len(Steps(n)[i].fail[e]) <= m

==============================================================================
