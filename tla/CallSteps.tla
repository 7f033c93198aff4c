------------------------------ MODULE CallSteps ------------------------------
(***************************************************************************)
(* The vocabulary in which the native methods of mynanojava.c and          *)
(* bitcoin_util.c are written down (NanoScripts, BitcoinScripts) and which *)
(* NativeCalls executes.                                                   *)
(*                                                                         *)
(* A native method is a SCRIPT: the steps of its straight-line path and,   *)
(* for every step that can fail, the exit paths it may take.  A step       *)
(* stands for one C statement that has an effect, or for a run of checks   *)
(* that have none and leave by the same exits.  An exit path is the        *)
(* sequence of RUNGS the C code executes from the failing statement to     *)
(* its return: format an error text, throw, and then the labels of the     *)
(* goto ladder, in the order in which control falls through them.          *)
(***************************************************************************)
EXTENDS Naturals, Sequences

----------------------------------------------------------------------------
(* The scratch buffer `static char msg[768]' of nano_java_common.h.        *)

\* The buffer is cut at every offset at which some native starts or ends an
\* access; a cell is named by its first byte.
CellStart == {0, 16, 32, 64, 82, 128, 256, 384}

MsgSize == 768

CellEnd(c) ==
    CHOOSE e \in CellStart \union {MsgSize} :
        /\ e > c
        /\ \A d \in CellStart : d > c => e <= d

\* The cells that an access of n bytes at offset `from' touches.
Touched(from, n) ==
    {c \in CellStart : c < from + n /\ from < CellEnd(c)}

\* The cells an error text of n bytes overwrites from end to end.  A cell it
\* only reaches into still holds the tail of what was there before.
Overwritten(n) == {c \in CellStart : CellEnd(c) <= n}

\* A piece of data a call keeps in the scratch buffer: where, and what it is.
Data(from, n, what) == [cells |-> Touched(from, n), is |-> what]

\* The contents that the code takes care to erase.
SecretKind == {"seed", "key", "keypair", "wif", "master"}

\* Public contents, and the text of an error.
PublicKind ==
    {"raw A", "raw B", "raw hex", "json", "prefixes", "hash", "public key",
     "wallet", "balance", "account", "signature", "public master", "address",
     "text"}

DataKind == SecretKind \union PublicKind

----------------------------------------------------------------------------
(* Rungs of an exit path.                                                  *)

Rung(op, res, cells) == [op |-> op, res |-> res, cells |-> cells]

Free(r)  == Rung("free", r, {})      \* Release...Chars/Elements, free
Zero     == Rung("zero", "", {})     \* memset(msg, 0, sizeof(msg))
Off      == Rung("off", "", {})      \* f_random_detach()
Unmake   == Rung("unmake", "", {})   \* DeleteLocalRef(res), res = NULL
Unset    == Rung("unset", "", {})    \* `res' was never assigned
Say(n)   == Rung("say", "", Overwritten(n))    \* sprintf(msg, ...)
Throw(n) == Rung("throw", "", Overwritten(n))  \* throw...(env, msg)

\* throw...(env, "literal") and then the ladder.
Literal(ladder) == <<Throw(0)>> \o ladder

\* sprintf(msg, ...), throw...(env, msg), and then the ladder.
Formatted(n, ladder) == <<Say(n), Throw(n)>> \o ladder

----------------------------------------------------------------------------
(* Steps.  Everything a step does when it succeeds, and its exit paths.    *)

Step ==
    [gets   |-> {},     \* resources it acquires
     frees  |-> {},     \* resources it releases
     reads  |-> {},     \* scratch data it (or the library) reads
     writes |-> {},     \* scratch data it (or the library) writes
     hook   |-> "",     \* attach | draw | detach: the random function
     makes  |-> FALSE,  \* TRUE: it produces the result of the call
     skips  |-> 0,      \* steps that an argument (null, a mode bit) may skip
     fail   |-> <<>>]   \* its exit paths, none if it cannot fail

Check(fail)             == [Step EXCEPT !.fail = fail]
Get(r, fail)            == [Step EXCEPT !.gets = {r}, !.fail = fail]
Put(r)                  == [Step EXCEPT !.frees = {r}]
Load(data, fail)        == [Step EXCEPT !.writes = data, !.fail = fail]
Use(data, fail)         == [Step EXCEPT !.reads = data, !.fail = fail]
Turn(data, into, fail)  == [Step EXCEPT !.reads = data, !.writes = into, !.fail = fail]
Make(data, fail)        == [Step EXCEPT !.reads = data, !.makes = TRUE, !.fail = fail]
May(step)               == [step EXCEPT !.skips = 1]
MayAll(n, step)         == [step EXCEPT !.skips = n]
Attach                  == [Step EXCEPT !.hook = "attach"]
Draw(data, into, fail)  == [Turn(data, into, fail) EXCEPT !.hook = "draw"]
Detach                  == [Step EXCEPT !.hook = "detach"]

\* A native method: the translation unit it is compiled into (each has its
\* own `msg'), its steps, and the rungs it falls through when no step failed.
Script(unit, steps, done) == [unit |-> unit, steps |-> steps, done |-> done]

----------------------------------------------------------------------------
(* The sets the above are members of.                                      *)

RungType == [op : STRING, res : STRING, cells : SUBSET CellStart]

DataType == [cells : SUBSET CellStart, is : DataKind]

StepType ==
    [gets : SUBSET STRING, frees : SUBSET STRING,
     reads : SUBSET DataType, writes : SUBSET DataType,
     hook : STRING, makes : BOOLEAN, skips : Nat, fail : Seq(Seq(RungType))]

ScriptType == [unit : STRING, steps : Seq(StepType), done : Seq(RungType)]

==============================================================================
