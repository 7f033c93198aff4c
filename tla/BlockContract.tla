---------------------------- MODULE BlockContract ----------------------------
(***************************************************************************)
(* What the threads that share a NanoBlock may rely on, as long as nobody  *)
(* writes into its arrays while a method runs and no two of them use msg   *)
(* at once: signing happens at one moment and covers what the block is     *)
(* then; isBlockSigned tells the truth of one moment; work is calculated   *)
(* for what the block is, and only if at some moment of the call its       *)
(* signature was valid; a method that throws leaves the block alone.       *)
(***************************************************************************)
EXTENDS Blocks

CONSTANTS
    Thread,     \* the threads of the program
    Question,   \* the calls they may make: records with an op and a key
    Value       \* what a block may be

VARIABLES
    value,      \* the block
    asked,      \* asked[t]: the call t is in
    reply       \* reply[t]: "pending", "passed" (the check of calculateWork),
                \* or how the call ended

vars == <<value, asked, reply>>

Nobody == [op |-> "none"]

Init ==
    /\ value \in Value
    /\ asked = [t \in Thread |-> Nobody]
    /\ reply = [t \in Thread |-> "pending"]

\* The program writes into an array of the block, or drops it for another.
Change ==
    /\ \A t \in Thread : asked[t] = Nobody
    /\ value' \in Value
    /\ UNCHANGED <<asked, reply>>

Ask(t, q) ==
    /\ asked[t] = Nobody
    /\ asked' = [asked EXCEPT ![t] = q]
    /\ UNCHANGED <<value, reply>>

Waiting(t, op) == asked[t].op = op /\ reply[t] = "pending"

Answer(t, r) == reply' = [reply EXCEPT ![t] = r] /\ UNCHANGED asked

Sign(t) ==
    /\ Waiting(t, "sign")
    /\ value' = [value EXCEPT !.signature = Signature(asked[t].key, value)]
    /\ Answer(t, "done")

Tell(t) ==
    /\ Waiting(t, "isBlockSigned")
    /\ Answer(t, IF Verify(value) = "valid" THEN "true" ELSE "false")
    /\ UNCHANGED value

Pass(t) ==
    /\ Waiting(t, "calculateWork")
    /\ Verify(value) = "valid"
    /\ Answer(t, "passed")
    /\ UNCHANGED value

Earn(t) ==
    /\ reply[t] = "passed"
    /\ value' = [value EXCEPT !.work = Work(Hash(value))]
    /\ Answer(t, "done")

Throw(t) ==
    /\ asked[t] # Nobody
    /\ reply[t] \in {"pending", "passed"}
    /\ Answer(t, "thrown")
    /\ UNCHANGED value

Leave(t) ==
    /\ reply[t] \in {"done", "true", "false", "thrown"}
    /\ asked' = [asked EXCEPT ![t] = Nobody]
    /\ reply' = [reply EXCEPT ![t] = "pending"]
    /\ UNCHANGED value

Next ==
    \/ Change
    \/ \E t \in Thread :
         \/ \E q \in Question : Ask(t, q)
         \/ Sign(t)
         \/ Tell(t)
         \/ Pass(t)
         \/ Earn(t)
         \/ Throw(t)
         \/ Leave(t)

Spec == Init /\ [][Next]_vars

==============================================================================
