----------------------------- MODULE CallContract -----------------------------
(***************************************************************************)
(* What a native method owes the Java thread that calls it, whatever it    *)
(* computes: what it pinned or allocated is released, exactly one of a     *)
(* result and an exception comes back, and once an exception is pending,   *)
(* the JVM's or the method's own, the method acquires and makes nothing    *)
(* any more.  It may raise its own over the JVM's: which calls of the JVM  *)
(* that takes is left to ThrowNew.  NativeCalls implements this with the   *)
(* scratch buffer, the exit ladders and the random function hidden.        *)
(***************************************************************************)
CONSTANTS
    Thread,     \* the Java threads
    Method,     \* the native methods; none is called ""
    Resource,   \* what a method pins or allocates while it runs
    Leaky,      \* the methods that may return without releasing everything
    Odd         \* the methods that may return both or neither of result and
                \* exception

VARIABLES
    method,     \* method[t]: the method t is in, "" in none
    pins,       \* pins[t]: what it holds
    given,      \* given[t]: it has a result to return
    refused,    \* refused[t]: the JVM has left an exception of its own
    raised      \* raised[t]: the exception Java is to see has been raised

vars == <<method, pins, given, refused, raised>>

Init ==
    /\ method = [t \in Thread |-> ""]
    /\ pins = [t \in Thread |-> {}]
    /\ given = [t \in Thread |-> FALSE]
    /\ refused = [t \in Thread |-> FALSE]
    /\ raised = [t \in Thread |-> FALSE]

Enter(t) ==
    /\ method[t] = ""
    /\ \E m \in Method : method' = [method EXCEPT ![t] = m]
    /\ UNCHANGED <<pins, given, refused, raised>>

\* Working: forbidden while an exception is pending.

Working(t) == method[t] # "" /\ ~refused[t] /\ ~raised[t]

Acquire(t) ==
    /\ Working(t)
    /\ \E r \in Resource : pins' = [pins EXCEPT ![t] = @ \union {r}]
    /\ UNCHANGED <<method, given, refused, raised>>

Produce(t) ==
    /\ Working(t)
    /\ given' = [given EXCEPT ![t] = TRUE]
    /\ UNCHANGED <<method, pins, refused, raised>>

\* A function of the JVM fails and leaves an exception; what it was to produce is
\* not there.
Refuse(t) ==
    /\ Working(t)
    /\ refused' = [refused EXCEPT ![t] = TRUE]
    /\ given' \in {given, [given EXCEPT ![t] = FALSE]}
    /\ UNCHANGED <<method, pins, raised>>

\* Once, over an exception of the JVM or not.
Raise(t) ==
    /\ method[t] # ""
    /\ ~raised[t]
    /\ raised' = [raised EXCEPT ![t] = TRUE]
    /\ UNCHANGED <<method, pins, given, refused>>

\* Cleaning up: allowed at any time.

Release(t) ==
    /\ method[t] # ""
    /\ \E r \in pins[t] : pins' = [pins EXCEPT ![t] = @ \ {r}]
    /\ UNCHANGED <<method, given, refused, raised>>

Withdraw(t) ==
    /\ method[t] # ""
    /\ given' = [given EXCEPT ![t] = FALSE]
    /\ UNCHANGED <<method, pins, refused, raised>>

\* The methods that do not say what they return.
Forget(t) ==
    /\ method[t] \in Odd
    /\ given' = [given EXCEPT ![t] = TRUE]
    /\ UNCHANGED <<method, pins, refused, raised>>

Leave(t) ==
    /\ method[t] # ""
    /\ pins[t] = {} \/ method[t] \in Leaky
    /\ given[t] # raised[t] \/ method[t] \in Odd
    /\ method' = [method EXCEPT ![t] = ""]
    /\ pins' = [pins EXCEPT ![t] = {}]
    /\ given' = [given EXCEPT ![t] = FALSE]
    /\ refused' = [refused EXCEPT ![t] = FALSE]
    /\ raised' = [raised EXCEPT ![t] = FALSE]

Next ==
    \E t \in Thread :
        \/ Enter(t)
        \/ Acquire(t)
        \/ Produce(t)
        \/ Refuse(t)
        \/ Raise(t)
        \/ Release(t)
        \/ Withdraw(t)
        \/ Forget(t)
        \/ Leave(t)

Spec == Init /\ [][Next]_vars

==============================================================================
