---------------------------- MODULE ThrowContract ----------------------------
(***************************************************************************)
(* What the natives rely on when they call throwNewException and then      *)
(* return to Java: an exception is pending; it is the one they asked for,  *)
(* unless the JVM got into trouble of its own on the way.                  *)
(***************************************************************************)
CONSTANT Thread    \* the Java threads

VARIABLES
    asked,      \* asked[t]: a native of t is waiting for throwNewException
    raised,     \* raised[t]: "nothing", what was "asked" for, or some "other"
                \* exception is pending
    trouble     \* trouble[t]: the JVM refused something, or an exception was
                \* pending already when the native asked

vars == <<asked, raised, trouble>>

Init ==
    /\ asked = [t \in Thread |-> FALSE]
    /\ raised = [t \in Thread |-> "nothing"]
    /\ trouble = [t \in Thread |-> FALSE]

Ask(t) ==
    /\ ~asked[t]
    /\ asked' = [asked EXCEPT ![t] = TRUE]
    /\ \/ UNCHANGED <<raised, trouble>>
       \/ /\ raised' = [raised EXCEPT ![t] = "other"]
          /\ trouble' = [trouble EXCEPT ![t] = TRUE]

\* The JVM refuses something; it may leave an exception of its own.
Refuse(t) ==
    /\ asked[t]
    /\ raised[t] # "asked"
    /\ trouble' = [trouble EXCEPT ![t] = TRUE]
    /\ \/ UNCHANGED raised
       \/ raised' = [raised EXCEPT ![t] = "other"]
    /\ UNCHANGED asked

Deliver(t) ==
    /\ asked[t]
    /\ raised' = [raised EXCEPT ![t] = "asked"]
    /\ UNCHANGED <<asked, trouble>>

\* A complaint about the trouble stands in for what was asked for.
Substitute(t) ==
    /\ asked[t]
    /\ trouble[t]
    /\ raised[t] # "asked"
    /\ raised' = [raised EXCEPT ![t] = "other"]
    /\ UNCHANGED <<asked, trouble>>

\* Java takes the exception.
Return(t) ==
    /\ asked[t]
    /\ \/ raised[t] = "asked"
       \/ raised[t] = "other" /\ trouble[t]
    /\ asked' = [asked EXCEPT ![t] = FALSE]
    /\ raised' = [raised EXCEPT ![t] = "nothing"]
    /\ trouble' = [trouble EXCEPT ![t] = FALSE]

Next ==
    \E t \in Thread :
        Ask(t) \/ Refuse(t) \/ Deliver(t) \/ Substitute(t) \/ Return(t)

Spec == Init /\ [][Next]_vars

==============================================================================
