----------------------------- MODULE MCDiscipline -----------------------------
(***************************************************************************)
(* The natives of the library keep the discipline of CallDiscipline, and   *)
(* its invariants hold.                                                    *)
(***************************************************************************)
EXTENDS CallDiscipline, MCCalls

\* The longest path that ends a call.
MaxRungs == 10

ASSUME CodeIsDisciplined ==
    \A n \in Native :
        /\ Balanced(n) /\ Backed(n) /\ Bracketed(n)
        /\ Wipes(n) /\ Decided(n) /\ ThrowsOnce(n) /\ Orderly(n)
        /\ Served(n) /\ Readable(n) /\ EndsWithin(n, MaxRungs)

==============================================================================
