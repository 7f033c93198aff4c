------------------------------- MODULE NanoBlock -------------------------------
(***************************************************************************)
(* NanoBlock.java: one block object and the threads of a program that      *)
(* sign it, ask whether it is signed and calculate its work.               *)
(*                                                                         *)
(* None of this takes a lock.  sign copies the object into a C structure,  *)
(* signs that, and stores the signature as a new array in the object;      *)
(* calculateWork looks at the signature, has it verified on one copy of    *)
(* the object, has another copy hashed, works on the hash for seconds, and *)
(* stores the nonce.  Other threads may be anywhere in between.            *)
(*                                                                         *)
(* Two things are left to the program.  The natives that sign, verify and  *)
(* hash pass keys and hashes through the buffer msg, which two threads at  *)
(* once would spoil (NativeCalls is about that): here one thread at a time *)
(* is in these.  nanoBytePoW, which takes seconds, reads its hash from an  *)
(* array of its own, and overlaps with everything.  And the getters hand   *)
(* out the object's own arrays, so a program can change a block: here it   *)
(* does so between two calls.                                              *)
(***************************************************************************)
EXTENDS Blocks

CONSTANTS
    Thread,     \* the threads of the program
    Account,    \* accounts, and the private keys named by them
    Rest        \* contents of the fields previous .. link, taken together

Null == [null |-> TRUE]

\* An object of `new NanoBlock()'; all its arrays are null.
Empty == [account |-> Null, rest |-> Null, signature |-> Null, work |-> NoWork]

\* The object nanoCreateBlock returns.
Created(a, r) == [account |-> a, rest |-> r, signature |-> Zeroes, work |-> NoWork]

Question ==
    [op : {"sign"}, key : Account] \union {[op |-> "isBlockSigned"], [op |-> "calculateWork"]}

NoQuestion == [op |-> "none"]

Place ==
    {"idle", "asked", "storing", "verifying", "hashing", "working", "storing work",
     "done", "true", "false", "thrown"}

Answered == {"done", "true", "false", "thrown"}

VARIABLES
    block,    \* the object
    job,      \* job[t]: the call t is in, how far it is, and what it has got
    seen      \* seen[t]: what Verify would have said since that call began (history)

vars == <<block, job, seen>>

Idle == [ask |-> NoQuestion, at |-> "idle", got |-> Null]

Init ==
    /\ block \in {Empty} \union {Created(a, r) : a \in Account, r \in Rest}
    /\ job = [t \in Thread |-> Idle]
    /\ seen = [t \in Thread |-> {}]

At(t, place, op) == job[t].at = place /\ job[t].ask.op = op

Goto(t, place, value) ==
    job' = [job EXCEPT ![t] = [ask |-> @.ask, at |-> place, got |-> value]]

\* Every thread in a call sees what becomes of the block.
Watch ==
    seen' = [t \in Thread |->
               IF job'[t] = Idle THEN {} ELSE seen[t] \union {Verify(block')}]

----------------------------------------------------------------------------

\* The program writes into the arrays it got from the getters, or goes on with
\* a new block.
Edit ==
    /\ \A t \in Thread : job[t] = Idle
    /\ \/ /\ block # Empty
          /\ \/ \E a \in Account : block' = [block EXCEPT !.account = a]
             \/ \E r \in Rest : block' = [block EXCEPT !.rest = r]
             \/ block' = [block EXCEPT !.signature = Scribble]
       \/ block' \in {Empty} \union {Created(a, r) : a \in Account, r \in Rest}
    /\ UNCHANGED job
    /\ Watch

Ask(t, q) ==
    /\ job[t] = Idle
    /\ job' = [job EXCEPT ![t] = [ask |-> q, at |-> "asked", got |-> Null]]
    /\ UNCHANGED block
    /\ Watch

\* No other thread is in signNanoBlock, whose key is in msg.
MsgFree(t) == \A u \in Thread \ {t} : job[u].at # "storing"

\* A native throws: the conversion of the object (a null array, memory), the
\* library, a new array.
Fail(t) ==
    /\ job[t].at \in {"storing", "verifying", "hashing", "working"}
         \/ At(t, "asked", "sign")
    /\ Goto(t, "thrown", Null)
    /\ UNCHANGED block
    /\ Watch

\* (mutant) A null array is not refused.
SignCopy_unchecked(t) ==
    /\ At(t, "asked", "sign")
    /\ MsgFree(t)
    /\ Goto(t, "storing", Signature(job[t].ask.key, block))
    /\ UNCHANGED block
    /\ Watch

\* signNanoBlock, up to the signature in the C structure.
SignCopy(t) ==
    /\ At(t, "asked", "sign")
    /\ MsgFree(t)
    /\ block # Empty
    /\ Goto(t, "storing", Signature(job[t].ask.key, block))
    /\ UNCHANGED block
    /\ Watch

\* (mutant) The whole C structure is written back, with the work it had.
StoreSignature_all(t) ==
    /\ job[t].at = "storing"
    /\ block' = [block EXCEPT !.signature = job[t].got, !.work = NoWork]
    /\ Goto(t, "done", Null)
    /\ Watch

\* setByteArrayFieldId_util(..., NANO_BLK_SIGNATURE, ...)
StoreSignature(t) ==
    /\ job[t].at = "storing"
    /\ block' = [block EXCEPT !.signature = job[t].got]
    /\ Goto(t, "done", Null)
    /\ Watch

\* calculateWork throws what isBlockSigned would answer with false.
NotSigned(t) ==
    Goto(t, IF job[t].ask.op = "calculateWork" THEN "thrown" ELSE "false", Null)

\* this.signature == null ?
Look(t) ==
    /\ At(t, "asked", "isBlockSigned") \/ At(t, "asked", "calculateWork")
    /\ \/ block.signature = Null /\ NotSigned(t)
       \/ block.signature # Null /\ Goto(t, "verifying", Null)
    /\ UNCHANGED block
    /\ Watch

\* (mutant) Whatever is not a failure passes.
VerifySignature_lenient(t) ==
    /\ job[t].at = "verifying"
    /\ MsgFree(t)
    /\ \/ Verify(block) = "error" /\ Goto(t, "thrown", Null)
       \/ /\ Verify(block) # "error"
          /\ Goto(t, IF job[t].ask.op = "calculateWork" THEN "hashing" ELSE "true", Null)
    /\ UNCHANGED block
    /\ Watch

\* verifySignatureNanoBlock
VerifySignature(t) ==
    /\ job[t].at = "verifying"
    /\ MsgFree(t)
    /\ \/ Verify(block) = "error" /\ Goto(t, "thrown", Null)
       \/ Verify(block) = "invalid" /\ NotSigned(t)
       \/ /\ Verify(block) = "valid"
          /\ Goto(t, IF job[t].ask.op = "calculateWork" THEN "hashing" ELSE "true", Null)
    /\ UNCHANGED block
    /\ Watch

\* getNanoBlockHash
HashBlock(t) ==
    /\ job[t].at = "hashing"
    /\ MsgFree(t)
    /\ Goto(t, "working", Hash(block))
    /\ UNCHANGED block
    /\ Watch

\* nanoBytePoW
FindWork(t) ==
    /\ job[t].at = "working"
    /\ Goto(t, "storing work", Work(job[t].got))
    /\ UNCHANGED block
    /\ Watch

StoreWork(t) ==
    /\ job[t].at = "storing work"
    /\ block' = [block EXCEPT !.work = job[t].got]
    /\ Goto(t, "done", Null)
    /\ Watch

Finish(t) ==
    /\ job[t].at \in Answered
    /\ job' = [job EXCEPT ![t] = Idle]
    /\ UNCHANGED block
    /\ Watch

Next ==
    \/ Edit
    \/ \E t \in Thread :
         \/ \E q \in Question : Ask(t, q)
         \/ Fail(t)
         \/ SignCopy(t)
         \/ StoreSignature(t)
         \/ Look(t)
         \/ VerifySignature(t)
         \/ HashBlock(t)
         \/ FindWork(t)
         \/ StoreWork(t)
         \/ Finish(t)

Spec == Init /\ [][Next]_vars

----------------------------------------------------------------------------
(* Properties.                                                             *)

Contents == {[account |-> a, rest |-> r] : a \in Account, r \in Rest}

Signatures ==
    {Zeroes, Scribble} \union {Signature(k, c) : k \in Account, c \in Contents}

Works == {NoWork} \union {Work(Hash(c)) : c \in Contents}

Value ==
    {Empty} \union [account : Account, rest : Rest, signature : Signatures, work : Works]

\* The object is empty or has all its arrays, and every thread is at a place of
\* the method it is in.
TypeOK ==
    /\ block \in Value
    /\ job \in [Thread -> [ask : Question \union {NoQuestion}, at : Place,
                          got : {Null} \union Contents \union Signatures \union Works]]
    /\ \A t \in Thread : (job[t].ask = NoQuestion) = (job[t].at = "idle")
    /\ seen \in [Thread -> SUBSET {"error", "valid", "invalid"}]

\* The work calculateWork stores is for what the block is then, and at some moment
\* since the call began the signature of the block was valid, although
\* calculateWork checks, hashes and stores on three different looks at the object
\* and another thread may sign it in between.
WorkOfSigned ==
    [][block'.work \notin {block.work, NoWork} =>
         /\ block'.work = Work(Hash(block'))
         /\ \E t \in Thread : At(t, "storing work", "calculateWork") /\ "valid" \in seen[t]]_vars

\* A valid signature is lost only if the program changes the block or signs it
\* with the key of another account: no other call spoils it, and storing the
\* work, which comes last, does not either.
SignedStaysSigned ==
    [][Verify(block) = "valid" /\ Verify(block') # "valid" =>
         \/ \A t \in Thread : job[t] = Idle
         \/ \E t \in Thread :
              /\ At(t, "storing", "sign") /\ job'[t].at = "done"
              /\ job[t].ask.key # block.account]_vars

\* What BlockContract makes of where a thread is.
Reply(t) ==
    CASE job[t].at \in Answered -> job[t].at
      [] job[t].at \in {"hashing", "working", "storing work"} -> "passed"
      [] OTHER -> "pending"

Contract == INSTANCE BlockContract WITH
    value <- block,
    asked <- [t \in Thread |-> job[t].ask],
    reply <- [t \in Thread |-> Reply(t)]

\* However the calls of the threads interleave, and wherever one of them throws,
\* each has the effect and the answer of one moment of its own.
KeepsContract == Contract!Spec

==============================================================================
