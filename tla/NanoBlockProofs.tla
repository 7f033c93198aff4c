---------------------------- MODULE NanoBlockProofs ----------------------------
(***************************************************************************)
(* The properties of NanoBlock, for every set of threads, of accounts and  *)
(* of contents: a block shared by threads is signed and worked on as if    *)
(* each call did its work at one moment.                                   *)
(***************************************************************************)
EXTENDS NanoBlock, TLAPS

\* Objects that have all their arrays.
Full == [account : Account, rest : Rest, signature : Signatures, work : Works]

----------------------------------------------------------------------------
(* Values.                                                                 *)

\* The hash of a block is its contents.
LEMMA HashIsContents ==
    ASSUME NEW b, DOMAIN b = {"account", "rest", "signature", "work"}
    PROVE  Hash(b) = [account |-> b.account, rest |-> b.rest]
<1>1. DOMAIN b \ NotHashed = {"account", "rest"}
  BY DEF NotHashed
<1>2. Hash(b) = [f \in {"account", "rest"} |-> b[f]]
  BY <1>1 DEF Hash
<1> QED
  BY <1>2

LEMMA NullIsNoSignature ==
    ASSUME NEW k, NEW b
    PROVE  Null # Signature(k, b) /\ Null # Zeroes /\ Zeroes # Signature(k, b)
  BY DEF Null, Signature, Zeroes

\* A new signature and new work leave what is hashed alone.
LEMMA HashKept ==
    ASSUME NEW b \in Full, NEW s \in Signatures, NEW w \in Works
    PROVE  /\ [b EXCEPT !.signature = s] \in Full
           /\ [b EXCEPT !.work = w] \in Full
           /\ Hash([b EXCEPT !.signature = s]) = Hash(b)
           /\ Hash([b EXCEPT !.work = w]) = Hash(b)
           /\ Hash(b) \in Contents
           /\ [b EXCEPT !.signature = s].signature = s
           /\ [b EXCEPT !.work = w].work = w
<1>1. /\ DOMAIN b = {"account", "rest", "signature", "work"}
      /\ [b EXCEPT !.signature = s] \in Full
      /\ [b EXCEPT !.work = w] \in Full
  BY DEF Full
<1>2. /\ Hash([b EXCEPT !.signature = s]) = Hash(b)
      /\ Hash([b EXCEPT !.work = w]) = Hash(b)
  BY <1>1, HashIsContents
<1>3. Hash(b) \in Contents
  BY <1>1, HashIsContents DEF Full, Contents
<1> QED
  BY <1>1, <1>2, <1>3 DEF Full

----------------------------------------------------------------------------
(* The inductive invariant.                                                *)

Busy == {"storing", "verifying", "hashing", "working", "storing work"}

\* What a thread has in hand still fits the block, whatever the others did since:
\* they change the signature and the work of a block only, which are not hashed.
InHandOf(t) ==
    /\ job[t].at \in Busy => block # Empty
    /\ job[t].at = "storing" =>
         /\ job[t].ask.op = "sign"
         /\ job[t].got = Signature(job[t].ask.key, block)
    /\ job[t].at = "verifying" => job[t].ask.op # "sign"
    /\ job[t].at \in {"hashing", "working", "storing work"} =>
         /\ job[t].ask.op = "calculateWork"
         /\ "valid" \in seen[t]
    /\ job[t].at = "working" => job[t].got = Hash(block)
    /\ job[t].at = "storing work" => job[t].got = Work(Hash(block))

InHand == \A t \in Thread : InHandOf(t)

Inv == TypeOK /\ InHand

\* What Verify says is one of three things.
LEMMA VerifyType ==
    ASSUME NEW b
    PROVE  Verify(b) \in {"error", "valid", "invalid"}
  BY DEF Verify

\* Values have their types.
LEMMA ValueTypes ==
    /\ Value = {Empty} \union Full
    /\ Full \subseteq Value
    /\ \A b \in Full : b # Empty /\ b.signature # Null
    /\ Empty \notin Full
    /\ Null \notin Signatures
    /\ \A b \in Value : b # Empty => b \in Full
    /\ \A a \in Account, r \in Rest : Created(a, r) \in Full
    /\ \A k \in Account, b \in Full : Signature(k, b) \in Signatures
    /\ \A b \in Full : Work(Hash(b)) \in Works
<1>1. Null \notin Signatures
  <2>1. ASSUME NEW s \in Signatures PROVE s # Null
    <3>1. CASE s \in {Zeroes, Scribble}
      BY <3>1 DEF Null, Zeroes, Scribble
    <3>2. CASE \E k \in Account, c \in Contents : s = Signature(k, c)
      BY <3>2, NullIsNoSignature
    <3> QED
      BY <3>1, <3>2 DEF Signatures
  <2> QED
    BY <2>1
<1>2. Value = {Empty} \union Full
  BY DEF Value, Full
<1>3. \A b \in Full : b # Empty /\ b.signature # Null
  BY <1>1 DEF Full, Empty
<1>4. \A a \in Account, r \in Rest : Created(a, r) \in Full
  BY DEF Created, Full, Signatures, Works
<1>5. ASSUME NEW k \in Account, NEW b \in Full
      PROVE  Signature(k, b) \in Signatures /\ Work(Hash(b)) \in Works
  <2>1. Zeroes \in Signatures /\ NoWork \in Works
    BY DEF Signatures, Works
  <2>2. Hash(b) \in Contents
    BY <2>1, HashKept
  <2>3. Hash(Hash(b)) = Hash(b)
    <3>1. DOMAIN Hash(b) = {"account", "rest"}
      BY <2>2 DEF Contents
    <3>2. DOMAIN Hash(b) \ NotHashed = DOMAIN Hash(b)
      BY <3>1 DEF NotHashed
    <3>3. Hash(Hash(b)) = [f \in DOMAIN Hash(b) |-> Hash(b)[f]]
      BY <3>2 DEF Hash
    <3> QED
      BY <3>3, <2>2 DEF Contents
  <2>4. Signature(k, b) = Signature(k, Hash(b)) /\ Work(Hash(b)) = Work(Hash(Hash(b)))
    BY <2>3 DEF Signature
  <2> QED
    BY <2>2, <2>4 DEF Signatures, Works
<1>6. Empty \notin Full
  BY <1>3
<1>7. Full \subseteq Value /\ \A b \in Value : b # Empty => b \in Full
  BY <1>2
<1>8. \A k \in Account, b \in Full : Signature(k, b) \in Signatures
  BY <1>5
<1>9. \A b \in Full : Work(Hash(b)) \in Works
  <2>1. TAKE b \in Full
  <2>2. CASE Account = {}
    BY <2>1, <2>2 DEF Full
  <2>3. CASE Account # {}
    BY <1>5, <2>3
  <2> QED
    BY <2>2, <2>3
<1> QED
  BY <1>1, <1>2, <1>3, <1>4, <1>6, <1>7, <1>8, <1>9

----------------------------------------------------------------------------
(* Steps.                                                                  *)

Got == {Null} \union Contents \union Signatures \union Works

Job == [ask : Question \union {NoQuestion}, at : Place, got : Got]

JobsOK ==
    /\ job \in [Thread -> Job]
    /\ \A t \in Thread : (job[t].ask = NoQuestion) = (job[t].at = "idle")

\* A thread goes on in its call; the others stay where they are.
LEMMA GotoMoves ==
    ASSUME JobsOK, NEW t \in Thread, job[t].at # "idle",
           NEW place \in Place \ {"idle"}, NEW value \in Got, Goto(t, place, value)
    PROVE  /\ JobsOK'
           /\ \A u \in Thread \ {t} : job'[u] = job[u]
           /\ job'[t] # Idle
           /\ job'[t].ask = job[t].ask /\ job'[t].at = place /\ job'[t].got = value
<1>1. job' = [job EXCEPT ![t] = [ask |-> job[t].ask, at |-> place, got |-> value]]
  BY DEF Goto, JobsOK, Job
<1>2. [ask |-> job[t].ask, at |-> place, got |-> value] \in Job
  BY DEF JobsOK, Job
<1>3. job' \in [Thread -> Job]
  BY <1>1, <1>2 DEF JobsOK
<1>4. job'[t] = [ask |-> job[t].ask, at |-> place, got |-> value]
  BY <1>1 DEF JobsOK
<1>5. \A u \in Thread \ {t} : job'[u] = job[u]
  BY <1>1 DEF JobsOK
<1>6. job'[t] # Idle
  BY <1>4 DEF Idle
<1>7. (job'[t].ask = NoQuestion) = (job'[t].at = "idle")
  BY <1>4 DEF JobsOK
<1> QED
  BY <1>3, <1>4, <1>5, <1>6, <1>7 DEF JobsOK

\* Every thread in a call sees the block.
LEMMA Watched ==
    ASSUME seen \in [Thread -> SUBSET {"error", "valid", "invalid"}], Watch
    PROVE  /\ seen' \in [Thread -> SUBSET {"error", "valid", "invalid"}]
           /\ \A t \in Thread : job'[t] # Idle =>
                seen'[t] = seen[t] \union {Verify(block')}
<1>1. Verify(block') \in {"error", "valid", "invalid"}
  BY VerifyType
<1> QED
  BY <1>1 DEF Watch

\* What the threads have in hand survives any step of one of them that leaves
\* the hashed contents alone.
LEMMA OthersKeep ==
    ASSUME InHand, NEW t \in Thread,
           \A u \in Thread \ {t} : job'[u] = job[u],
           \A u \in Thread : job'[u] # Idle => seen[u] \subseteq seen'[u],
           block # Empty => block' # Empty /\ Hash(block') = Hash(block)
    PROVE  \A u \in Thread \ {t} : InHandOf(u)'
<1> SUFFICES ASSUME NEW u \in Thread \ {t}, job'[u].at \in Busy
             PROVE  InHandOf(u)'
  BY DEF Busy, InHandOf
<1>1. job'[u] = job[u]
  OBVIOUS
<1>2. block # Empty /\ block' # Empty /\ Hash(block') = Hash(block)
  BY <1>1 DEF InHand, InHandOf
<1>3. seen[u] \subseteq seen'[u]
  <2>1. Idle.at \notin Busy
    BY DEF Idle, Busy
  <2> QED
    BY <2>1
<1>4. \A k : Signature(k, block') = Signature(k, block)
  BY <1>2 DEF Signature
<1> QED
  BY <1>1, <1>2, <1>3, <1>4 DEF InHand, InHandOf

\* A step that moves one thread and leaves the block alone.
LEMMA MoveKeeps ==
    ASSUME Inv, NEW t \in Thread, job[t].at # "idle",
           NEW place \in Place \ {"idle"}, NEW value \in Got, Goto(t, place, value),
           UNCHANGED block, Watch,
           place \in Busy => block # Empty,
           place = "storing" =>
             job[t].ask.op = "sign" /\ value = Signature(job[t].ask.key, block),
           place = "verifying" => job[t].ask.op # "sign",
           place \in {"hashing", "working", "storing work"} =>
             job[t].ask.op = "calculateWork"
               /\ (Verify(block) = "valid" \/ "valid" \in seen[t]),
           place = "working" => value = Hash(block),
           place = "storing work" => value = Work(Hash(block))
    PROVE  Inv'
<1>1. JobsOK
  BY DEF Inv, TypeOK, JobsOK, Job, Got
<1>2. /\ JobsOK'
      /\ \A u \in Thread \ {t} : job'[u] = job[u]
      /\ job'[t] # Idle
      /\ job'[t].ask = job[t].ask /\ job'[t].at = place /\ job'[t].got = value
  BY <1>1, GotoMoves
<1>3. /\ seen' \in [Thread -> SUBSET {"error", "valid", "invalid"}]
      /\ \A u \in Thread : job'[u] # Idle => seen'[u] = seen[u] \union {Verify(block')}
  BY Watched DEF Inv, TypeOK
<1>4. TypeOK'
  BY <1>2, <1>3 DEF Inv, TypeOK, JobsOK, Job, Got
<1>5. InHand'
  <2>1. "valid" \in seen'[t] \/ place \notin {"hashing", "working", "storing work"}
    BY <1>2, <1>3
  <2>2. block # Empty => block' # Empty /\ Hash(block') = Hash(block)
    OBVIOUS
  <2>3. \A u \in Thread : job'[u] # Idle => seen[u] \subseteq seen'[u]
    BY <1>3
  <2>4. \A u \in Thread \ {t} : InHandOf(u)'
    BY <1>2, <2>2, <2>3, OthersKeep DEF Inv
  <2>5. InHandOf(t)'
    BY <1>2, <2>1 DEF InHandOf
  <2> QED
    BY <2>4, <2>5 DEF InHand
<1> QED
  BY <1>4, <1>5 DEF Inv

\* A thread stores its signature or its work, and is done.
LEMMA StoreKeeps ==
    ASSUME Inv, NEW t \in Thread, job[t].at # "idle",
           Goto(t, "done", Null), Watch,
           block \in Full, block' \in Full, Hash(block') = Hash(block)
    PROVE  Inv'
<1>1. JobsOK
  BY DEF Inv, TypeOK, JobsOK, Job, Got
<1>2. "done" \in Place \ {"idle"} /\ Null \in Got
  BY DEF Place, Got
<1>3. /\ JobsOK'
      /\ \A u \in Thread \ {t} : job'[u] = job[u]
      /\ job'[t].at = "done"
  BY <1>1, <1>2, GotoMoves
<1>4. /\ seen' \in [Thread -> SUBSET {"error", "valid", "invalid"}]
      /\ \A u \in Thread : job'[u] # Idle => seen'[u] = seen[u] \union {Verify(block')}
  BY Watched DEF Inv, TypeOK
<1>5. TypeOK'
  BY <1>3, <1>4, ValueTypes DEF TypeOK, JobsOK, Job, Got
<1>6. InHand'
  <2>1. block # Empty /\ block' # Empty
    BY ValueTypes
  <2>2. \A u \in Thread : job'[u] # Idle => seen[u] \subseteq seen'[u]
    BY <1>4
  <2>3. \A u \in Thread \ {t} : InHandOf(u)'
    BY <1>3, <2>1, <2>2, OthersKeep DEF Inv
  <2>4. InHandOf(t)'
    BY <1>3 DEF InHandOf, Busy
  <2> QED
    BY <2>3, <2>4 DEF InHand
<1> QED
  BY <1>5, <1>6 DEF Inv

\* sign has a key.
LEMMA KeyOfSign ==
    ASSUME TypeOK, NEW t \in Thread, job[t].ask.op = "sign"
    PROVE  job[t].ask.key \in Account
<1>1. job[t].ask \in Question \union {NoQuestion}
  BY DEF TypeOK
<1>2. job[t].ask \in [op : {"sign"}, key : Account]
  BY <1>1 DEF Question, NoQuestion
<1> QED
  BY <1>2

\* What a store does to the block.
LEMMA Stored ==
    ASSUME Inv, NEW t \in Thread
    PROVE  /\ StoreSignature(t) =>
                /\ block \in Full /\ job[t].ask.op = "sign" /\ job[t].ask.key \in Account
                /\ block' = [block EXCEPT !.signature = Signature(job[t].ask.key, block)]
                /\ block' \in Full /\ Hash(block') = Hash(block)
                /\ block'.signature = Signature(job[t].ask.key, block')
                /\ block'.account = block.account /\ block'.work = block.work
           /\ StoreWork(t) =>
                /\ block \in Full /\ job[t].ask.op = "calculateWork"
                /\ "valid" \in seen[t]
                /\ block' = [block EXCEPT !.work = Work(Hash(block))]
                /\ block' \in Full /\ Hash(block') = Hash(block)
                /\ block'.work = Work(Hash(block'))
                /\ block'.account = block.account
                /\ block'.signature = block.signature
<1>1. InHandOf(t) /\ block \in Value
  BY DEF Inv, InHand, TypeOK
<1>2. Zeroes \in Signatures /\ NoWork \in Works
  BY DEF Signatures, Works
<1>3. ASSUME StoreSignature(t)
      PROVE  /\ block \in Full /\ job[t].ask.op = "sign" /\ job[t].ask.key \in Account
             /\ block' = [block EXCEPT !.signature = Signature(job[t].ask.key, block)]
             /\ block' \in Full /\ Hash(block') = Hash(block)
             /\ block'.signature = Signature(job[t].ask.key, block')
             /\ block'.account = block.account /\ block'.work = block.work
  <2>1. /\ block # Empty /\ job[t].ask.op = "sign"
        /\ job[t].got = Signature(job[t].ask.key, block)
    BY <1>1, <1>3 DEF StoreSignature, InHandOf, Busy
  <2>2. block \in Full
    BY <1>1, <2>1, ValueTypes
  <2>3. job[t].ask.key \in Account
    BY <2>1, KeyOfSign DEF Inv
  <2>4. Signature(job[t].ask.key, block) \in Signatures
    BY <2>2, <2>3, ValueTypes
  <2>5. block' = [block EXCEPT !.signature = Signature(job[t].ask.key, block)]
    BY <1>3, <2>1 DEF StoreSignature
  <2>6. /\ block' \in Full /\ Hash(block') = Hash(block)
        /\ block'.signature = Signature(job[t].ask.key, block)
    BY <1>2, <2>2, <2>4, <2>5, HashKept
  <2>7. Signature(job[t].ask.key, block') = Signature(job[t].ask.key, block)
    BY <2>6 DEF Signature
  <2>8. block'.account = block.account /\ block'.work = block.work
    BY <2>2, <2>5 DEF Full
  <2> QED
    BY <2>1, <2>2, <2>3, <2>5, <2>6, <2>7, <2>8
<1>4. ASSUME StoreWork(t)
      PROVE  /\ block \in Full /\ job[t].ask.op = "calculateWork"
             /\ "valid" \in seen[t]
             /\ block' = [block EXCEPT !.work = Work(Hash(block))]
             /\ block' \in Full /\ Hash(block') = Hash(block)
             /\ block'.work = Work(Hash(block'))
             /\ block'.account = block.account
             /\ block'.signature = block.signature
  <2>1. /\ block # Empty /\ job[t].ask.op = "calculateWork" /\ "valid" \in seen[t]
        /\ job[t].got = Work(Hash(block))
    BY <1>1, <1>4 DEF StoreWork, InHandOf, Busy
  <2>2. block \in Full
    BY <1>1, <2>1, ValueTypes
  <2>3. Work(Hash(block)) \in Works
    BY <2>2, ValueTypes
  <2>4. block' = [block EXCEPT !.work = Work(Hash(block))]
    BY <1>4, <2>1 DEF StoreWork
  <2>5. /\ block' \in Full /\ Hash(block') = Hash(block)
        /\ block'.work = Work(Hash(block))
    BY <1>2, <2>2, <2>3, <2>4, HashKept
  <2>6. block'.account = block.account /\ block'.signature = block.signature
    BY <2>2, <2>4 DEF Full
  <2> QED
    BY <2>1, <2>2, <2>4, <2>5, <2>6
<1> QED
  BY <1>3, <1>4

\* Before the first call nothing is in hand.
LEMMA InvInit ==
    Init => Inv
<1> SUFFICES ASSUME Init PROVE Inv
  OBVIOUS
<1>1. block \in Value
  BY ValueTypes DEF Init
<1>2. Idle \in Job /\ Idle.at = "idle" /\ Idle.ask = NoQuestion
  BY DEF Idle, Job, Place, Got
<1>3. TypeOK
  BY <1>1, <1>2 DEF Init, TypeOK, Job, Got
<1>4. InHand
  BY <1>2 DEF Init, InHand, InHandOf, Busy
<1> QED
  BY <1>3, <1>4 DEF Inv

\* Every step keeps what the threads have in hand.
LEMMA InvStep ==
    Inv /\ [Next]_vars => Inv'
<1> SUFFICES ASSUME Inv, [Next]_vars PROVE Inv'
  OBVIOUS
<1> USE DEF Place
<1>0. /\ JobsOK
      /\ Null \in Got
      /\ block \in Value
      /\ seen \in [Thread -> SUBSET {"error", "valid", "invalid"}]
  BY DEF Inv, TypeOK, JobsOK, Job, Got
<1>1. ASSUME Edit PROVE Inv'
  <2>1. \A t \in Thread : job[t] = Idle /\ job'[t] = Idle
    BY <1>1 DEF Edit
  <2>2. block' \in Value
    <3>1. CASE block # Empty /\ (\E a \in Account : block' = [block EXCEPT !.account = a])
      BY <3>1, <1>0, ValueTypes DEF Full
    <3>2. CASE block # Empty /\ (\E r \in Rest : block' = [block EXCEPT !.rest = r])
      BY <3>2, <1>0, ValueTypes DEF Full
    <3>3. CASE block # Empty /\ block' = [block EXCEPT !.signature = Scribble]
      <4>1. Scribble \in Signatures
        BY DEF Signatures
      <4> QED
        BY <3>3, <4>1, <1>0, ValueTypes DEF Full
    <3>4. CASE block' \in {Empty} \union {Created(a, r) : a \in Account, r \in Rest}
      BY <3>4, ValueTypes
    <3> QED
      BY <1>1, <3>1, <3>2, <3>3, <3>4 DEF Edit
  <2>3. seen' \in [Thread -> SUBSET {"error", "valid", "invalid"}]
    BY <1>0, <1>1, Watched DEF Edit
  <2>4. TypeOK'
    BY <1>0, <1>1, <2>2, <2>3 DEF Edit, TypeOK, JobsOK, Job, Got
  <2>5. Idle.at \notin Busy /\ Idle.at = "idle"
    BY DEF Idle, Busy
  <2>6. InHand'
    BY <2>1, <2>5 DEF InHand, InHandOf, Busy
  <2> QED
    BY <2>4, <2>6 DEF Inv
<1>2. ASSUME NEW t \in Thread, NEW q \in Question, Ask(t, q) PROVE Inv'
  <2>1. [ask |-> q, at |-> "asked", got |-> Null] \in Job
    BY <1>0 DEF Job
  <2>2. job' \in [Thread -> Job] /\ job'[t] = [ask |-> q, at |-> "asked", got |-> Null]
    BY <1>0, <1>2, <2>1 DEF Ask, JobsOK
  <2>3. \A u \in Thread \ {t} : job'[u] = job[u]
    BY <1>0, <1>2 DEF Ask, JobsOK
  <2>4. q # NoQuestion
    BY DEF Question, NoQuestion
  <2>5. JobsOK'
    BY <1>0, <2>2, <2>3, <2>4 DEF JobsOK
  <2>6. /\ seen' \in [Thread -> SUBSET {"error", "valid", "invalid"}]
        /\ \A u \in Thread : job'[u] # Idle => seen[u] \subseteq seen'[u]
    BY <1>0, <1>2, Watched DEF Ask
  <2>7. TypeOK'
    BY <1>0, <1>2, <2>5, <2>6 DEF Ask, TypeOK, JobsOK, Job, Got
  <2>8. block # Empty => block' # Empty /\ Hash(block') = Hash(block)
    BY <1>2 DEF Ask
  <2>9. \A u \in Thread \ {t} : InHandOf(u)'
    BY <2>3, <2>6, <2>8, OthersKeep DEF Inv
  <2>10. InHandOf(t)'
    BY <2>2 DEF InHandOf, Busy
  <2> QED
    BY <2>7, <2>9, <2>10 DEF Inv, InHand
<1>3. ASSUME NEW t \in Thread, Fail(t) PROVE Inv'
  <2>1. job[t].at # "idle"
    BY <1>3 DEF Fail, At
  <2> QED
    BY <1>0, <1>3, <2>1, MoveKeeps DEF Fail, Busy
<1>4. ASSUME NEW t \in Thread, SignCopy(t) PROVE Inv'
  <2>1. job[t].at # "idle" /\ job[t].ask.op = "sign" /\ block # Empty
    BY <1>4 DEF SignCopy, At
  <2>2. job[t].ask.key \in Account
    BY <2>1, KeyOfSign DEF Inv
  <2>3. Signature(job[t].ask.key, block) \in Got
    BY <1>0, <2>1, <2>2, ValueTypes DEF Got
  <2>4. Goto(t, "storing", Signature(job[t].ask.key, block)) /\ UNCHANGED block /\ Watch
    BY <1>4 DEF SignCopy
  <2> QED
    BY <2>1, <2>3, <2>4, MoveKeeps
<1>5. ASSUME NEW t \in Thread, StoreSignature(t) PROVE Inv'
  <2>1. job[t].at # "idle" /\ Goto(t, "done", Null) /\ Watch
    BY <1>5 DEF StoreSignature
  <2>2. block \in Full /\ block' \in Full /\ Hash(block') = Hash(block)
    BY <1>5, Stored
  <2> QED
    BY <2>1, <2>2, StoreKeeps
<1>6. ASSUME NEW t \in Thread, Look(t) PROVE Inv'
  <2>1. job[t].at # "idle" /\ job[t].ask.op # "sign"
    BY <1>6 DEF Look, At
  <2>2. UNCHANGED block /\ Watch
    BY <1>6 DEF Look
  <2>3. CASE NotSigned(t)
    <3>1. PICK place \in {"thrown", "false"} : Goto(t, place, Null)
      BY <2>3 DEF NotSigned
    <3> QED
      BY <1>0, <2>1, <2>2, <3>1, MoveKeeps DEF Busy
  <2>4. CASE block.signature # Null /\ Goto(t, "verifying", Null)
    <3>1. block # Empty
      BY <2>4 DEF Empty
    <3> QED
      BY <1>0, <2>1, <2>2, <2>4, <3>1, MoveKeeps
  <2> QED
    BY <1>6, <2>3, <2>4 DEF Look
<1>7. ASSUME NEW t \in Thread, VerifySignature(t) PROVE Inv'
  <2>1. job[t].at # "idle" /\ job[t].ask.op # "sign" /\ block # Empty
    BY <1>7 DEF VerifySignature, Inv, InHand, InHandOf, Busy
  <2>2. UNCHANGED block /\ Watch
    BY <1>7 DEF VerifySignature
  <2>3. CASE \E place \in {"thrown", "false", "true"} : Goto(t, place, Null)
    BY <1>0, <2>1, <2>2, <2>3, MoveKeeps DEF Busy
  <2>4. CASE /\ Verify(block) = "valid" /\ job[t].ask.op = "calculateWork"
             /\ Goto(t, "hashing", Null)
    BY <1>0, <2>1, <2>2, <2>4, MoveKeeps
  <2> QED
    BY <1>7, <2>3, <2>4 DEF VerifySignature, NotSigned
<1>8. ASSUME NEW t \in Thread, HashBlock(t) PROVE Inv'
  <2>1. /\ job[t].at # "idle" /\ job[t].ask.op = "calculateWork"
        /\ block # Empty /\ "valid" \in seen[t]
    BY <1>8 DEF HashBlock, Inv, InHand, InHandOf, Busy
  <2>2. Hash(block) \in Got
    <3>1. Zeroes \in Signatures /\ NoWork \in Works
      BY DEF Signatures, Works
    <3> QED
      BY <1>0, <2>1, <3>1, ValueTypes, HashKept DEF Got
  <2>3. Goto(t, "working", Hash(block)) /\ UNCHANGED block /\ Watch
    BY <1>8 DEF HashBlock
  <2> QED
    BY <2>1, <2>2, <2>3, MoveKeeps
<1>9. ASSUME NEW t \in Thread, FindWork(t) PROVE Inv'
  <2>1. /\ job[t].at # "idle" /\ job[t].ask.op = "calculateWork"
        /\ block # Empty /\ "valid" \in seen[t] /\ job[t].got = Hash(block)
    BY <1>9 DEF FindWork, Inv, InHand, InHandOf, Busy
  <2>2. Work(Hash(block)) \in Got
    BY <1>0, <2>1, ValueTypes DEF Got
  <2>3. Goto(t, "storing work", Work(Hash(block))) /\ UNCHANGED block /\ Watch
    BY <1>9, <2>1 DEF FindWork
  <2> QED
    BY <2>1, <2>2, <2>3, MoveKeeps
<1>10. ASSUME NEW t \in Thread, StoreWork(t) PROVE Inv'
  <2>1. job[t].at # "idle" /\ Goto(t, "done", Null) /\ Watch
    BY <1>10 DEF StoreWork
  <2>2. block \in Full /\ block' \in Full /\ Hash(block') = Hash(block)
    BY <1>10, Stored
  <2> QED
    BY <2>1, <2>2, StoreKeeps
<1>11. ASSUME NEW t \in Thread, Finish(t) PROVE Inv'
  <2>1. Idle \in Job /\ Idle.at = "idle" /\ Idle.ask = NoQuestion
    BY <1>0 DEF Idle, Job
  <2>2. job' \in [Thread -> Job] /\ job'[t] = Idle
    BY <1>0, <1>11, <2>1 DEF Finish, JobsOK
  <2>3. \A u \in Thread \ {t} : job'[u] = job[u]
    BY <1>0, <1>11 DEF Finish, JobsOK
  <2>4. JobsOK'
    BY <1>0, <2>1, <2>2, <2>3 DEF JobsOK
  <2>5. /\ seen' \in [Thread -> SUBSET {"error", "valid", "invalid"}]
        /\ \A u \in Thread : job'[u] # Idle => seen[u] \subseteq seen'[u]
    BY <1>0, <1>11, Watched DEF Finish
  <2>6. TypeOK'
    BY <1>0, <1>11, <2>4, <2>5 DEF Finish, TypeOK, JobsOK, Job, Got
  <2>7. block # Empty => block' # Empty /\ Hash(block') = Hash(block)
    BY <1>11 DEF Finish
  <2>8. \A u \in Thread \ {t} : InHandOf(u)'
    BY <2>3, <2>5, <2>7, OthersKeep DEF Inv
  <2>9. InHandOf(t)'
    BY <2>1, <2>2 DEF InHandOf, Busy
  <2> QED
    BY <2>6, <2>8, <2>9 DEF Inv, InHand
<1>12. ASSUME UNCHANGED vars PROVE Inv'
  BY <1>12 DEF vars, Inv, TypeOK, InHand, InHandOf
<1> QED
  BY <1>1, <1>2, <1>3, <1>4, <1>5, <1>6, <1>7, <1>8, <1>9, <1>10, <1>11, <1>12 DEF Next

----------------------------------------------------------------------------
(* What follows.                                                           *)

\* The threads stay at places of the methods of NanoBlock, and the object has all
\* its arrays or none.
THEOREM BlockTypeCorrect ==
    Spec => []TypeOK
<1>1. Inv => TypeOK
  BY DEF Inv
<1> QED
  BY <1>1, InvInit, InvStep, PTL DEF Spec

\* calculateWork stores work for what the block is when it stores it, and only if
\* the signature of the block was valid at some moment of the call.
THEOREM WorkIsOfSigned ==
    Spec => WorkOfSigned
<1>1. ASSUME Inv, [Next]_vars, block'.work \notin {block.work, NoWork}
      PROVE  /\ block'.work = Work(Hash(block'))
             /\ \E t \in Thread :
                  At(t, "storing work", "calculateWork") /\ "valid" \in seen[t]
  <2>1. \E t \in Thread : StoreWork(t)
    <3>1. \/ UNCHANGED block
          \/ Edit
          \/ \E t \in Thread : StoreSignature(t)
          \/ \E t \in Thread : StoreWork(t)
      BY <1>1 DEF Next, vars, Ask, Fail, SignCopy, Look, VerifySignature, HashBlock,
                  FindWork, Finish
    <3>2. ASSUME Edit PROVE FALSE
      <4>1. block # Empty => block \in Full
        BY <1>1, ValueTypes DEF Inv, TypeOK
      <4>2. CASE block' \in {Empty} \union {Created(a, r) : a \in Account, r \in Rest}
        BY <1>1, <4>2 DEF Empty, Created
      <4>3. CASE block # Empty /\ block'.work = block.work
        BY <1>1, <4>3
      <4> QED
        BY <3>2, <4>1, <4>2, <4>3 DEF Edit, Full
    <3>3. ASSUME NEW t \in Thread, StoreSignature(t) PROVE FALSE
      BY <1>1, <3>3, Stored
    <3> QED
      BY <1>1, <3>1, <3>2, <3>3
  <2>2. PICK t \in Thread : StoreWork(t)
    BY <2>1
  <2>3. job[t].ask.op = "calculateWork" /\ "valid" \in seen[t]
        /\ block'.work = Work(Hash(block'))
    BY <1>1, <2>2, Stored
  <2>4. job[t].at = "storing work"
    BY <2>2 DEF StoreWork
  <2> QED
    BY <2>3, <2>4 DEF At
<1>2. Inv /\ [Next]_vars =>
        [block'.work \notin {block.work, NoWork} =>
           /\ block'.work = Work(Hash(block'))
           /\ \E t \in Thread :
                At(t, "storing work", "calculateWork") /\ "valid" \in seen[t]]_vars
  BY <1>1
<1> QED
  BY <1>2, InvInit, InvStep, PTL DEF Spec, WorkOfSigned

\* No call but sign with the key of another account spoils a valid signature.
THEOREM SignatureStays ==
    Spec => SignedStaysSigned
<1>1. ASSUME Inv, [Next]_vars, Verify(block) = "valid", Verify(block') # "valid"
      PROVE  \/ \A t \in Thread : job[t] = Idle
             \/ \E t \in Thread :
                  /\ At(t, "storing", "sign") /\ job'[t].at = "done"
                  /\ job[t].ask.key # block.account
  <2>1. \/ Edit
        \/ \E t \in Thread : StoreSignature(t)
        \/ \E t \in Thread : StoreWork(t)
    BY <1>1 DEF Next, vars, Ask, Fail, SignCopy, Look, VerifySignature, HashBlock,
                FindWork, Finish
  <2>2. ASSUME Edit PROVE \A t \in Thread : job[t] = Idle
    BY <2>2 DEF Edit
  <2>3. ASSUME NEW t \in Thread, StoreSignature(t)
        PROVE  /\ At(t, "storing", "sign") /\ job'[t].at = "done"
               /\ job[t].ask.key # block.account
    <3>1. /\ job[t].ask.op = "sign"
          /\ block'.signature = Signature(job[t].ask.key, block')
          /\ block'.account = block.account
      BY <1>1, <2>3, Stored
    <3>2. job[t].ask.key # block.account
      <4>1. Zeroes # Signature(block.account, block')
        BY NullIsNoSignature
      <4> QED
        BY <1>1, <3>1, <4>1 DEF Verify
    <3>3. job[t].at = "storing" /\ job'[t].at = "done"
      BY <1>1, <2>3 DEF StoreSignature, Goto, Inv, TypeOK
    <3> QED
      BY <3>1, <3>2, <3>3 DEF At
  <2>4. ASSUME NEW t \in Thread, StoreWork(t) PROVE FALSE
    <3>1. /\ Hash(block') = Hash(block) /\ block'.account = block.account
          /\ block'.signature = block.signature
      BY <1>1, <2>4, Stored
    <3>2. Signature(block'.account, block') = Signature(block.account, block)
      BY <3>1 DEF Signature
    <3> QED
      BY <1>1, <3>1, <3>2 DEF Verify
  <2> QED
    BY <2>1, <2>2, <2>3, <2>4
<1>2. Inv /\ [Next]_vars =>
        [Verify(block) = "valid" /\ Verify(block') # "valid" =>
           \/ \A t \in Thread : job[t] = Idle
           \/ \E t \in Thread :
                /\ At(t, "storing", "sign") /\ job'[t].at = "done"
                /\ job[t].ask.key # block.account]_vars
  BY <1>1
<1> QED
  BY <1>2, InvInit, InvStep, PTL DEF Spec, SignedStaysSigned

----------------------------------------------------------------------------
(* What a thread is told.                                                  *)

\* What thread t is told was the case at some moment of its call: a block that is
\* signed was, one that is not was not, and work was for a block that was.
ToldTrue(t) ==
    /\ job[t].at = "true" => job[t].ask.op = "isBlockSigned" /\ "valid" \in seen[t]
    /\ job[t].at = "false" =>
         job[t].ask.op = "isBlockSigned" /\ seen[t] \intersect {"error", "invalid"} # {}
    /\ job[t].at = "done" /\ job[t].ask.op = "calculateWork" => "valid" \in seen[t]

AllToldTrue == \A t \in Thread : ToldTrue(t)

\* A thread that goes on in its call is the only one that is told anything.
LEMMA ToldByMove ==
    ASSUME Inv, AllToldTrue, NEW t \in Thread, job[t].at # "idle",
           NEW place \in Place \ {"idle"}, NEW value \in Got, Goto(t, place, value), Watch,
           place = "true" => job[t].ask.op = "isBlockSigned" /\ Verify(block') = "valid",
           place = "false" => job[t].ask.op = "isBlockSigned" /\ Verify(block') # "valid",
           place = "done" /\ job[t].ask.op = "calculateWork" => "valid" \in seen[t]
    PROVE  AllToldTrue'
<1>1. JobsOK /\ seen \in [Thread -> SUBSET {"error", "valid", "invalid"}]
  BY DEF Inv, TypeOK, JobsOK, Job, Got
<1>2. /\ JobsOK'
      /\ \A u \in Thread \ {t} : job'[u] = job[u]
      /\ job'[t] # Idle /\ job'[t].ask = job[t].ask /\ job'[t].at = place
  BY <1>1, GotoMoves
<1>3. \A u \in Thread : job'[u] # Idle => seen'[u] = seen[u] \union {Verify(block')}
  BY <1>1, Watched
<1>4. ToldTrue(t)'
  BY <1>2, <1>3, VerifyType DEF ToldTrue
<1>5. ASSUME NEW u \in Thread \ {t} PROVE ToldTrue(u)'
  <2>1. job'[u] = job[u] /\ ToldTrue(u)
    BY <1>2 DEF AllToldTrue
  <2>2. CASE job[u] = Idle
    BY <2>1, <2>2 DEF ToldTrue, Idle
  <2>3. CASE job[u] # Idle
    BY <1>3, <2>1, <2>3 DEF ToldTrue
  <2> QED
    BY <2>2, <2>3
<1> QED
  BY <1>4, <1>5 DEF AllToldTrue

LEMMA ToldStep ==
    Inv /\ AllToldTrue /\ [Next]_vars => AllToldTrue'
<1> SUFFICES ASSUME Inv, AllToldTrue, [Next]_vars PROVE AllToldTrue'
  OBVIOUS
<1> USE DEF Place
<1>0. /\ JobsOK /\ Null \in Got
      /\ seen \in [Thread -> SUBSET {"error", "valid", "invalid"}]
  BY DEF Inv, TypeOK, JobsOK, Job, Got
<1>1. ASSUME Edit PROVE AllToldTrue'
  BY <1>1 DEF Edit, AllToldTrue, ToldTrue, Idle
<1>2. ASSUME NEW t \in Thread, NEW q \in Question, Ask(t, q) \/ Finish(t)
      PROVE  AllToldTrue'
  <2>1. /\ job'[t].at \in {"asked", "idle"}
        /\ \A u \in Thread \ {t} : job'[u] = job[u]
    BY <1>0, <1>2 DEF Ask, Finish, Idle, JobsOK
  <2>2. \A u \in Thread : job'[u] # Idle => seen'[u] = seen[u] \union {Verify(block')}
    BY <1>0, <1>2, Watched DEF Ask, Finish
  <2>3. \A u \in Thread \ {t} : job'[u] = Idle => ToldTrue(u)'
    BY DEF ToldTrue, Idle
  <2>4. \A u \in Thread \ {t} : job'[u] # Idle => ToldTrue(u)'
    BY <2>1, <2>2 DEF AllToldTrue, ToldTrue
  <2>5. ToldTrue(t)'
    BY <2>1 DEF ToldTrue
  <2> QED
    BY <2>3, <2>4, <2>5 DEF AllToldTrue
<1>3. ASSUME NEW t \in Thread, Fail(t) PROVE AllToldTrue'
  <2>1. job[t].at # "idle" /\ Goto(t, "thrown", Null) /\ Watch
    BY <1>3 DEF Fail, At
  <2> QED
    BY <1>0, <2>1, ToldByMove
<1>4. ASSUME NEW t \in Thread, SignCopy(t) PROVE AllToldTrue'
  <2>1. job[t].at # "idle" /\ job[t].ask.op = "sign" /\ block # Empty /\ block \in Value
    BY <1>4 DEF SignCopy, At, Inv, TypeOK
  <2>2. Signature(job[t].ask.key, block) \in Got
    BY <2>1, KeyOfSign, ValueTypes DEF Got, Inv
  <2>3. Goto(t, "storing", Signature(job[t].ask.key, block)) /\ Watch
    BY <1>4 DEF SignCopy
  <2> QED
    BY <2>1, <2>2, <2>3, ToldByMove
<1>5. ASSUME NEW t \in Thread, StoreSignature(t) PROVE AllToldTrue'
  <2>1. job[t].at # "idle" /\ Goto(t, "done", Null) /\ Watch
    BY <1>5 DEF StoreSignature
  <2>2. job[t].ask.op # "calculateWork"
    BY <1>5, Stored
  <2> QED
    BY <1>0, <2>1, <2>2, ToldByMove
<1>6. ASSUME NEW t \in Thread, Look(t) PROVE AllToldTrue'
  <2>1. /\ job[t].at # "idle" /\ UNCHANGED block /\ Watch
        /\ job[t].ask.op \in {"isBlockSigned", "calculateWork"}
    BY <1>6 DEF Look, At
  <2>2. CASE block.signature = Null /\ NotSigned(t)
    <3>1. Verify(block') # "valid"
      BY <2>1, <2>2, NullIsNoSignature DEF Verify
    <3>2. PICK place \in {"thrown", "false"} :
            /\ Goto(t, place, Null)
            /\ place = "false" => job[t].ask.op = "isBlockSigned"
      BY <2>1, <2>2 DEF NotSigned
    <3> QED
      BY <1>0, <2>1, <3>1, <3>2, ToldByMove
  <2>3. CASE Goto(t, "verifying", Null)
    BY <1>0, <2>1, <2>3, ToldByMove
  <2> QED
    BY <1>6, <2>2, <2>3 DEF Look
<1>7. ASSUME NEW t \in Thread, VerifySignature(t) PROVE AllToldTrue'
  <2>1. job[t].at # "idle" /\ job[t].ask.op # "sign"
    BY <1>7 DEF VerifySignature, Inv, InHand, InHandOf
  <2>2. UNCHANGED block /\ Watch
    BY <1>7 DEF VerifySignature
  <2>3. job[t].ask.op \in {"isBlockSigned", "calculateWork"}
    <3>1. job[t].ask \in Question
      BY <1>0, <2>1 DEF JobsOK, Job, NoQuestion
    <3> QED
      BY <2>1, <3>1 DEF Question
  <2>4. PICK place \in {"thrown", "false", "true", "hashing"} :
          /\ Goto(t, place, Null)
          /\ place = "true" => job[t].ask.op = "isBlockSigned" /\ Verify(block) = "valid"
          /\ place = "false" => job[t].ask.op = "isBlockSigned" /\ Verify(block) # "valid"
    BY <1>7, <2>3 DEF VerifySignature, NotSigned
  <2>5. Verify(block') = Verify(block)
    BY <2>2
  <2> QED
    BY <1>0, <2>1, <2>2, <2>4, <2>5, ToldByMove
<1>8. ASSUME NEW t \in Thread, HashBlock(t) PROVE AllToldTrue'
  <2>1. job[t].at # "idle" /\ block # Empty /\ block \in Value
    BY <1>8 DEF HashBlock, Inv, TypeOK, InHand, InHandOf, Busy
  <2>2. Hash(block) \in Got
    <3>1. Zeroes \in Signatures /\ NoWork \in Works
      BY DEF Signatures, Works
    <3> QED
      BY <2>1, <3>1, ValueTypes, HashKept DEF Got
  <2>3. Goto(t, "working", Hash(block)) /\ Watch
    BY <1>8 DEF HashBlock
  <2> QED
    BY <2>1, <2>2, <2>3, ToldByMove
<1>9. ASSUME NEW t \in Thread, FindWork(t) PROVE AllToldTrue'
  <2>1. /\ job[t].at # "idle" /\ block # Empty /\ block \in Value
        /\ job[t].got = Hash(block)
    BY <1>9 DEF FindWork, Inv, TypeOK, InHand, InHandOf, Busy
  <2>2. Work(Hash(block)) \in Got
    BY <2>1, ValueTypes DEF Got
  <2>3. Goto(t, "storing work", Work(Hash(block))) /\ Watch
    BY <1>9, <2>1 DEF FindWork
  <2> QED
    BY <2>1, <2>2, <2>3, ToldByMove
<1>10. ASSUME NEW t \in Thread, StoreWork(t) PROVE AllToldTrue'
  <2>1. job[t].at # "idle" /\ Goto(t, "done", Null) /\ Watch
    BY <1>10 DEF StoreWork
  <2>2. "valid" \in seen[t]
    BY <1>10, Stored
  <2> QED
    BY <1>0, <2>1, <2>2, ToldByMove
<1>11. ASSUME UNCHANGED vars PROVE AllToldTrue'
  BY <1>11 DEF vars, AllToldTrue, ToldTrue
<1>12. ASSUME NEW t \in Thread, Finish(t) PROVE AllToldTrue'
  <2>1. [op |-> "isBlockSigned"] \in Question
    BY DEF Question
  <2> QED
    BY <1>2, <1>12, <2>1
<1> QED
  BY <1>1, <1>2, <1>3, <1>4, <1>5, <1>6, <1>7, <1>8, <1>9, <1>10, <1>11, <1>12 DEF Next

\* isBlockSigned answers what was the case at some moment of the call, and
\* calculateWork gives back work only for a block whose signature was valid then,
\* whatever other threads did to the signature meanwhile.
THEOREM AnswersWereTrue ==
    Spec => [](\A t \in Thread : ToldTrue(t))
<1>1. Init => AllToldTrue
  BY DEF Init, Idle, AllToldTrue, ToldTrue
<1>2. AllToldTrue => \A t \in Thread : ToldTrue(t)
  BY DEF AllToldTrue
<1> QED
  BY <1>1, <1>2, ToldStep, InvInit, InvStep, PTL DEF Spec

\* The signature sign stores, made of a copy of the block, is of the block it is
\* stored in, and a valid one if the key is that of the block's account.
THEOREM StoredSignatureFits ==
    Spec => [][\A t \in Thread : StoreSignature(t) =>
                 /\ block'.signature = Signature(job[t].ask.key, block')
                 /\ (job[t].ask.key = block'.account <=> Verify(block') = "valid")]_vars
<1>1. ASSUME Inv, NEW t \in Thread, StoreSignature(t)
      PROVE  /\ block'.signature = Signature(job[t].ask.key, block')
             /\ (job[t].ask.key = block'.account <=> Verify(block') = "valid")
  <2>1. block'.signature = Signature(job[t].ask.key, block')
    BY <1>1, Stored
  <2>2. Zeroes # Signature(job[t].ask.key, block')
    BY NullIsNoSignature
  <2>3. Signature(job[t].ask.key, block') = Signature(block'.account, block')
          <=> job[t].ask.key = block'.account
    BY DEF Signature
  <2> QED
    BY <2>1, <2>2, <2>3 DEF Verify
<1>2. Inv /\ [Next]_vars =>
        [\A t \in Thread : StoreSignature(t) =>
           /\ block'.signature = Signature(job[t].ask.key, block')
           /\ (job[t].ask.key = block'.account <=> Verify(block') = "valid")]_vars
  BY <1>1
<1> QED
  BY <1>2, InvInit, InvStep, PTL DEF Spec

----------------------------------------------------------------------------
(* The contract.                                                           *)

Asked == [t \in Thread |-> job[t].ask]

Replies == [t \in Thread |-> Reply(t)]

\* A thread that goes on in its call changes its own reply at most.
LEMMA GotoReplies ==
    ASSUME JobsOK, NEW t \in Thread, job[t].at # "idle",
           NEW place \in Place \ {"idle"}, NEW value \in Got, Goto(t, place, value)
    PROVE  /\ Asked' = Asked
           /\ place \in Answered => Replies' = [Replies EXCEPT ![t] = place]
           /\ place \in {"hashing", "working", "storing work"} =>
                Replies' = [Replies EXCEPT ![t] = "passed"]
           /\ place \in {"storing", "verifying"} =>
                Replies' = [Replies EXCEPT ![t] = "pending"]
<1>1. /\ \A u \in Thread \ {t} : job'[u] = job[u]
      /\ job'[t].ask = job[t].ask /\ job'[t].at = place
  BY GotoMoves
<1>2. Asked' = Asked
  BY <1>1 DEF Asked
<1>3. \A u \in Thread \ {t} : Reply(u)' = Reply(u)
  BY <1>1 DEF Reply
<1>4. /\ place \in Answered => Reply(t)' = place
      /\ place \in {"hashing", "working", "storing work"} => Reply(t)' = "passed"
      /\ place \in {"storing", "verifying"} => Reply(t)' = "pending"
  BY <1>1 DEF Reply, Answered
<1>5. \A r : Reply(t)' = r => Replies' = [Replies EXCEPT ![t] = r]
  BY <1>3 DEF Replies
<1> QED
  BY <1>2, <1>4, <1>5

\* Where a thread is tells its reply.
LEMMA ReplyAt ==
    ASSUME NEW t \in Thread
    PROVE  /\ Asked[t] = job[t].ask
           /\ job[t].at \in {"idle", "asked", "storing", "verifying"} => Replies[t] = "pending"
           /\ job[t].at \in {"hashing", "working", "storing work"} => Replies[t] = "passed"
           /\ job[t].at \in Answered => Replies[t] = job[t].at
  BY DEF Asked, Replies, Reply, Answered

\* Nobody has called anything yet.
LEMMA ContractInit ==
    Init => Contract!Init
<1> SUFFICES ASSUME Init PROVE Contract!Init
  OBVIOUS
<1>1. block \in Value
  BY ValueTypes DEF Init
<1>2. Idle.at = "idle" /\ Idle.ask = NoQuestion
  BY DEF Idle
<1>3. Asked = [t \in Thread |-> NoQuestion]
  BY <1>2 DEF Init, Asked
<1>4. \A t \in Thread : Reply(t) = "pending"
  BY <1>2 DEF Init, Reply, Answered
<1>5. Replies = [t \in Thread |-> "pending"]
  BY <1>4 DEF Replies
<1> QED
  BY <1>1, <1>3, <1>5 DEF Contract!Init, Contract!Nobody, NoQuestion, Asked, Replies

\* The contract's blocks are those of NanoBlock.
LEMMA SameValues ==
    /\ \A b : Contract!Hash(b) = Hash(b) /\ Contract!Verify(b) = Verify(b)
    /\ \A h : Contract!Work(h) = Work(h)
    /\ \A k, b : Contract!Signature(k, b) = Signature(k, b)
<1>1. \A b : Contract!Hash(b) = Hash(b)
  BY DEF Contract!Hash, Hash, Contract!NotHashed, NotHashed
<1>2. \A k, b : Contract!Signature(k, b) = Signature(k, b)
  BY <1>1 DEF Contract!Signature, Signature
<1>3. \A b : Contract!Verify(b) = Verify(b)
  BY <1>2 DEF Contract!Verify, Verify, Contract!Zeroes, Zeroes
<1>4. \A h : Contract!Work(h) = Work(h)
  BY DEF Contract!Work, Work
<1> QED
  BY <1>1, <1>2, <1>3, <1>4

\* Verifying, a thread answers at that moment.
LEMMA VerifyIsAnswer ==
    ASSUME Inv, NEW t \in Thread, job[t].at \in {"asked", "verifying"},
           job[t].ask.op # "sign", UNCHANGED block,
           NEW place \in {"thrown", "true", "false", "hashing"}, Goto(t, place, Null),
           place = "true" => job[t].ask.op = "isBlockSigned" /\ Verify(block) = "valid",
           place = "false" => job[t].ask.op = "isBlockSigned" /\ Verify(block) # "valid",
           place = "hashing" => job[t].ask.op = "calculateWork" /\ Verify(block) = "valid"
    PROVE  Contract!Next
<1>1. /\ JobsOK /\ job[t].at # "idle" /\ Null \in Got
      /\ place \in Place \ {"idle"}
  BY DEF Inv, TypeOK, JobsOK, Job, Got, Place
<1>2. /\ Asked' = Asked
      /\ place \in {"thrown", "true", "false"} => Replies' = [Replies EXCEPT ![t] = place]
      /\ place = "hashing" => Replies' = [Replies EXCEPT ![t] = "passed"]
  BY <1>1, GotoReplies DEF Answered
<1>3. Asked[t] = job[t].ask /\ Replies[t] = "pending" /\ job[t].ask # NoQuestion
  BY <1>1, ReplyAt DEF JobsOK
<1>4. CASE place = "thrown"
  <2>1. Contract!Throw(t)
    BY <1>2, <1>3, <1>4
       DEF Contract!Throw, Contract!Answer, Contract!Nobody, NoQuestion, Asked, Replies
  <2> QED
    BY <2>1 DEF Contract!Next
<1>5. CASE place \in {"true", "false"}
  <2>1. place = (IF Verify(block) = "valid" THEN "true" ELSE "false")
    BY <1>5
  <2>2. Contract!Tell(t)
    BY <1>2, <1>3, <1>5, <2>1, SameValues
       DEF Contract!Tell, Contract!Answer, Contract!Waiting, Asked, Replies
  <2> QED
    BY <2>2 DEF Contract!Next
<1>6. CASE place = "hashing"
  <2>1. Contract!Pass(t)
    BY <1>2, <1>3, <1>6, SameValues
       DEF Contract!Pass, Contract!Answer, Contract!Waiting, Asked, Replies
  <2> QED
    BY <2>1 DEF Contract!Next
<1> QED
  BY <1>4, <1>5, <1>6

\* Every step is a step of the contract, or none.
LEMMA ContractStep ==
    ASSUME Inv, Inv', [Next]_vars
    PROVE  [Contract!Next]_(Contract!vars)
<1>0. /\ JobsOK /\ Null \in Got
      /\ block \in Value /\ block' \in Value
  BY DEF Inv, TypeOK, JobsOK, Job, Got
<1>a. ASSUME Asked' = Asked, Replies' = Replies, UNCHANGED block
      PROVE  UNCHANGED Contract!vars
  BY <1>a DEF Contract!vars, Asked, Replies
<1>b. ASSUME NEW t \in Thread, job[t].at \in {"hashing", "working", "storing work"},
             NEW place \in {"hashing", "working", "storing work"}, NEW value \in Got,
             Goto(t, place, value), UNCHANGED block
      PROVE  UNCHANGED Contract!vars
  <2>1. Asked' = Asked /\ Replies' = [Replies EXCEPT ![t] = "passed"]
    BY <1>0, <1>b, GotoReplies DEF Place
  <2>2. Replies[t] = "passed"
    BY <1>b, ReplyAt
  <2>3. Replies' = Replies
    BY <2>1, <2>2 DEF Replies
  <2> QED
    BY <1>a, <1>b, <2>1, <2>3
<1>c. ASSUME NEW t \in Thread, job[t].at \in {"asked", "storing", "verifying"},
             NEW place \in {"storing", "verifying"}, NEW value \in Got,
             Goto(t, place, value), UNCHANGED block
      PROVE  UNCHANGED Contract!vars
  <2>1. Asked' = Asked /\ Replies' = [Replies EXCEPT ![t] = "pending"]
    BY <1>0, <1>c, GotoReplies DEF Place
  <2>2. Replies[t] = "pending"
    BY <1>c, ReplyAt
  <2>3. Replies' = Replies
    BY <2>1, <2>2 DEF Replies
  <2> QED
    BY <1>a, <1>c, <2>1, <2>3
<1>1. ASSUME Edit PROVE Contract!Next
  <2>1. \A t \in Thread : Asked[t] = NoQuestion
    <3>1. Idle.ask = NoQuestion
      BY DEF Idle
    <3> QED
      BY <1>1, <3>1 DEF Edit, Asked
  <2>2. Asked' = Asked /\ Replies' = Replies
    BY <1>1 DEF Edit, Asked, Replies, Reply
  <2>3. Contract!Change
    BY <1>0, <2>1, <2>2 DEF Contract!Change, Contract!Nobody, NoQuestion, Asked, Replies
  <2> QED
    BY <2>3 DEF Contract!Next
<1>2. ASSUME NEW t \in Thread, NEW q \in Question, Ask(t, q) PROVE Contract!Next
  <2>1. Idle.ask = NoQuestion /\ Idle.at = "idle"
    BY DEF Idle
  <2>2. job' = [job EXCEPT ![t] = [ask |-> q, at |-> "asked", got |-> Null]]
        /\ job[t] = Idle /\ block' = block
    BY <1>2 DEF Ask
  <2>3. /\ \A u \in Thread \ {t} : job'[u] = job[u]
        /\ job'[t] = [ask |-> q, at |-> "asked", got |-> Null]
    BY <1>0, <2>2 DEF JobsOK
  <2>4. Asked' = [Asked EXCEPT ![t] = q] /\ Asked[t] = NoQuestion
    <3>1. job'[t].ask = q
      BY <2>3
    <3>2. Asked' = [Asked EXCEPT ![t] = q]
      BY <2>3, <3>1 DEF Asked
    <3> QED
      BY <2>1, <2>2, <3>2 DEF Asked
  <2>5. \A u \in Thread : Reply(u)' = Reply(u)
    <3>1. job'[t].at = "asked" /\ job[t].at = "idle"
      BY <2>1, <2>2, <2>3
    <3>2. Reply(t)' = "pending" /\ Reply(t) = "pending"
      BY <3>1 DEF Reply, Answered
    <3>3. \A u \in Thread \ {t} : Reply(u)' = Reply(u)
      BY <2>3 DEF Reply
    <3> QED
      BY <3>2, <3>3
  <2>6. Replies' = Replies
    BY <2>5 DEF Replies
  <2>7. Contract!Ask(t, q)
    BY <2>2, <2>4, <2>6 DEF Contract!Ask, Contract!Nobody, NoQuestion, Asked, Replies
  <2> QED
    BY <2>7 DEF Contract!Next
<1>3. ASSUME NEW t \in Thread, Fail(t) PROVE Contract!Next
  <2>1. /\ job[t].at \in {"asked", "storing", "verifying", "hashing", "working"}
        /\ Goto(t, "thrown", Null) /\ block' = block
    BY <1>3 DEF Fail, At
  <2>2. Asked' = Asked /\ Replies' = [Replies EXCEPT ![t] = "thrown"]
    BY <1>0, <2>1, GotoReplies DEF Place, Answered
  <2>3. /\ Replies[t] \in {"pending", "passed"}
        /\ Asked[t] # NoQuestion
    BY <1>0, <2>1, ReplyAt DEF JobsOK
  <2>4. Contract!Throw(t)
    BY <2>1, <2>2, <2>3
       DEF Contract!Throw, Contract!Answer, Contract!Nobody, NoQuestion, Asked, Replies
  <2> QED
    BY <2>4 DEF Contract!Next
<1>4. ASSUME NEW t \in Thread, SignCopy(t) PROVE UNCHANGED Contract!vars
  <2>1. /\ job[t].at = "asked" /\ job[t].ask.op = "sign" /\ block \in Full
        /\ Goto(t, "storing", Signature(job[t].ask.key, block)) /\ block' = block
    BY <1>0, <1>4, ValueTypes DEF SignCopy, At
  <2>2. Signature(job[t].ask.key, block) \in Got
    BY <2>1, KeyOfSign, ValueTypes DEF Inv, Got
  <2> QED
    BY <2>1, <2>2, <1>c
<1>5. ASSUME NEW t \in Thread, StoreSignature(t) PROVE Contract!Next
  <2>1. job[t].at = "storing" /\ Goto(t, "done", Null)
    BY <1>5 DEF StoreSignature
  <2>2. /\ job[t].ask.op = "sign"
        /\ block' = [block EXCEPT !.signature = Signature(job[t].ask.key, block)]
    BY <1>5, Stored
  <2>3. Asked' = Asked /\ Replies' = [Replies EXCEPT ![t] = "done"]
    BY <1>0, <2>1, GotoReplies DEF Place, Answered
  <2>4. Replies[t] = "pending" /\ Asked[t] = job[t].ask
    BY <2>1, ReplyAt
  <2>5. Contract!Sign(t)
    BY <2>2, <2>3, <2>4, SameValues
       DEF Contract!Sign, Contract!Answer, Contract!Waiting, Asked, Replies
  <2> QED
    BY <2>5 DEF Contract!Next
<1>6. ASSUME NEW t \in Thread, Look(t) PROVE Contract!Next \/ UNCHANGED Contract!vars
  <2>1. /\ job[t].at = "asked"
        /\ job[t].ask.op \in {"isBlockSigned", "calculateWork"} /\ block' = block
    BY <1>6 DEF Look, At
  <2>2. CASE block.signature = Null /\ NotSigned(t)
    <3>1. Verify(block) # "valid"
      BY <2>2, NullIsNoSignature DEF Verify
    <3> QED
      BY <2>1, <2>2, <3>1, VerifyIsAnswer DEF NotSigned
  <2>3. CASE Goto(t, "verifying", Null)
    BY <1>0, <1>c, <2>1, <2>3
  <2> QED
    BY <1>6, <2>2, <2>3 DEF Look
<1>7. ASSUME NEW t \in Thread, VerifySignature(t) PROVE Contract!Next
  <2>1. /\ job[t].at = "verifying" /\ block' = block
        /\ job[t].ask.op \in {"isBlockSigned", "calculateWork"}
    <3>1. job[t].at = "verifying" /\ block' = block
      BY <1>7 DEF VerifySignature
    <3>2. job[t].ask.op # "sign" /\ job[t].ask # NoQuestion
      BY <1>0, <3>1 DEF Inv, InHand, InHandOf, JobsOK
    <3>3. job[t].ask \in Question \union {NoQuestion}
      BY DEF Inv, TypeOK
    <3> QED
      BY <3>1, <3>2, <3>3 DEF Question
  <2>2. CASE Verify(block) = "error" /\ Goto(t, "thrown", Null)
    BY <2>1, <2>2, VerifyIsAnswer
  <2>3. CASE Verify(block) = "invalid" /\ NotSigned(t)
    BY <2>1, <2>3, VerifyIsAnswer DEF NotSigned
  <2>4. CASE /\ Verify(block) = "valid"
             /\ Goto(t, IF job[t].ask.op = "calculateWork" THEN "hashing" ELSE "true", Null)
    BY <2>1, <2>4, VerifyIsAnswer
  <2> QED
    BY <1>7, <2>2, <2>3, <2>4 DEF VerifySignature
<1>8. ASSUME NEW t \in Thread, HashBlock(t) PROVE UNCHANGED Contract!vars
  <2>1. /\ job[t].at = "hashing" /\ block' = block /\ block # Empty
        /\ Goto(t, "working", Hash(block))
    BY <1>8 DEF HashBlock, Inv, InHand, InHandOf, Busy
  <2>2. Hash(block) \in Got
    <3>1. Zeroes \in Signatures /\ NoWork \in Works
      BY DEF Signatures, Works
    <3> QED
      BY <1>0, <2>1, <3>1, ValueTypes, HashKept DEF Got
  <2> QED
    BY <1>b, <2>1, <2>2
<1>9. ASSUME NEW t \in Thread, FindWork(t) PROVE UNCHANGED Contract!vars
  <2>1. /\ job[t].at = "working" /\ block' = block /\ block # Empty
        /\ Goto(t, "storing work", Work(Hash(block)))
    BY <1>9 DEF FindWork, Inv, InHand, InHandOf, Busy
  <2>2. Work(Hash(block)) \in Got
    BY <1>0, <2>1, ValueTypes DEF Got
  <2> QED
    BY <1>b, <2>1, <2>2
<1>10. ASSUME NEW t \in Thread, StoreWork(t) PROVE Contract!Next
  <2>1. job[t].at = "storing work" /\ Goto(t, "done", Null)
    BY <1>10 DEF StoreWork
  <2>2. block' = [block EXCEPT !.work = Work(Hash(block))]
    BY <1>10, Stored
  <2>3. Asked' = Asked /\ Replies' = [Replies EXCEPT ![t] = "done"]
    BY <1>0, <2>1, GotoReplies DEF Place, Answered
  <2>4. Replies[t] = "passed"
    BY <2>1, ReplyAt
  <2>5. Contract!Earn(t)
    BY <2>2, <2>3, <2>4, SameValues DEF Contract!Earn, Contract!Answer, Asked, Replies
  <2> QED
    BY <2>5 DEF Contract!Next
<1>11. ASSUME NEW t \in Thread, Finish(t) PROVE Contract!Next
  <2>1. Idle.ask = NoQuestion /\ Idle.at = "idle"
    BY DEF Idle
  <2>2. job[t].at \in Answered /\ job' = [job EXCEPT ![t] = Idle] /\ block' = block
    BY <1>11 DEF Finish
  <2>3. job'[t] = Idle /\ \A u \in Thread \ {t} : job'[u] = job[u]
    BY <1>0, <2>2 DEF JobsOK
  <2>4. Asked' = [Asked EXCEPT ![t] = NoQuestion]
    BY <2>1, <2>3 DEF Asked
  <2>5. /\ Reply(t)' = "pending"
        /\ \A u \in Thread \ {t} : Reply(u)' = Reply(u)
    BY <2>1, <2>3 DEF Reply, Answered
  <2>6. Replies' = [Replies EXCEPT ![t] = "pending"]
    BY <2>5 DEF Replies
  <2>7. Replies[t] \in {"done", "true", "false", "thrown"}
    BY <2>2, ReplyAt DEF Answered
  <2>8. Contract!Leave(t)
    BY <2>2, <2>4, <2>6, <2>7
       DEF Contract!Leave, Contract!Nobody, NoQuestion, Asked, Replies
  <2> QED
    BY <2>8 DEF Contract!Next
<1>12. ASSUME UNCHANGED vars PROVE UNCHANGED Contract!vars
  BY <1>12 DEF vars, Contract!vars, Reply
<1> QED
  BY <1>1, <1>2, <1>3, <1>4, <1>5, <1>6, <1>7, <1>8, <1>9, <1>10, <1>11, <1>12 DEF Next

\* The object shared by threads behaves as BlockContract: each call of sign,
\* isBlockSigned and calculateWork has the effect and the answer of a moment of its
\* own.
THEOREM BlockKeepsContract ==
    Spec => KeepsContract
<1>1. Inv /\ Inv' /\ [Next]_vars => [Contract!Next]_(Contract!vars)
  BY ContractStep
<1> QED
  BY <1>1, InvInit, InvStep, ContractInit, PTL DEF Spec, KeepsContract, Contract!Spec

============================================================================
