------------------------------ MODULE BlockStore ------------------------------
(***************************************************************************)
(* Blocks on their way between the three forms a program holds them in: a  *)
(* NanoBlock object, a byte array, and the array of a P2PoWBlock, which is *)
(* a user block followed by the reward block of a worker.                  *)
(*                                                                         *)
(* mynanojava.c converts between them by way of the C structure.  An       *)
(* object has no preamble and keeps in an int what the structure keeps in  *)
(* a byte; an array may have any length, and anything in it.               *)
(*                                                                         *)
(* A native that throws changes nothing here and is not shown: the program *)
(* keeps what it had.  Work is calculated in NanoBlock; here it is bytes.  *)
(* getByteP2PoWBlock gives away the array a P2PoWBlock works with, and what *)
(* the program writes into that it writes into the P2PoWBlock.             *)
(*                                                                         *)
(* One thread at a time is in the natives, which share the buffer msg;     *)
(* while it signs a byte array another may write into that array.          *)
(* GetByteArrayElements is taken to hand out a copy, as HotSpot's does.    *)
(***************************************************************************)
EXTENDS Integers, Sequences, Blocks

CONSTANTS
    Account,    \* accounts, and the private keys named by them
    Rest,       \* contents of representative, balance and link, taken together
    BlockSize,  \* sizeof(F_BLOCK_TRANSFER)
    MaxInt,     \* the largest jint
    SizeMod,    \* one more than the largest size_t
    Size        \* bound: the lengths of byte arrays

\* size_t is wider than jint by more than a block (the library is built for 64
\* bits; BlockSize is 249), and an array's length is a jint.
ASSUME WidthAssumption ==
    /\ BlockSize \in Nat \ {0}
    /\ MaxInt \in Nat
    /\ SizeMod \in Nat
    /\ (MaxInt + 1) * BlockSize < SizeMod
    /\ Size \subseteq 0..MaxInt
    /\ {BlockSize, 2 * BlockSize} \subseteq Size

Null == [null |-> TRUE]

\* What the program's own new blocks have as previous.
Frontier == [frontier |-> TRUE]

----------------------------------------------------------------------------
(* Blocks in C, and arrays of them.                                        *)

\* A C structure as the library fills it in.
Block(a, p, r, prefixes) ==
    [preamble |-> "state", account |-> a, previous |-> p, rest |-> r,
     signature |-> Zeroes, prefixes |-> prefixes, work |-> NoWork]

\* A block of zero bytes.
ZeroBlock == [Block(Null, Null, Null, 0) EXCEPT !.preamble = "zeroes"]

\* A byte array: its length, and the blocks that lie in it one after another.
Array(size, blocks) == [size |-> size, blocks |-> blocks]

One(b) == Array(BlockSize, <<b>>)

f_nano_is_valid_block(b) == b.preamble = "state"

\* The reward blocks nano_create_p2pow_block_dynamic may come up with; what they have
\* to do with the user block is the library's affair.
Reward == {Block(a, Frontier, r, 2) : a \in Account, r \in Rest}

----------------------------------------------------------------------------
(* Objects.                                                                *)

\* `new NanoBlock()'
Empty == [account |-> Null, previous |-> Null, rest |-> Null, signature |-> Null,
          prefixes |-> 0, work |-> NoWork]

\* (mutant) Only the three flags of prefixes are taken over.
ToC_flag(o) ==
    [preamble |-> "state", account |-> o.account, previous |-> o.previous,
     rest |-> o.rest, signature |-> o.signature, prefixes |-> o.prefixes % 8,
     work |-> o.work]

\* java_NanoBlock_2_C_NanoBlock_util
ToC(o) ==
    [preamble |-> "state", account |-> o.account, previous |-> o.previous,
     rest |-> o.rest, signature |-> o.signature, prefixes |-> o.prefixes % 256,
     work |-> o.work]

\* (mutant) The byte is taken for a signed one.
ToJava_signed(b) ==
    [account |-> b.account, previous |-> b.previous, rest |-> b.rest,
     signature |-> b.signature, work |-> b.work,
     prefixes |-> IF b.prefixes > 127 THEN b.prefixes - 256 ELSE b.prefixes]

\* setNanoBlockToJVM_util, on a new object
ToJava(b) ==
    [account |-> b.account, previous |-> b.previous, rest |-> b.rest,
     signature |-> b.signature, prefixes |-> b.prefixes, work |-> b.work]

\* (mutant) The end of the block is not counted.
Accepts_start(array, n) ==
    /\ n >= 0
    /\ (n * BlockSize) % SizeMod <= array.size

\* The checks of byteToNanoBlock, in size_t.
Accepts(array, n) ==
    /\ n >= 0
    /\ (((n * BlockSize) % SizeMod) + BlockSize) % SizeMod <= array.size

\* The block at nanoBlock+block_offset.
BlockAt(array, n) == array.blocks[n + 1]

\* byteToNanoBlock returns an object, namely that one.
Converts(array, n) == Accepts(array, n) /\ f_nano_is_valid_block(BlockAt(array, n))

byteToNanoBlock(array, n) == ToJava(BlockAt(array, n))

nanoBlockToByte(o) == One(ToC(o))

\* The two readers of a block, for an object and for its bytes.
verifySignatureNanoBlock(o) == Verify(ToC(o))

getNanoBlockHash(o) == Hash(ToC(o))

VARIABLES
    object,     \* a NanoBlock
    bytes,      \* a byte array
    p2PoWBlock, \* the array in a P2PoWBlock
    shared,     \* `bytes' is that very array
    signing,    \* a call of signByteNanoBlock on `bytes': its private key and
                \* its copy of the block
    edited      \* history: which of "object", "bytes" and "pair" come from bytes
                \* whose hash the program has changed since they were signed

vars == <<object, bytes, p2PoWBlock, shared, signing, edited>>

NoArray == Array(0, <<>>)

NotSigning == [key |-> Null]

Init ==
    /\ object = Empty
    /\ bytes = NoArray
    /\ p2PoWBlock = NoArray
    /\ shared = FALSE
    /\ signing = NotSigning
    /\ edited = {}

\* What comes of what.
Passes(from, to) ==
    edited' = IF from \in edited THEN edited \union {to} ELSE edited \ {to}

\* The array `bytes' is written into.
Into(array) ==
    /\ bytes' = array
    /\ p2PoWBlock' = IF shared THEN array ELSE p2PoWBlock

Written == IF shared THEN {"bytes", "pair"} ELSE {"bytes"}

----------------------------------------------------------------------------
(* What the program does by itself.                                        *)

\* Arrays.copyOf: cuts off at the end, or fills up with zeroes.
Resize(array, size) ==
    Array(size, [i \in 1..size \div BlockSize |->
                   IF i <= Len(array.blocks) THEN array.blocks[i] ELSE ZeroBlock])

\* The program goes on with another array.
CopyOf(size) ==
    /\ signing = NotSigning
    /\ bytes' = Resize(bytes, size)
    /\ shared' = FALSE
    /\ UNCHANGED <<object, p2PoWBlock, signing, edited>>

\* The array itself, not a copy of it.
getByteP2PoWBlock ==
    /\ signing = NotSigning
    /\ p2PoWBlock # NoArray
    /\ bytes' = p2PoWBlock
    /\ shared' = TRUE
    /\ Passes("pair", "bytes")
    /\ UNCHANGED <<object, p2PoWBlock, signing>>

\* What the program may make of a block: the last does not change its hash.
Scribbled(b) ==
    {[b EXCEPT !.rest = r] : r \in Rest}
      \union {ZeroBlock, [b EXCEPT !.prefixes = 255, !.work = [nonce |-> 1]]}

\* The program writes into a block of the array, at any time.
WriteBytes(i) ==
    /\ \E b \in Scribbled(bytes.blocks[i]) :
         /\ Into([bytes EXCEPT !.blocks[i] = b])
         /\ edited' = IF Hash(b) = Hash(bytes.blocks[i]) THEN edited
                                                         ELSE edited \union Written
    /\ UNCHANGED <<object, shared, signing>>

----------------------------------------------------------------------------
(* The natives, those that change something.                               *)

nanoCreateBlock(a, r) ==
    /\ signing = NotSigning
    /\ object' = ToJava(Block(a, Frontier, r, 2))
    /\ edited' = edited \ {"object"}
    /\ UNCHANGED <<bytes, p2PoWBlock, shared, signing>>

nano_create_block(a, r) ==
    /\ signing = NotSigning
    /\ bytes' = One(Block(a, Frontier, r, 2))
    /\ shared' = FALSE
    /\ edited' = edited \ {"bytes"}
    /\ UNCHANGED <<object, p2PoWBlock, signing>>

ToByte ==
    /\ signing = NotSigning
    /\ object # Empty
    /\ bytes' = nanoBlockToByte(object)
    /\ shared' = FALSE
    /\ Passes("object", "bytes")
    /\ UNCHANGED <<object, p2PoWBlock, signing>>

FromByte(n) ==
    /\ signing = NotSigning
    /\ Converts(bytes, n)
    /\ object' = byteToNanoBlock(bytes, n)
    /\ Passes("bytes", "object")
    /\ UNCHANGED <<bytes, p2PoWBlock, shared, signing>>

\* getUserBlock is 0, getRewardBlock is 1.
FromP2PoW(n) ==
    /\ signing = NotSigning
    /\ Converts(p2PoWBlock, n)
    /\ object' = byteToNanoBlock(p2PoWBlock, n)
    /\ Passes("pair", "object")
    /\ UNCHANGED <<bytes, p2PoWBlock, shared, signing>>

\* nanoP2PoWBlock
Pair(b, reward) == Array(2 * BlockSize, <<b, reward>>)

\* Both constructors of P2PoWBlock, which check the size alone: whether the library
\* accepts a block without a preamble is left open.
MakeP2PoW(array, reward) ==
    /\ signing = NotSigning
    /\ array.size = BlockSize
    /\ p2PoWBlock' = Pair(array.blocks[1], reward)
    /\ shared' = FALSE
    /\ UNCHANGED <<object, bytes, signing>>

P2PoWOfBytes(reward) == MakeP2PoW(bytes, reward) /\ Passes("bytes", "pair")

P2PoWOfObject(reward) ==
    /\ object # Empty
    /\ MakeP2PoW(nanoBlockToByte(object), reward)
    /\ Passes("object", "pair")

\* (mutant) The preamble is not filled in before the block is hashed.
signNanoBlock_preamble(key) ==
    /\ signing = NotSigning
    /\ object # Empty
    /\ object' = [object EXCEPT !.signature =
                     Signature(key, [ToC(object) EXCEPT !.preamble = "zeroes"])]
    /\ edited' = edited \ {"object"}
    /\ UNCHANGED <<bytes, p2PoWBlock, shared, signing>>

signNanoBlock(key) ==
    /\ signing = NotSigning
    /\ object # Empty
    /\ object' = [object EXCEPT !.signature = Signature(key, ToC(object))]
    /\ edited' = edited \ {"object"}
    /\ UNCHANGED <<bytes, p2PoWBlock, shared, signing>>

\* signByteNanoBlock, up to the signature in its copy of the array.
SignBytes(key) ==
    /\ signing = NotSigning
    /\ bytes.size = BlockSize
    /\ f_nano_is_valid_block(bytes.blocks[1])
    /\ LET b == bytes.blocks[1]
       IN  signing' = [key |-> key, copy |-> [b EXCEPT !.signature = Signature(key, b)]]
    /\ UNCHANGED <<object, bytes, p2PoWBlock, shared, edited>>

\* (mutant) Only the signature is written back.
ReleaseBytes_signature ==
    /\ signing # NotSigning
    /\ Into([bytes EXCEPT !.blocks[1].signature = signing.copy.signature])
    /\ signing' = NotSigning
    /\ edited' = edited \ Written
    /\ UNCHANGED <<object, shared>>

\* ReleaseByteArrayElements(..., 0): all of the copy is written back.
ReleaseBytes ==
    /\ signing # NotSigning
    /\ Into(One(signing.copy))
    /\ signing' = NotSigning
    /\ edited' = edited \ Written
    /\ UNCHANGED <<object, shared>>

Next ==
    \/ \E size \in Size : CopyOf(size)
    \/ getByteP2PoWBlock
    \/ \E i \in 1..Len(bytes.blocks) : WriteBytes(i)
    \/ \E a \in Account, r \in Rest : nanoCreateBlock(a, r) \/ nano_create_block(a, r)
    \/ ToByte
    \/ \E n \in -1..MaxInt : FromByte(n) \/ FromP2PoW(n)
    \/ \E reward \in Reward : P2PoWOfBytes(reward) \/ P2PoWOfObject(reward)
    \/ \E key \in Account : signNanoBlock(key) \/ SignBytes(key)
    \/ ReleaseBytes

Spec == Init /\ [][Next]_vars

----------------------------------------------------------------------------
(* Properties.                                                             *)

Prefixes == 0..255

\* An array holds as many blocks as fit into it, and an object's prefixes fit
\* into the byte of the C structure although Java has an int for them; while the
\* program has the array of the P2PoWBlock, the two are one.
TypeOK ==
    /\ object.prefixes \in Prefixes
    /\ object = Empty \/ object.account \in Account
    /\ \A array \in {bytes, p2PoWBlock} :
         /\ array.size \in Size \union {0}
         /\ Len(array.blocks) = array.size \div BlockSize
         /\ \A i \in 1..Len(array.blocks) : array.blocks[i].prefixes \in Prefixes
    /\ signing # NotSigning => bytes.size = BlockSize
    /\ shared => bytes = p2PoWBlock /\ ("bytes" \in edited <=> "pair" \in edited)
    /\ edited \subseteq {"object", "bytes", "pair"}

\* byteToNanoBlock accepts a block number exactly if the whole block lies inside
\* the array, for every jint and every length: the product of an int and a
\* size_t and the comparison of a size_t with a jsize do not go wrong.
BlockInside ==
    \A array \in {bytes, p2PoWBlock}, n \in -1..MaxInt :
        Accepts(array, n) <=> n >= 0 /\ (n + 1) * BlockSize <= array.size

\* Nothing is lost on the way, in either direction: an object made of bytes gives
\* the same bytes back (byteToNanoBlock refuses the preamble that would be lost),
\* bytes made of an object give the same object back, and so the signature and
\* the hash of a block are the same in both forms.
NothingLost ==
    /\ object # Empty =>
         byteToNanoBlock(nanoBlockToByte(object), 0) = object
    /\ \A array \in {bytes, p2PoWBlock}, n \in -1..MaxInt :
         Converts(array, n) =>
           LET o == byteToNanoBlock(array, n)
           IN  /\ ToC(o) = array.blocks[n + 1]
               /\ verifySignatureNanoBlock(o) = Verify(array.blocks[n + 1])
               /\ getNanoBlockHash(o) = Hash(array.blocks[n + 1])

\* b is not signed, or its signature is one of what is in it.
Vouched(b) ==
    \/ b.signature \in {Null, Zeroes}
    \/ \E key \in Account : b.signature = Signature(key, b)

\* A signature stays one of the block it is in wherever the block goes: through
\* bytes, objects and P2PoWBlocks in any order, with signatures by other keys in
\* between.  Only a write of the program into what is hashed can part the two, and
\* only in what comes from the array it wrote into; a P2PoWBlock, which nothing
\* else changes, is such an array while getByteP2PoWBlock has given it away.
SignaturesTravel ==
    /\ "object" \notin edited => Vouched(ToC(object))
    /\ "bytes" \notin edited => \A i \in 1..Len(bytes.blocks) : Vouched(bytes.blocks[i])
    /\ "pair" \notin edited =>
         \A i \in 1..Len(p2PoWBlock.blocks) : Vouched(p2PoWBlock.blocks[i])

\* When signByteNanoBlock returns, the array holds a block and a signature of that
\* very block by the caller's key, although the program may have written into
\* the array since the block was copied (what it wrote is lost).
SignedBytesAgree ==
    [][signing # NotSigning /\ signing' = NotSigning =>
         /\ Len(bytes'.blocks) = 1
         /\ bytes'.blocks[1].signature = Signature(signing.key, bytes'.blocks[1])]_vars

==============================================================================
