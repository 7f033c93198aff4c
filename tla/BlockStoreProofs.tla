--------------------------- MODULE BlockStoreProofs ---------------------------
(***************************************************************************)
(* The properties of BlockStore, for every set of accounts and contents,   *)
(* every size of a block and every width of the integers that              *)
(* WidthAssumption allows, hence for 249 bytes, 31 and 64 bits.            *)
(***************************************************************************)
EXTENDS BlockStore, SequenceTheorems, TLAPS

----------------------------------------------------------------------------
(* The arithmetic of byteToNanoBlock.                                      *)

\* A larger factor has a larger product.
LEMMA TimesGrows ==
    ASSUME NEW a \in Nat, NEW b \in Nat, NEW c \in Nat, a <= b
    PROVE  a * c <= b * c /\ a * c \in Nat /\ b * c \in Nat
<1>1. PICK d \in Nat : b = a + d
  <2>1. b - a \in Nat /\ b = a + (b - a)
    OBVIOUS
  <2> QED
    BY <2>1
<1>2. b * c = a * c + d * c
  BY <1>1
<1>3. a * c \in Nat /\ d * c \in Nat
  OBVIOUS
<1> QED
  BY <1>2, <1>3

\* Neither the product nor the sum leaves size_t.
LEMMA Offset ==
    ASSUME NEW n \in 0..MaxInt
    PROVE  /\ n * BlockSize \in Nat /\ n * BlockSize + BlockSize = (n + 1) * BlockSize
           /\ (((n * BlockSize) % SizeMod) + BlockSize) % SizeMod = (n + 1) * BlockSize
<1> USE WidthAssumption
<1>1. /\ n * BlockSize \in Nat /\ (n + 1) * BlockSize \in Nat
      /\ n * BlockSize + BlockSize = (n + 1) * BlockSize
  OBVIOUS
<1>2. (n + 1) * BlockSize <= (MaxInt + 1) * BlockSize
  <2>1. n + 1 \in Nat /\ MaxInt + 1 \in Nat /\ n + 1 <= MaxInt + 1
    OBVIOUS
  <2> QED
    BY <2>1, TimesGrows
<1>3. (n + 1) * BlockSize < SizeMod /\ n * BlockSize < SizeMod
  <2>1. (MaxInt + 1) * BlockSize \in Nat
    OBVIOUS
  <2> QED
    BY <1>1, <1>2, <2>1
<1> DEFINE x == n * BlockSize
           y == (n + 1) * BlockSize
<1>4. x \in Nat /\ y \in Nat /\ x < SizeMod /\ y < SizeMod /\ x + BlockSize = y
  BY <1>1, <1>3
<1> HIDE DEF x, y
<1>5. x % SizeMod = x /\ y % SizeMod = y
  BY <1>4
<1>6. ((x % SizeMod) + BlockSize) % SizeMod = y
  BY <1>4, <1>5
<1> QED
  BY <1>1, <1>6 DEF x, y

LEMMA AcceptsInside ==
    ASSUME NEW array, array.size \in Size \union {0}, NEW n \in -1..MaxInt
    PROVE  Accepts(array, n) <=> n >= 0 /\ (n + 1) * BlockSize <= array.size
<1>1. CASE n = -1
  BY <1>1 DEF Accepts
<1>2. CASE n \in 0..MaxInt
  BY <1>2, Offset DEF Accepts
<1> QED
  BY <1>1, <1>2, WidthAssumption

\* How many blocks fit.
LEMMA Fits ==
    /\ 0 \div BlockSize = 0
    /\ BlockSize \div BlockSize = 1
    /\ (2 * BlockSize) \div BlockSize = 2
    /\ \A size \in Size \union {0} : size \div BlockSize \in Nat
BY WidthAssumption

----------------------------------------------------------------------------
(* Blocks, objects and arrays of the right form.                           *)

BlockOK(b) ==
    /\ b = [preamble |-> b.preamble, account |-> b.account, previous |-> b.previous,
            rest |-> b.rest, signature |-> b.signature, prefixes |-> b.prefixes,
            work |-> b.work]
    /\ b.prefixes \in Prefixes
    /\ b.preamble = "state" => b.account \in Account

ObjectOK(o) ==
    /\ o = [account |-> o.account, previous |-> o.previous, rest |-> o.rest,
            signature |-> o.signature, prefixes |-> o.prefixes, work |-> o.work]
    /\ o.prefixes \in Prefixes
    /\ o = Empty \/ o.account \in Account

ArrayOK(array) ==
    /\ array.size \in Size \union {0}
    /\ array = Array(array.size, [i \in 1..array.size \div BlockSize |-> array.blocks[i]])
    /\ \A i \in 1..array.size \div BlockSize : BlockOK(array.blocks[i])

LEMMA Lengths ==
    ASSUME NEW k \in Nat, NEW s, s = [i \in 1..k |-> s[i]]
    PROVE  Len(s) = k
<1> DEFINE S == {s[i] : i \in 1..k}
<1>1. s \in [1..k -> S]
  OBVIOUS
<1>2. s \in Seq(S)
  BY <1>1, SeqDef
<1>3. Len(s) \in Nat /\ DOMAIN s = 1..Len(s) /\ DOMAIN s = 1..k
  BY <1>1, <1>2, LenProperties
<1> QED
  BY <1>3

LEMMA ArrayIs ==
    ASSUME NEW array, ArrayOK(array)
    PROVE  /\ array.size \div BlockSize \in Nat
           /\ Len(array.blocks) = array.size \div BlockSize
           /\ array.blocks =
                [i \in 1..array.size \div BlockSize |-> array.blocks[i]]
           /\ \A i \in 1..Len(array.blocks) : BlockOK(array.blocks[i])
<1> DEFINE k == array.size \div BlockSize
<1>1. k \in Nat
  BY Fits DEF ArrayOK
<1>2. array.blocks = [i \in 1..k |-> array.blocks[i]]
  BY DEF ArrayOK, Array
<1> HIDE DEF k
<1>3. Len(array.blocks) = k
  BY <1>1, <1>2, Lengths
<1> QED
  BY <1>1, <1>2, <1>3 DEF ArrayOK, k

\* An array made of a function.
LEMMA ArrayOf ==
    ASSUME NEW size \in Size \union {0}, NEW blocks,
           blocks = [i \in 1..size \div BlockSize |-> blocks[i]],
           \A i \in 1..size \div BlockSize : BlockOK(blocks[i])
    PROVE  ArrayOK(Array(size, blocks))
  BY DEF ArrayOK, Array

LEMMA FirstOK ==
    ASSUME NEW array, ArrayOK(array), array.size = BlockSize
    PROVE  BlockOK(array.blocks[1])
<1>1. 1 \in 1..array.size \div BlockSize
  <2>1. array.size \div BlockSize = 1
    BY Fits
  <2> QED
    BY <2>1
<1> QED
  BY <1>1 DEF ArrayOK

LEMMA OneOK ==
    ASSUME NEW b, BlockOK(b)
    PROVE  ArrayOK(One(b)) /\ One(b).size = BlockSize /\ One(b).blocks = <<b>>
<1>1. BlockSize \in Size
  BY WidthAssumption
<1> DEFINE s == <<b>>
<1>2. s = [i \in 1..1 |-> s[i]] /\ \A i \in 1..1 : s[i] = b
  OBVIOUS
<1> HIDE DEF s
<1>3. s = [i \in 1..BlockSize \div BlockSize |-> s[i]]
  BY <1>2, Fits
<1>4. \A i \in 1..BlockSize \div BlockSize : BlockOK(s[i])
  BY <1>2, Fits
<1>5. ArrayOK(Array(BlockSize, s))
  BY <1>1, <1>3, <1>4, ArrayOf
<1> QED
  BY <1>5 DEF One, s, Array

LEMMA NoArrayOK ==
    ArrayOK(NoArray)
<1> DEFINE s == <<>>
<1>1. s = [i \in 1..0 |-> s[i]]
  OBVIOUS
<1>2. 0 \div BlockSize = 0
  BY Fits
<1> HIDE DEF s
<1>3. s = [i \in 1..0 \div BlockSize |-> s[i]]
  BY <1>1, <1>2
<1>4. ArrayOK(Array(0, s))
  BY <1>2, <1>3, ArrayOf
<1> QED
  BY <1>4 DEF NoArray, s

LEMMA MadeBlocks ==
    ASSUME NEW a, NEW p, NEW r, NEW n \in Prefixes
    PROVE  /\ Block(a, p, r, n).preamble = "state"
           /\ Block(a, p, r, n).account = a /\ Block(a, p, r, n).previous = p
           /\ a \in Account => BlockOK(Block(a, p, r, n))
  BY DEF Block, BlockOK

LEMMA ZeroOK ==
    BlockOK(ZeroBlock)
  BY DEF BlockOK, ZeroBlock, Block, Prefixes

LEMMA SmallPrefixes ==
    ASSUME NEW n \in Prefixes PROVE n % 256 = n
  BY DEF Prefixes

\* There and back, from the bytes and from the object.
LEMMA BytesBack ==
    ASSUME NEW b, BlockOK(b), f_nano_is_valid_block(b)
    PROVE  ToC(ToJava(b)) = b /\ ObjectOK(ToJava(b)) /\ ToJava(b).account = b.account
<1>1. b.prefixes % 256 = b.prefixes
  BY SmallPrefixes DEF BlockOK
<1>2. ToC(ToJava(b)) = b
  BY <1>1 DEF BlockOK, ToC, ToJava, f_nano_is_valid_block
<1> QED
  BY <1>2 DEF BlockOK, ObjectOK, ToJava, f_nano_is_valid_block

LEMMA ObjectBack ==
    ASSUME NEW o, ObjectOK(o)
    PROVE  ToJava(ToC(o)) = o /\ (o # Empty => BlockOK(ToC(o)))
<1>1. o.prefixes % 256 = o.prefixes
  BY SmallPrefixes DEF ObjectOK
<1> QED
  BY <1>1 DEF ObjectOK, BlockOK, ToC, ToJava

\* The hash of a block leaves its signature out.
LEMMA SignatureOfSigned ==
    ASSUME NEW b, BlockOK(b), NEW key
    PROVE  LET c == [b EXCEPT !.signature = Signature(key, b)]
           IN  /\ BlockOK(c) /\ c.signature = Signature(key, b)
               /\ Hash(c) = Hash(b) /\ Signature(key, c) = Signature(key, b)
<1> DEFINE s == Signature(key, b)
           c == [b EXCEPT !.signature = s]
<1> HIDE DEF s
<1>1. /\ BlockOK(c) /\ c.signature = s /\ DOMAIN c = DOMAIN b
      /\ \A f \in DOMAIN b \ NotHashed : c[f] = b[f]
  BY DEF BlockOK, NotHashed
<1>2. Hash(c) = Hash(b)
  BY <1>1 DEF Hash
<1> QED
  BY <1>1, <1>2 DEF s, Signature

----------------------------------------------------------------------------
(* The inductive invariant.                                                *)

\* The copy in a call of signByteNanoBlock is a block with its signature; the
\* array keeps its size meanwhile.
CopyOK(call, array) ==
    call # NotSigning =>
        /\ call.key \in Account
        /\ array.size = BlockSize
        /\ BlockOK(call.copy)
        /\ call.copy.signature = Signature(call.key, call.copy)

\* While the program has the array of the P2PoWBlock, what is written into the one is
\* written into the other.
Together ==
    /\ shared => bytes = p2PoWBlock /\ ("bytes" \in edited <=> "pair" \in edited)
    /\ edited \subseteq {"object", "bytes", "pair"}

Inv ==
    /\ ObjectOK(object)
    /\ ArrayOK(bytes) /\ ArrayOK(p2PoWBlock)
    /\ CopyOK(signing, bytes)
    /\ Together

LEMMA InvInit ==
    Init => Inv
<1> SUFFICES ASSUME Init PROVE Inv
  OBVIOUS
<1>1. ObjectOK(Empty)
  BY DEF ObjectOK, Empty, Prefixes
<1> QED
  BY <1>1, NoArrayOK DEF Init, Inv, CopyOK, Together

\* A block in an array that byteToNanoBlock accepts.
LEMMA Converted ==
    ASSUME NEW array, ArrayOK(array), NEW n \in -1..MaxInt, Converts(array, n)
    PROVE  /\ n >= 0 /\ n + 1 \in 1..Len(array.blocks)
           /\ BlockOK(BlockAt(array, n)) /\ f_nano_is_valid_block(BlockAt(array, n))
<1>1. array.size \in Size \union {0} /\ array.size \in Nat
  <2>1. Size \subseteq 0..MaxInt /\ MaxInt \in Nat
    BY WidthAssumption
  <2>2. \A x \in Size \union {0} : x \in Nat
    BY <2>1
  <2>3. array.size \in Size \union {0}
    BY DEF ArrayOK
  <2> QED
    BY <2>2, <2>3
<1>2. n \in Nat /\ (n + 1) * BlockSize <= array.size
  BY <1>1, AcceptsInside DEF Converts
<1>3. n + 1 <= array.size \div BlockSize
  <2> DEFINE k == array.size \div BlockSize
  <2>1. k \in Nat /\ array.size < (k + 1) * BlockSize
    BY <1>1, WidthAssumption
  <2>2. CASE n + 1 > k
    <3>1. (k + 1) * BlockSize <= (n + 1) * BlockSize
      BY <1>2, <2>1, <2>2, TimesGrows, WidthAssumption
    <3>2. (k + 1) * BlockSize \in Nat /\ (n + 1) * BlockSize \in Nat
      BY <1>2, <2>1, WidthAssumption
    <3> QED
      BY <1>1, <1>2, <2>1, <3>1, <3>2
  <2> QED
    BY <1>2, <2>1, <2>2
<1>4. n + 1 \in 1..Len(array.blocks)
  <2>1. array.size \div BlockSize \in Nat /\ Len(array.blocks) = array.size \div BlockSize
    BY ArrayIs
  <2> QED
    BY <1>2, <1>3, <2>1
<1>5. \A i \in 1..Len(array.blocks) : BlockOK(array.blocks[i])
  BY ArrayIs
<1> QED
  BY <1>2, <1>4, <1>5 DEF BlockAt, Converts

LEMMA ObjectMade ==
    ASSUME NEW array, ArrayOK(array), NEW n \in -1..MaxInt, Converts(array, n)
    PROVE  ObjectOK(byteToNanoBlock(array, n))
  BY Converted, BytesBack DEF byteToNanoBlock

LEMMA Resized ==
    ASSUME NEW array, ArrayOK(array), NEW size \in Size
    PROVE  ArrayOK(Resize(array, size))
<1> DEFINE k == size \div BlockSize
           s == [i \in 1..k |->
                   IF i <= Len(array.blocks) THEN array.blocks[i] ELSE ZeroBlock]
<1>1. k \in Nat /\ Len(array.blocks) \in Nat
  BY Fits, ArrayIs
<1>2. ASSUME NEW i \in 1..k PROVE BlockOK(s[i])
  <2>1. CASE i <= Len(array.blocks)
    <3>1. s[i] = array.blocks[i] /\ i \in 1..Len(array.blocks)
      BY <1>1, <2>1
    <3> QED
      BY <3>1, ArrayIs
  <2>2. CASE ~(i <= Len(array.blocks))
    BY <2>2, ZeroOK
  <2> QED
    BY <2>1, <2>2
<1>3. s = [i \in 1..k |-> s[i]]
  OBVIOUS
<1> HIDE DEF s
<1>4. ArrayOK(Array(size, s))
  BY <1>2, <1>3, ArrayOf
<1> QED
  BY <1>4 DEF Resize, s

LEMMA Paired ==
    ASSUME NEW b, BlockOK(b), NEW r \in Reward
    PROVE  /\ ArrayOK(Pair(b, r)) /\ Pair(b, r).size = 2 * BlockSize
           /\ Pair(b, r).blocks = <<b, r>>
<1> DEFINE s == <<b, r>>
<1>1. BlockOK(r)
  <2>1. PICK a \in Account, c \in Rest : r = Block(a, Frontier, c, 2)
    BY DEF Reward
  <2>2. 2 \in Prefixes
    BY DEF Prefixes
  <2> QED
    BY <2>1, <2>2, MadeBlocks
<1>2. s = [i \in 1..2 |-> s[i]] /\ s[1] = b /\ s[2] = r
  OBVIOUS
<1>3. \A i \in 1..2 : BlockOK(s[i])
  <2>1. \A i \in 1..2 : i = 1 \/ i = 2
    OBVIOUS
  <2> QED
    BY <1>1, <1>2, <2>1
<1>4. 2 * BlockSize \in Size
  BY WidthAssumption
<1> HIDE DEF s
<1>5. ArrayOK(Array(2 * BlockSize, s))
  <2>1. s = [i \in 1..(2 * BlockSize) \div BlockSize |-> s[i]]
    BY <1>2, Fits
  <2>2. \A i \in 1..(2 * BlockSize) \div BlockSize : BlockOK(s[i])
    BY <1>3, Fits
  <2> QED
    BY <1>4, <2>1, <2>2, ArrayOf
<1>6. Pair(b, r) = Array(2 * BlockSize, s)
  BY DEF Pair, s
<1> QED
  BY <1>5, <1>6 DEF Array, s

----------------------------------------------------------------------------
(* The steps.                                                              *)

\* The program writes into a block.
LEMMA WriteKeeps ==
    ASSUME Inv, NEW i \in 1..Len(bytes.blocks), WriteBytes(i)
    PROVE  Inv'
<1> DEFINE k == bytes.size \div BlockSize
           b == bytes.blocks[i]
           c == bytes'.blocks[i]
           s == bytes'.blocks
<1>1. /\ k \in Nat /\ Len(bytes.blocks) = k
      /\ bytes.blocks = [j \in 1..k |-> bytes.blocks[j]]
      /\ \A j \in 1..k : BlockOK(bytes.blocks[j])
      /\ bytes = Array(bytes.size, bytes.blocks)
      /\ bytes.size \in Size \union {0}
  BY ArrayIs DEF Inv, ArrayOK
<1>2. PICK d \in Scribbled(b) :
         /\ Into([bytes EXCEPT !.blocks[i] = d])
         /\ edited' = IF Hash(d) = Hash(b) THEN edited ELSE edited \union Written
  BY DEF WriteBytes
<1>3. BlockOK(d)
  <2>1. BlockOK(b)
    BY <1>1
  <2>2. \/ \E r \in Rest : d = [b EXCEPT !.rest = r]
        \/ d = ZeroBlock
        \/ d = [b EXCEPT !.prefixes = 255, !.work = [nonce |-> 1]]
    BY <1>2 DEF Scribbled
  <2> HIDE DEF b
  <2>3. CASE \E r \in Rest : d = [b EXCEPT !.rest = r]
    BY <2>1, <2>3 DEF BlockOK
  <2>4. CASE d = ZeroBlock
    BY <2>4, ZeroOK
  <2>5. CASE d = [b EXCEPT !.prefixes = 255, !.work = [nonce |-> 1]]
    <3> DEFINE w == [nonce |-> 1]
               e == [b EXCEPT !.prefixes = 255]
    <3> HIDE DEF w
    <3>1. BlockOK(e)
      BY <2>1 DEF BlockOK, Prefixes
    <3>2. d = [e EXCEPT !.work = w]
      BY <2>1, <2>5 DEF BlockOK, w
    <3> HIDE DEF e
    <3> QED
      BY <3>1, <3>2 DEF BlockOK
  <2> QED
    BY <2>2, <2>3, <2>4, <2>5
<1>4. bytes' = Array(bytes.size, [bytes.blocks EXCEPT ![i] = d])
  BY <1>1, <1>2 DEF Array, Into
<1> DEFINE t == [bytes.blocks EXCEPT ![i] = d]
<1>5. t = [j \in 1..k |-> t[j]] /\ \A j \in 1..k : BlockOK(t[j])
  BY <1>1, <1>3
<1> HIDE DEF t
<1>6. ArrayOK(Array(bytes.size, t))
  BY <1>1, <1>5, ArrayOf
<1>7. bytes' = Array(bytes.size, t)
  BY <1>4 DEF t
<1>8. ArrayOK(bytes') /\ bytes'.size = bytes.size
  BY <1>6, <1>7 DEF Array
<1>9. UNCHANGED <<object, shared, signing>>
  BY DEF WriteBytes
<1>10. ArrayOK(p2PoWBlock') /\ Together'
  BY <1>2, <1>8, <1>9 DEF Into, Inv, Together, Written
<1> QED
  BY <1>8, <1>9, <1>10 DEF Inv, CopyOK

\* The steps that make an object, or another array of bytes.
LEMMA ObjectKeeps ==
    ASSUME Inv, signing = NotSigning, ObjectOK(object'),
           UNCHANGED <<bytes, p2PoWBlock, shared, signing>>,
           edited' = edited \union {"object"} \/ edited' = edited \ {"object"}
    PROVE  Inv'
  BY DEF Inv, CopyOK, Together

LEMMA BytesKeep ==
    ASSUME Inv, signing = NotSigning, ArrayOK(bytes'), shared' = FALSE,
           UNCHANGED <<object, p2PoWBlock, signing>>,
           \/ edited' = edited
           \/ edited' = edited \union {"bytes"} \/ edited' = edited \ {"bytes"}
    PROVE  Inv'
  BY DEF Inv, CopyOK, Together

LEMMA GivenKeeps ==
    ASSUME Inv, getByteP2PoWBlock
    PROVE  Inv'
  BY DEF Inv, CopyOK, Together, getByteP2PoWBlock, Passes

LEMMA PairKeeps ==
    ASSUME Inv, NEW array, ArrayOK(array), NEW reward \in Reward,
           MakeP2PoW(array, reward),
           edited' = edited \union {"pair"} \/ edited' = edited \ {"pair"}
    PROVE  Inv'
<1> DEFINE b == array.blocks[1]
<1>1. /\ array.size = BlockSize /\ p2PoWBlock' = Pair(b, reward) /\ shared' = FALSE
      /\ UNCHANGED <<object, bytes, signing>>
  BY DEF MakeP2PoW
<1>2. BlockOK(b)
  BY <1>1, FirstOK
<1> HIDE DEF b
<1>3. ArrayOK(p2PoWBlock')
  BY <1>1, <1>2, Paired
<1>4. Together'
  BY <1>1 DEF Inv, Together
<1> QED
  BY <1>1, <1>3, <1>4 DEF Inv, CopyOK

LEMMA SignKeeps ==
    ASSUME Inv, NEW key \in Account, signNanoBlock(key) \/ SignBytes(key)
    PROVE  Inv'
<1>1. CASE signNanoBlock(key)
  <2> DEFINE s == Signature(key, ToC(object))
  <2>1. ObjectOK([object EXCEPT !.signature = s])
    <3>1. object.account \in Account /\ ObjectOK(object)
      BY <1>1 DEF signNanoBlock, Inv, ObjectOK
    <3> HIDE DEF s
    <3> QED
      BY <3>1 DEF ObjectOK
  <2> QED
    BY <1>1, <2>1, ObjectKeeps DEF signNanoBlock
<1>2. CASE SignBytes(key)
  <2> DEFINE b == bytes.blocks[1]
             c == [b EXCEPT !.signature = Signature(key, b)]
  <2>1. /\ bytes.size = BlockSize /\ signing' = [key |-> key, copy |-> c]
        /\ UNCHANGED <<object, bytes, p2PoWBlock, shared, edited>>
    BY <1>2 DEF SignBytes
  <2>2. BlockOK(b)
    BY <2>1, FirstOK DEF Inv
  <2>3. BlockOK(c) /\ c.signature = Signature(key, c)
    BY <2>2, SignatureOfSigned
  <2> HIDE DEF c
  <2>4. CopyOK(signing', bytes')
    BY <2>1, <2>3 DEF CopyOK
  <2> QED
    BY <2>1, <2>4 DEF Inv, Together
<1> QED
  BY <1>1, <1>2

LEMMA ReleaseKeeps ==
    ASSUME Inv, ReleaseBytes
    PROVE  Inv'
<1>1. BlockOK(signing.copy)
  BY DEF Inv, CopyOK, ReleaseBytes
<1>2. /\ bytes' = One(signing.copy)
      /\ p2PoWBlock' = IF shared THEN One(signing.copy) ELSE p2PoWBlock
      /\ signing' = NotSigning /\ edited' = edited \ Written
      /\ UNCHANGED <<object, shared>>
  BY DEF ReleaseBytes, Into
<1>3. ArrayOK(bytes') /\ ArrayOK(p2PoWBlock')
  BY <1>1, <1>2, OneOK DEF Inv
<1>4. Together'
  BY <1>2 DEF Inv, Together, Written
<1> QED
  BY <1>2, <1>3, <1>4 DEF Inv, CopyOK

LEMMA InvStep ==
    Inv /\ [Next]_vars => Inv'
<1> SUFFICES ASSUME Inv, [Next]_vars PROVE Inv'
  OBVIOUS
<1>1. CASE UNCHANGED vars
  BY <1>1 DEF vars, Inv, Together
<1>2. ASSUME NEW size \in Size, CopyOf(size) PROVE Inv'
  BY <1>2, Resized, BytesKeep DEF CopyOf, Inv
<1>3. CASE getByteP2PoWBlock
  BY <1>3, GivenKeeps
<1>4. ASSUME NEW i \in 1..Len(bytes.blocks), WriteBytes(i) PROVE Inv'
  BY <1>4, WriteKeeps
<1>5. ASSUME NEW a \in Account, NEW r \in Rest,
             nanoCreateBlock(a, r) \/ nano_create_block(a, r)
      PROVE  Inv'
  <2> DEFINE b == Block(a, Frontier, r, 2)
  <2>1. 2 \in Prefixes
    BY DEF Prefixes
  <2>2. BlockOK(b) /\ f_nano_is_valid_block(b)
    BY <2>1, MadeBlocks DEF f_nano_is_valid_block
  <2> HIDE DEF b
  <2>3. ObjectOK(ToJava(b)) /\ ArrayOK(One(b))
    BY <2>2, BytesBack, OneOK
  <2>4. CASE nanoCreateBlock(a, r)
    BY <2>3, <2>4, ObjectKeeps DEF nanoCreateBlock, b
  <2>5. CASE nano_create_block(a, r)
    BY <2>3, <2>5, BytesKeep DEF nano_create_block, b
  <2> QED
    BY <1>5, <2>4, <2>5
<1>6. CASE ToByte
  <2>1. ArrayOK(nanoBlockToByte(object))
    BY <1>6, ObjectBack, OneOK DEF ToByte, nanoBlockToByte, Inv
  <2> QED
    BY <1>6, <2>1, BytesKeep DEF ToByte, Passes
<1>7. ASSUME NEW n \in -1..MaxInt, FromByte(n) \/ FromP2PoW(n) PROVE Inv'
  BY <1>7, ObjectMade, ObjectKeeps DEF FromByte, FromP2PoW, Inv, Passes
<1>8. ASSUME NEW reward \in Reward, P2PoWOfBytes(reward) PROVE Inv'
  BY <1>8, PairKeeps DEF P2PoWOfBytes, Inv, Passes
<1>9. ASSUME NEW reward \in Reward, P2PoWOfObject(reward) PROVE Inv'
  <2>1. ArrayOK(nanoBlockToByte(object))
    BY <1>9, ObjectBack, OneOK DEF P2PoWOfObject, nanoBlockToByte, Inv
  <2> QED
    BY <1>9, <2>1, PairKeeps DEF P2PoWOfObject, Passes
<1>10. ASSUME NEW key \in Account, signNanoBlock(key) \/ SignBytes(key) PROVE Inv'
  BY <1>10, SignKeeps
<1>11. CASE ReleaseBytes
  BY <1>11, ReleaseKeeps
<1> QED
  BY <1>1, <1>2, <1>3, <1>4, <1>5, <1>6, <1>7, <1>8, <1>9, <1>10, <1>11 DEF Next

LEMMA InvAlways ==
    Spec => []Inv
  BY InvInit, InvStep, PTL DEF Spec

----------------------------------------------------------------------------
(* Theorems.                                                               *)

\* Arrays hold what fits into them, prefixes fit into a byte, and an array that
\* is being signed keeps its size.
THEOREM StoreTypeCorrect == Spec => []TypeOK
<1>1. ASSUME Inv PROVE TypeOK
  <2>1. ASSUME NEW array \in {bytes, p2PoWBlock}
        PROVE  /\ array.size \in Size \union {0}
               /\ Len(array.blocks) = array.size \div BlockSize
               /\ \A i \in 1..Len(array.blocks) : array.blocks[i].prefixes \in Prefixes
    <3>1. ArrayOK(array)
      BY <1>1 DEF Inv
    <3>2. \A i \in 1..Len(array.blocks) : BlockOK(array.blocks[i])
      BY <3>1, ArrayIs
    <3> QED
      BY <3>1, <3>2, ArrayIs DEF ArrayOK, BlockOK
  <2> QED
    BY <1>1, <2>1 DEF TypeOK, Inv, ObjectOK, CopyOK, Together
<1> QED
  BY <1>1, InvAlways, PTL

\* byteToNanoBlock never reads past the end of an array, nor refuses a block that
\* lies in it, whatever block number it is given.
THEOREM BlockStaysInside == Spec => []BlockInside
<1>1. ASSUME Inv PROVE BlockInside
  BY <1>1, AcceptsInside DEF Inv, ArrayOK, BlockInside
<1> QED
  BY <1>1, InvAlways, PTL

\* The conversions between an object and its bytes are inverse to each other.
THEOREM NothingIsLost == Spec => []NothingLost
<1>1. ASSUME Inv PROVE NothingLost
  <2>1. byteToNanoBlock(nanoBlockToByte(object), 0) = object
    <3>1. BlockAt(One(ToC(object)), 0) = ToC(object)
      BY DEF BlockAt, One, Array
    <3> QED
      BY <1>1, <3>1, ObjectBack DEF Inv, byteToNanoBlock, nanoBlockToByte
  <2>2. ASSUME NEW array \in {bytes, p2PoWBlock}, NEW n \in -1..MaxInt,
               Converts(array, n)
        PROVE  ToC(byteToNanoBlock(array, n)) = array.blocks[n + 1]
    <3>1. ArrayOK(array)
      BY <1>1 DEF Inv
    <3>2. BlockOK(BlockAt(array, n)) /\ f_nano_is_valid_block(BlockAt(array, n))
      BY <2>2, <3>1, Converted
    <3> QED
      BY <3>2, BytesBack DEF byteToNanoBlock, BlockAt
  <2> QED
    BY <2>1, <2>2 DEF NothingLost, verifySignatureNanoBlock, getNanoBlockHash
<1> QED
  BY <1>1, InvAlways, PTL

\* When signByteNanoBlock returns, the array holds a block and its signature by
\* the key it was called with, whatever was written into the array meanwhile.
THEOREM SignedBytesStayTrue == Spec => SignedBytesAgree
<1>1. Inv /\ [Next]_vars =>
        [signing # NotSigning /\ signing' = NotSigning =>
           /\ Len(bytes'.blocks) = 1
           /\ bytes'.blocks[1].signature = Signature(signing.key, bytes'.blocks[1])]_vars
  <2> SUFFICES ASSUME Inv, [Next]_vars, signing # NotSigning, signing' = NotSigning
               PROVE  /\ Len(bytes'.blocks) = 1
                      /\ bytes'.blocks[1].signature =
                           Signature(signing.key, bytes'.blocks[1])
    OBVIOUS
  <2>1. ReleaseBytes
    BY DEF Next, vars, CopyOf, getByteP2PoWBlock, WriteBytes, nanoCreateBlock,
           nano_create_block, ToByte, FromByte, FromP2PoW, P2PoWOfBytes, P2PoWOfObject,
           MakeP2PoW, signNanoBlock, SignBytes
  <2>2. bytes'.blocks = <<signing.copy>>
    BY <2>1 DEF ReleaseBytes, Into, One, Array
  <2>3. signing.copy.signature = Signature(signing.key, signing.copy)
    BY DEF Inv, CopyOK
  <2> QED
    BY <2>2, <2>3
<1> QED
  BY <1>1, InvAlways, PTL DEF Spec, SignedBytesAgree

----------------------------------------------------------------------------
(* Signatures on their way.                                                *)

\* What a signature vouches for is what is hashed.
LEMMA SameVouched ==
    ASSUME NEW b, NEW c, Vouched(b), c.signature = b.signature, Hash(c) = Hash(b)
    PROVE  Vouched(c)
  BY DEF Vouched, Signature

LEMMA UnsignedVouched ==
    /\ Vouched(ZeroBlock)
    /\ \A a, p, r, n : Vouched(Block(a, p, r, n))
    /\ Vouched(ToC(Empty))
<1>1. ZeroBlock.signature = Zeroes /\ \A a, p, r, n : Block(a, p, r, n).signature = Zeroes
  BY DEF ZeroBlock, Block
<1>2. ToC(Empty).signature = Null
  BY DEF ToC, Empty
<1> QED
  BY <1>1, <1>2 DEF Vouched

AllVouched(array) == \A i \in 1..Len(array.blocks) : Vouched(array.blocks[i])

LEMMA OneVouched ==
    ASSUME NEW b, Vouched(b)
    PROVE  AllVouched(One(b))
<1>1. One(b).blocks = <<b>>
  BY DEF One, Array
<1> QED
  BY <1>1 DEF AllVouched

LEMMA PairVouched ==
    ASSUME NEW b, BlockOK(b), Vouched(b), NEW r \in Reward
    PROVE  AllVouched(Pair(b, r))
<1>1. Vouched(r)
  BY UnsignedVouched DEF Reward
<1>2. Pair(b, r).blocks = <<b, r>>
  BY Paired
<1>3. \A i \in 1..2 : i = 1 \/ i = 2
  OBVIOUS
<1> QED
  BY <1>1, <1>2, <1>3 DEF AllVouched

LEMMA ObjectVouched ==
    ASSUME NEW array, ArrayOK(array), AllVouched(array), NEW n \in -1..MaxInt,
           Converts(array, n)
    PROVE  Vouched(ToC(byteToNanoBlock(array, n)))
<1>1. /\ n + 1 \in 1..Len(array.blocks)
      /\ BlockOK(BlockAt(array, n)) /\ f_nano_is_valid_block(BlockAt(array, n))
  BY Converted
<1>2. ToC(byteToNanoBlock(array, n)) = array.blocks[n + 1]
  BY <1>1, BytesBack DEF byteToNanoBlock, BlockAt
<1> QED
  BY <1>1, <1>2 DEF AllVouched

LEMMA ResizeVouched ==
    ASSUME NEW array, ArrayOK(array), AllVouched(array), NEW size \in Size
    PROVE  AllVouched(Resize(array, size))
<1> DEFINE k == size \div BlockSize
           s == [i \in 1..k |->
                   IF i <= Len(array.blocks) THEN array.blocks[i] ELSE ZeroBlock]
<1>1. k \in Nat /\ Len(array.blocks) \in Nat
  BY Fits, ArrayIs
<1>2. ASSUME NEW i \in 1..k PROVE Vouched(s[i])
  <2>1. CASE i <= Len(array.blocks)
    BY <1>1, <2>1 DEF AllVouched
  <2>2. CASE ~(i <= Len(array.blocks))
    BY <2>2, UnsignedVouched
  <2> QED
    BY <2>1, <2>2
<1>3. Len(s) = k
  <2>1. s = [i \in 1..k |-> s[i]]
    OBVIOUS
  <2> HIDE DEF s
  <2> QED
    BY <1>1, <2>1, Lengths
<1>4. Resize(array, size).blocks = s
  BY DEF Resize, Array
<1> HIDE DEF s, k
<1> QED
  BY <1>2, <1>3, <1>4 DEF AllVouched

\* The program writes what is not hashed, or zeroes.
LEMMA ScribbledVouched ==
    ASSUME NEW b, BlockOK(b), Vouched(b), NEW c \in Scribbled(b), Hash(c) = Hash(b)
    PROVE  Vouched(c)
<1>1. CASE c = ZeroBlock
  BY <1>1, UnsignedVouched
<1>2. CASE c # ZeroBlock
  <2>1. c.signature = b.signature
    <3>1. CASE \E r \in Rest : c = [b EXCEPT !.rest = r]
      BY <3>1 DEF BlockOK
    <3>2. CASE c = [b EXCEPT !.prefixes = 255, !.work = [nonce |-> 1]]
      BY <3>2 DEF BlockOK
    <3> QED
      BY <1>2, <3>1, <3>2 DEF Scribbled
  <2> QED
    BY <2>1, SameVouched
<1> QED
  BY <1>1, <1>2

LEMMA WriteVouched ==
    ASSUME Inv, SignaturesTravel, NEW i \in 1..Len(bytes.blocks), WriteBytes(i)
    PROVE  SignaturesTravel'
<1> DEFINE b == bytes.blocks[i]
<1>1. PICK d \in Scribbled(b) :
         /\ Into([bytes EXCEPT !.blocks[i] = d])
         /\ edited' = IF Hash(d) = Hash(b) THEN edited ELSE edited \union Written
  BY DEF WriteBytes
<1>2. UNCHANGED <<object, shared, signing>>
  BY DEF WriteBytes
<1>3. /\ bytes.blocks = [j \in 1..Len(bytes.blocks) |-> bytes.blocks[j]]
      /\ \A j \in 1..Len(bytes.blocks) : BlockOK(bytes.blocks[j])
      /\ Len(bytes.blocks) \in Nat
      /\ bytes = Array(bytes.size, bytes.blocks)
  BY ArrayIs DEF Inv, ArrayOK
<1> DEFINE s == [bytes.blocks EXCEPT ![i] = d]
<1>4. bytes'.blocks = s /\ bytes' = [bytes EXCEPT !.blocks[i] = d]
  BY <1>1, <1>3 DEF Into, Array
<1>5. Len(s) = Len(bytes.blocks)
  <2> DEFINE k == Len(bytes.blocks)
  <2>1. k \in Nat /\ s = [j \in 1..k |-> s[j]]
    BY <1>3
  <2> HIDE DEF s, k
  <2>2. Len(s) = k
    BY <2>1, Lengths
  <2> QED
    BY <2>2 DEF k
<1>6. ASSUME "bytes" \notin edited'
      PROVE  AllVouched(bytes')
  <2>1. Hash(d) = Hash(b) /\ "bytes" \notin edited
    BY <1>1, <1>6 DEF Written
  <2>2. \A j \in 1..Len(bytes.blocks) : Vouched(bytes.blocks[j])
    BY <2>1 DEF SignaturesTravel
  <2>3. Vouched(d)
    BY <1>1, <1>3, <2>1, <2>2, ScribbledVouched
  <2>4. \A j \in 1..Len(bytes.blocks) : Vouched(s[j])
    BY <1>3, <2>2, <2>3
  <2> HIDE DEF s
  <2> QED
    BY <1>4, <1>5, <2>4 DEF AllVouched
<1>7. ASSUME "pair" \notin edited'
      PROVE  AllVouched(p2PoWBlock')
  <2>1. CASE shared
    <3>1. p2PoWBlock' = bytes'
      BY <1>1, <2>1 DEF Into
    <3>2. "bytes" \notin edited'
      BY <1>1, <1>7, <2>1 DEF Inv, Together, Written
    <3> QED
      BY <1>6, <3>1, <3>2
  <2>2. CASE ~shared
    <3>1. p2PoWBlock' = p2PoWBlock /\ "pair" \notin edited
      BY <1>1, <1>7, <2>2 DEF Into, Written
    <3>2. AllVouched(p2PoWBlock)
      BY <3>1 DEF SignaturesTravel, AllVouched
    <3> QED
      BY <3>1, <3>2
  <2> QED
    BY <2>1, <2>2
<1>8. "object" \notin edited' => Vouched(ToC(object'))
  BY <1>1, <1>2 DEF SignaturesTravel, Written
<1> QED
  BY <1>6, <1>7, <1>8 DEF SignaturesTravel, AllVouched

LEMMA SignedVouched ==
    ASSUME Inv, NEW key \in Account, signNanoBlock(key)
    PROVE  Vouched(ToC(object'))
<1> DEFINE s == Signature(key, ToC(object))
           c == [ToC(object) EXCEPT !.signature = s]
<1>1. BlockOK(ToC(object)) /\ ObjectOK(object)
  BY ObjectBack DEF Inv, signNanoBlock
<1>2. c.signature = s /\ Signature(key, c) = s
  BY <1>1, SignatureOfSigned
<1>3. object' = [object EXCEPT !.signature = s]
  BY DEF signNanoBlock
<1>4. ToC(object') = c
  <2> HIDE DEF s
  <2> QED
    BY <1>1, <1>3 DEF ToC, ObjectOK
<1> HIDE DEF c
<1> QED
  BY <1>2, <1>4 DEF Vouched

\* What a step makes is vouched for if what it was made of is.
LEMMA TravelStep ==
    ASSUME Inv, SignaturesTravel, [Next]_vars
    PROVE  SignaturesTravel'
<1> DEFINE O == "object" \notin edited => Vouched(ToC(object))
           B == "bytes" \notin edited => AllVouched(bytes)
           P == "pair" \notin edited => AllVouched(p2PoWBlock)
<1>1. O /\ B /\ P
  BY DEF SignaturesTravel, AllVouched
<1> SUFFICES O' /\ B' /\ P'
  BY DEF SignaturesTravel, AllVouched
<1>2. CASE UNCHANGED vars
  BY <1>1, <1>2 DEF vars, AllVouched
<1>3. ASSUME NEW size \in Size, CopyOf(size) PROVE O' /\ B' /\ P'
  BY <1>1, <1>3, ResizeVouched DEF CopyOf, Inv
<1>4. CASE getByteP2PoWBlock
  BY <1>1, <1>4 DEF getByteP2PoWBlock, Passes, AllVouched
<1>5. ASSUME NEW i \in 1..Len(bytes.blocks), WriteBytes(i) PROVE O' /\ B' /\ P'
  <2>1. SignaturesTravel'
    BY <1>5, WriteVouched
  <2> QED
    BY <2>1 DEF SignaturesTravel, AllVouched
<1>6. ASSUME NEW a \in Account, NEW r \in Rest,
             nanoCreateBlock(a, r) \/ nano_create_block(a, r)
      PROVE  O' /\ B' /\ P'
  <2> DEFINE b == Block(a, Frontier, r, 2)
  <2>1. 2 \in Prefixes
    BY DEF Prefixes
  <2>2. BlockOK(b) /\ f_nano_is_valid_block(b) /\ Vouched(b)
    BY <2>1, MadeBlocks, UnsignedVouched DEF f_nano_is_valid_block
  <2> HIDE DEF b
  <2>3. Vouched(ToC(ToJava(b))) /\ AllVouched(One(b))
    BY <2>2, BytesBack, OneVouched
  <2>4. CASE nanoCreateBlock(a, r)
    BY <1>1, <2>3, <2>4 DEF nanoCreateBlock, b, AllVouched
  <2>5. CASE nano_create_block(a, r)
    BY <1>1, <2>3, <2>5 DEF nano_create_block, b, AllVouched
  <2> QED
    BY <1>6, <2>4, <2>5
<1>7. CASE ToByte
  BY <1>1, <1>7, OneVouched DEF ToByte, nanoBlockToByte, Passes
<1>8. ASSUME NEW n \in -1..MaxInt, FromByte(n) \/ FromP2PoW(n) PROVE O' /\ B' /\ P'
  BY <1>1, <1>8, ObjectVouched DEF FromByte, FromP2PoW, Inv, Passes
<1>9. ASSUME NEW reward \in Reward, P2PoWOfBytes(reward) PROVE O' /\ B' /\ P'
  <2>1. bytes.size = BlockSize /\ BlockOK(bytes.blocks[1])
    BY <1>9, FirstOK DEF P2PoWOfBytes, MakeP2PoW, Inv
  <2>2. 1 \in 1..Len(bytes.blocks)
    <3>1. Len(bytes.blocks) = 1
      BY <2>1, ArrayIs, Fits DEF Inv
    <3> QED
      BY <3>1
  <2>3. AllVouched(bytes) => AllVouched(Pair(bytes.blocks[1], reward))
    BY <2>1, <2>2, PairVouched DEF AllVouched
  <2> QED
    BY <1>1, <1>9, <2>3 DEF P2PoWOfBytes, MakeP2PoW, Passes
<1>10. ASSUME NEW reward \in Reward, P2PoWOfObject(reward) PROVE O' /\ B' /\ P'
  <2>1. BlockOK(ToC(object)) /\ nanoBlockToByte(object).blocks[1] = ToC(object)
    BY <1>10, ObjectBack DEF P2PoWOfObject, nanoBlockToByte, One, Array, Inv
  <2>2. Vouched(ToC(object)) => AllVouched(Pair(ToC(object), reward))
    BY <2>1, PairVouched
  <2>3. /\ p2PoWBlock' = Pair(ToC(object), reward)
        /\ UNCHANGED <<object, bytes>>
        /\ edited' = IF "object" \in edited THEN edited \union {"pair"}
                                            ELSE edited \ {"pair"}
    BY <1>10, <2>1 DEF P2PoWOfObject, MakeP2PoW, Passes
  <2> QED
    BY <1>1, <2>2, <2>3
<1>11. ASSUME NEW key \in Account, signNanoBlock(key) PROVE O' /\ B' /\ P'
  <2>1. Vouched(ToC(object'))
    BY <1>11, SignedVouched
  <2> QED
    BY <1>1, <1>11, <2>1 DEF signNanoBlock
<1>12. ASSUME NEW key \in Account, SignBytes(key) PROVE O' /\ B' /\ P'
  BY <1>1, <1>12 DEF SignBytes, AllVouched
<1>13. CASE ReleaseBytes
  <2>1. Vouched(signing.copy)
    BY <1>13 DEF Inv, CopyOK, ReleaseBytes, Vouched
  <2>2. AllVouched(One(signing.copy))
    BY <2>1, OneVouched
  <2>3. /\ bytes' = One(signing.copy)
        /\ p2PoWBlock' = IF shared THEN One(signing.copy) ELSE p2PoWBlock
        /\ edited' = edited \ Written
        /\ object' = object
    BY <1>13 DEF ReleaseBytes, Into
  <2> QED
    BY <1>1, <2>2, <2>3 DEF Written
<1> QED
  BY <1>2, <1>3, <1>4, <1>5, <1>6, <1>7, <1>8, <1>9, <1>10, <1>11, <1>12, <1>13 DEF Next

\* However a block goes through objects, bytes and P2PoWBlocks, and whatever the
\* program writes into arrays elsewhere, its signature is one of what is in it;
\* what the program may have spoilt is what comes from the array it wrote into,
\* or from the P2PoWBlock whose array that was.
THEOREM SignaturesSurvive == Spec => []SignaturesTravel
<1>1. Init => SignaturesTravel
  <2> SUFFICES ASSUME Init PROVE SignaturesTravel
    OBVIOUS
  <2>1. NoArray.blocks = <<>>
    BY DEF NoArray, Array
  <2> QED
    BY <2>1, UnsignedVouched DEF Init, SignaturesTravel
<1>2. Inv /\ SignaturesTravel /\ [Next]_vars => SignaturesTravel'
  BY TravelStep
<1> QED
  BY <1>1, <1>2, InvAlways, PTL DEF Spec

===============================================================================
