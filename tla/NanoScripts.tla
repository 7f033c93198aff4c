----------------------------- MODULE NanoScripts -----------------------------
(***************************************************************************)
(* The native methods of src/main/util/mynanojava.c, one definition each,  *)
(* in the vocabulary of CallSteps.                                         *)
(*                                                                         *)
(* e1, e2, ... are the rungs from the label ..._EXIT1, ..._EXIT2, ... of   *)
(* the function down to its return.  Where a text is formatted into msg,   *)
(* the number is the least number of bytes it has, terminator included.    *)
(* Checks in a row that leave by the same exits are one step.              *)
(***************************************************************************)
EXTENDS CallSteps

(* What passes through msg.                                                *)

RawA       == Data(0, 16, "raw A")          \* nano_add_sub, *create*block
RawB       == Data(16, 16, "raw B")
RawHex     == Data(0, 33, "raw hex")
Json       == Data(0, MsgSize, "json")
\* (mutant) msg2 starts where msg does.
Prefixes_low == Data(0, 4, "prefixes")

Prefixes   == Data(384, 4, "prefixes")      \* msg2 = msg + sizeof(msg)/2
PowHash    == Data(0, 32, "hash")
WalletKey  == Data(128, 32, "public key")
WalletText == Data(0, 65, "wallet")
Balance    == Data(0, 41, "balance")
PrivateKey == Data(0, 32, "key")
Account    == Data(32, 32, "account")       \* the signing key is key || account
Signature  == Data(0, 129, "signature")
NewSeed    == Data(384, 32, "seed")
SeedHex    == Data(0, 65, "seed")
SeedBytes  == Data(0, 32, "seed")
PairSecret == Data(128, 64, "keypair")
PairPublic == Data(256, 32, "public key")
BlockHash  == Data(128, 32, "hash")

Nano(steps, done) == Script("nano", steps, done)

----------------------------------------------------------------------------
(* Helpers.                                                                *)

\* java_NanoBlock_2_C_NanoBlock_util: a C block out of a NanoBlock object.
\* The helper formats the text, frees what it allocated itself and returns an
\* error; the caller throws the text and takes its ladder.  The six byte array
\* fields are fetched alike; one of them stands for all.  The other two have part
\* of their text formatted into msg2 first, where it is shorter than the cell.
BlockFromJava(ladder) ==
    LET SayMsg2 == Rung("say", "", {})
        Leave(n, before) == before \o <<Say(n), Free("block"), Throw(n)>> \o ladder
    IN  << Check(<<Formatted(39, ladder), Formatted(67, ladder)>>),
           Get("block", <<Formatted(45, ladder)>>),
           Get("field", <<Leave(72, <<>>)>>),
           Check(<<Leave(64, <<Free("field")>>), Leave(72, <<Free("field")>>)>>),
           Put("field"),
           Check(<<Leave(79, <<SayMsg2>>)>>),
           Load({Prefixes}, <<Leave(79, <<SayMsg2>>)>>),
           Use({Prefixes}, <<>>) >>

\* The six string arguments of the two natives that create a block; previous
\* is null for the first block of an account.
BlockStrings(e) ==
    << Check(<<Literal(<<>>)>>),
       Get("account", <<Literal(<<>>)>>),
       May(Get("previous", <<Literal(e[1])>>)),
       Get("representative", <<Literal(e[2])>>),
       Get("balance", <<Literal(e[3])>>),
       Get("value", <<Literal(e[4])>>),
       Get("link", <<Literal(e[5])>>) >>

\* The labels ..._EXIT1 to ..._EXIT7 of those natives.
BlockLadder ==
    LET e1 == <<Free("account")>>
        e2 == <<Free("previous")>> \o e1
        e3 == <<Free("representative")>> \o e2
        e4 == <<Free("balance")>> \o e3
        e5 == <<Free("value")>> \o e4
        e6 == <<Free("link")>> \o e5
        e7 == <<Free("block")>> \o e6
    IN  <<e1, e2, e3, e4, e5, e6, e7>>

\* Hexadecimal amounts are converted into msg, and read there.
CreateBlock(e, a, b, c) ==
    << May(Load({RawA}, <<Formatted(a, e[6])>>)),
       May(Load({RawB}, <<Formatted(b, e[6])>>)),
       [Get("block", <<Formatted(c, e[6])>>) EXCEPT !.reads = {RawA, RawB}] >>

----------------------------------------------------------------------------
(* org.mynanojava.MyNanoJava                                               *)

\* The exception is the JVM's own, when the string cannot be made.
license == Nano(<<Make({}, <<Literal(<<>>)>>)>>, <<>>)

\* (mutant) A second number that cannot be read jumps to the label of both.
nano_add_sub_overreleases ==
    LET e2 == <<Free("b"), Free("a")>>
    IN  Nano(<< Check(<<Literal(<<>>)>>),
                Get("a", <<Literal(<<>>)>>),
                Get("b", <<Literal(e2)>>),
                Make({}, <<Literal(e2)>>) >>, e2)

nano_add_sub ==
    LET e1 == <<Free("a")>>
        e2 == <<Free("b")>> \o e1
    IN  Nano(<< Check(<<Literal(<<>>)>>),
                Get("a", <<Literal(<<>>)>>),
                Get("b", <<Literal(e1)>>),
                May(Load({RawA}, <<Formatted(93, e2)>>)),
                May(Load({RawB}, <<Formatted(93, e2)>>)),
                Use({RawA, RawB}, <<Formatted(62, e2)>>),
                May(Load({RawHex}, <<>>)),
                Make({RawHex}, <<Literal(e2)>>) >>, e2)

nano_create_block ==
    LET e == BlockLadder
    IN  Nano(BlockStrings(e) \o CreateBlock(e, 117, 131, 73)
               \o <<Make({}, <<Literal(e[7])>>)>>, e[7])

\* (mutant) A wrong size returns instead of jumping to the label.
nanoBlockToJSON_leaks ==
    LET e1 == <<Free("nanoBlock")>>
    IN  Nano(<< Check(<<Literal(<<>>)>>),
                Get("nanoBlock", <<Literal(<<>>)>>),
                Check(<<Formatted(24, <<>>)>>),
                Load({Json}, <<Formatted(68, e1)>>),
                Make({Json}, <<Literal(e1)>>) >>, e1)

nanoBlockToJSON ==
    LET e1 == <<Free("nanoBlock")>>
    IN  Nano(<< Check(<<Literal(<<>>)>>),
                Get("nanoBlock", <<Literal(<<>>)>>),
                Check(<<Formatted(24, e1)>>),
                Load({Json}, <<Formatted(68, e1)>>),
                Make({Json}, <<Literal(e1)>>) >>, e1)

nanoP2PoWBlock ==
    LET e1 == <<Free("block")>>
        e2 == <<Free("workerAccount")>> \o e1
        e3 == <<Free("workerFee")>> \o e2
        e4 == <<Free("workerRepresentative")>> \o e3
        e5 == <<Free("p2pow_block")>> \o e4
    IN  Nano(<< Check(<<Literal(<<>>)>>),
                Get("block", <<Literal(<<>>)>>),
                Check(<<Formatted(31, e1), Literal(e1)>>),
                Get("workerAccount", <<Literal(e1)>>),
                Check(<<Literal(e2)>>),
                Get("workerFee", <<Literal(e2)>>),
                May(Get("workerRepresentative", <<Literal(e3)>>)),
                Get("p2pow_block", <<Formatted(79, e4)>>),
                Make({}, <<Literal(e5)>>) >>, e5)

p2powToJson ==
    LET e1 == <<Free("nanoBlock")>>
        e2 == <<Free("buffer")>> \o e1
    IN  Nano(<< Check(<<Literal(<<>>), Formatted(39, <<>>)>>),
                Get("nanoBlock", <<Literal(<<>>)>>),
                Get("buffer", <<Literal(e1)>>),
                Check(<<Formatted(68, e2)>>),
                Make({}, <<Literal(e2)>>) >>, e2)

\* setNanoBlockToJVM_util leaves its own text in msg, which is thrown here.
nanoCreateBlock ==
    LET e  == BlockLadder
        e8 == <<Unmake>> \o e[7]
    IN  Nano(BlockStrings(e) \o CreateBlock(e, 134, 148, 90)
               \o << Check(<<Formatted(70, e[7]), Literal(e[7])>>),
                     Make({}, <<Literal(e[7])>>),
                     Check(<<Formatted(65, e8)>>) >>, e[7])

nanoBlockToByte ==
    LET e1 == <<Free("block")>>
    IN  Nano(BlockFromJava(<<>>) \o <<Make({}, <<Literal(e1)>>)>>, e1)

\* (mutant) A failing proof of work jumps over the detaching.
nanoPoW_stays_attached ==
    LET e1 == <<Free("hash")>>
    IN  Nano(<< Check(<<Literal(<<>>)>>),
                May(Check(<<Literal(<<>>)>>)),
                Get("hash", <<Literal(<<>>)>>),
                Load({PowHash}, <<Formatted(76, e1)>>),
                Attach,
                [Draw({PowHash}, {}, <<Formatted(58, e1)>>) EXCEPT !.makes = TRUE],
                Detach >>, e1)

\* The result of a proof of work may be drawn while the hash is read in msg.
nanoPoW ==
    LET e1 == <<Free("hash")>>
    IN  Nano(<< Check(<<Literal(<<>>)>>),
                May(Check(<<Literal(<<>>)>>)),
                Get("hash", <<Literal(<<>>)>>),
                Load({PowHash}, <<Formatted(76, e1)>>),
                Attach,
                [Draw({PowHash}, {}, <<Formatted(58, <<Off>> \o e1)>>)
                   EXCEPT !.makes = TRUE],
                Detach >>, e1)

\* (mutant) The random function is detached before the work, not after it.
nanoBytePoW_unserved ==
    LET e1 == <<Free("hash")>>
    IN  Nano(<< Check(<<Literal(<<>>), Formatted(37, <<>>)>>),
                Get("hash", <<Literal(<<>>)>>),
                Attach,
                Detach,
                [Draw({}, {}, <<Formatted(48, e1)>>) EXCEPT !.makes = TRUE] >>, e1)

nanoBytePoW ==
    LET e1 == <<Free("hash")>>
    IN  Nano(<< Check(<<Literal(<<>>), Formatted(37, <<>>)>>),
                Get("hash", <<Literal(<<>>)>>),
                Attach,
                [Draw({}, {}, <<Formatted(48, <<Off>> \o e1)>>)
                   EXCEPT !.makes = TRUE],
                Detach >>, e1)

\* (mutant) An object that could not be filled in is returned all the same.
byteToNanoBlock_returns_both ==
    LET e1 == <<Free("nanoBlock")>>
    IN  Nano(<< Check(<<Literal(<<>>)>>),
                Get("nanoBlock", <<Literal(<<>>)>>),
                Make({}, <<Literal(e1)>>),
                Check(<<Formatted(71, e1)>>) >>, e1)

\* setNanoBlockToJVM_util's text is formatted over with another one.
byteToNanoBlock ==
    LET e1 == <<Free("nanoBlock")>>
    IN  Nano(<< Check(<<Literal(<<>>)>>),
                Get("nanoBlock", <<Literal(<<>>)>>),
                Check(<<Formatted(62, e1), Formatted(70, e1), Literal(e1)>>),
                Make({}, <<Literal(e1)>>),
                Check(<< <<Say(65)>> \o Formatted(71, <<Unmake>> \o e1) >>) >>, e1)

----------------------------------------------------------------------------
(* org.mynanojava.blockchain.NanoBlock                                     *)

NanoBlock_nanoBlockToJSON ==
    LET e1 == <<Free("block")>>
    IN  Nano(BlockFromJava(<<>>)
               \o << Load({Json}, <<Formatted(86, e1)>>),
                     Make({Json}, <<Literal(e1)>>) >>, e1)

byteToWallet ==
    LET e1 == <<Free("wallet")>>
    IN  Nano(<< Check(<<Literal(<<>>)>>),
                Get("wallet", <<Literal(<<>>)>>),
                Check(<<Formatted(34, e1)>>),
                Load({WalletKey}, <<>>),
                Turn({WalletKey}, {WalletText}, <<Formatted(60, e1)>>),
                Make({WalletText}, <<Literal(e1)>>) >>, e1)

getBalanceFromByte ==
    LET e1 == <<Free("balance")>>
    IN  Nano(<< Check(<<Literal(<<>>)>>),
                Get("balance", <<Literal(<<>>)>>),
                Check(<<Literal(e1)>>),
                Load({Balance}, <<Formatted(64, e1)>>),
                Make({Balance}, <<Literal(e1)>>) >>, e1)

getBalanceFromNanoBlock ==
    LET e1 == <<Free("block")>>
    IN  Nano(BlockFromJava(<<>>)
               \o << Load({Balance}, <<Formatted(51, e1)>>),
                     Make({Balance}, <<Literal(e1)>>) >>, e1)

\* Its result is the block it signs in place: the array is copied back on
\* release (mode 0) when it succeeded and discarded (JNI_ABORT) otherwise.
signByteNanoBlock ==
    LET e1 == <<Free("nanoBlock")>>
        e2 == <<Zero, Free("privateKey")>> \o e1
    IN  Nano(<< Check(<<Literal(<<>>)>>),
                Get("nanoBlock", <<Literal(<<>>)>>),
                Check(<<Literal(e1), Formatted(45, e1)>>),
                Get("privateKey", <<Literal(e1)>>),
                Load({PrivateKey}, <<Literal(e2)>>),
                Load({Account}, <<>>),
                Make({PrivateKey, Account}, <<Formatted(68, e2)>>) >>, e2)

\* Its result is the signature field of the object it is given.
signNanoBlock ==
    LET e1 == <<Zero, Free("privateKey")>>
        e2 == <<Free("block")>> \o e1
    IN  Nano(<< Check(<<Literal(<<>>)>>),
                Get("privateKey", <<Literal(<<>>)>>),
                Load({PrivateKey}, <<Literal(e1)>>) >>
               \o BlockFromJava(e1)
               \o << Load({Account}, <<>>),
                     Use({PrivateKey, Account}, <<Literal(e2)>>),
                     Check(<<Formatted(68, e2)>>),
                     Make({}, <<Literal(e2)>>) >>, e2)

\* A signature of zeroes is no signature: null is returned for it.
signatureByteToString ==
    LET e1 == <<Free("signature")>>
    IN  Nano(<< Check(<<Literal(<<>>)>>),
                Get("signature", <<Literal(<<>>)>>),
                Check(<<Literal(e1), Formatted(59, e1)>>),
                MayAll(2, Load({Signature}, <<>>)),
                Make({Signature}, <<Literal(e1)>>) >>, e1)

verifySignatureByteNanoBlock ==
    LET e1 == <<Free("nanoBlock")>>
    IN  Nano(<< Check(<<Literal(<<>>)>>),
                Get("nanoBlock", <<Literal(<<>>)>>),
                Check(<<Literal(e1), Formatted(56, e1)>>),
                Make({}, <<Formatted(95, e1)>>) >>, e1)

verifySignatureNanoBlock ==
    LET e1 == <<Free("block")>>
    IN  Nano(<<Check(<<Literal(<<>>)>>)>> \o BlockFromJava(<<>>)
               \o <<Make({}, <<Formatted(91, e1)>>)>>, e1)

\* (mutant) Detaches when the seed was drawn only, and throws otherwise.
generateNanoSeed_stays_attached ==
    Nano(<< Check(<<Formatted(43, <<>>)>>),
            Attach,
            Draw({}, {NewSeed}, <<Formatted(82, <<>>)>>),
            Detach,
            Turn({NewSeed}, {SeedHex}, <<>>),
            Make({SeedHex}, <<Literal(<<Zero>>)>>) >>, <<Zero>>)

\* Only a seed that could be generated is erased from msg.
generateNanoSeed ==
    Nano(<< Check(<<Formatted(43, <<>>)>>),
            Attach,
            Draw({}, {NewSeed}, <<Formatted(82, <<Off>>)>>),
            Detach,
            Turn({NewSeed}, {SeedHex}, <<>>),
            Make({SeedHex}, <<Literal(<<Zero>>)>>) >>, <<Zero>>)

\* (mutant) A key pair that cannot be made jumps past the erasing label.
fromNanoSeed_leaves_seed ==
    LET e1 == <<Free("nanoSeed")>>
        e2 == <<Zero>> \o e1
    IN  Nano(<< Check(<<Literal(<<>>), Formatted(30, <<>>)>>),
                Get("nanoSeed", <<Literal(<<>>)>>),
                Load({SeedBytes}, <<Formatted(63, e2)>>),
                Turn({SeedBytes}, {PairSecret, PairPublic}, <<Formatted(61, e1)>>),
                Make({}, <<Literal(e2)>>) >>, e2)

fromNanoSeed ==
    LET e2 == <<Zero, Free("nanoSeed")>>
        e3 == <<Unmake>> \o e2
    IN  Nano(<< Check(<<Literal(<<>>), Formatted(30, <<>>)>>),
                Get("nanoSeed", <<Literal(<<>>)>>),
                Load({SeedBytes}, <<Formatted(63, e2)>>),
                Turn({SeedBytes}, {PairSecret, PairPublic}, <<Formatted(61, e2)>>),
                Check(<<Literal(e2)>>),
                Make({}, <<Literal(e2)>>),
                Check(<<Formatted(82, e3)>>),
                Use({PairPublic}, <<Literal(e3)>>),
                Use({PairSecret}, <<Literal(e3)>>) >>, e2)

getByteNanoBlockHash ==
    LET e1 == <<Free("nanoBlock")>>
    IN  Nano(<< Check(<<Literal(<<>>)>>),
                Get("nanoBlock", <<Literal(<<>>)>>),
                Check(<<Literal(e1), Formatted(48, e1)>>),
                Load({BlockHash}, <<Literal(e1)>>),
                Make({BlockHash}, <<Literal(e1)>>) >>, e1)

getNanoBlockHash ==
    LET e1 == <<Free("block")>>
    IN  Nano(<<Check(<<Literal(<<>>)>>)>> \o BlockFromJava(<<>>)
               \o << Load({BlockHash}, <<Literal(e1)>>),
                     Make({BlockHash}, <<Literal(e1)>>) >>, e1)

==============================================================================
