---------------------------- MODULE BitcoinScripts ----------------------------
(***************************************************************************)
(* The native methods of src/main/util/bitcoin_util.c, one definition      *)
(* each, written like those of NanoScripts.  They are compiled into a      *)
(* translation unit of their own and so have a msg of their own, but share *)
(* the random function of the crypto library with the Nano natives.        *)
(***************************************************************************)
EXTENDS CallSteps

MasterKey    == Data(0, 82, "master")        \* BITCOIN_SERIALIZE
MasterBase58 == Data(82, 112, "master")
Base58       == Data(0, 112, "master")       \* toBase58 may be given any key
KeyBytes     == Data(0, 33, "key")
WifText      == Data(384, 53, "wif")
PublicBytes  == Data(0, 33, "public key")
PublicMaster == Data(0, 82, "public master")
AddressHigh  == Data(64, 36, "address")
AddressLow   == Data(0, 36, "address")

Bitcoin(steps, done) == Script("bitcoin", steps, done)

----------------------------------------------------------------------------

\* generateMasterKey_util: the master key is generated into msg.  The helper
\* detaches the random function before its caller throws.
GenerateKey(n) ==
    << Check(<<Formatted(35, <<>>)>>),
       Attach,
       Draw({}, {MasterKey}, <<<<Say(n), Off, Throw(n)>>>>),
       Detach >>

\* A failing encoder returns at once: msg is erased on the way out below only.
generateMasterKey ==
    Bitcoin(GenerateKey(70)
              \o << Turn({MasterKey}, {MasterBase58}, <<Formatted(70, <<>>)>>),
                    Make({MasterBase58}, <<Literal(<<Zero>>)>>) >>, <<Zero>>)

generateByteMasterKey ==
    Bitcoin(GenerateKey(74) \o <<Make({MasterKey}, <<Literal(<<Zero>>)>>)>>, <<Zero>>)

\* `res' is assigned by NewStringUTF alone: what a call that could not encode
\* returns is whatever the variable held.
toBase58 ==
    LET e == <<Zero, Free("val")>>
    IN  Bitcoin(<< Check(<<Literal(<<>>)>>),
                   Get("val", <<Literal(<<>>)>>),
                   Load({Base58}, <<Formatted(66, <<Unset>> \o e)>>),
                   Make({Base58}, <<Literal(e)>>) >>, e)

privateKeyToWIF ==
    LET e2 == <<Zero, Free("privateKey")>>
    IN  Bitcoin(<< Check(<<Literal(<<>>)>>),
                   Get("privateKey", <<Literal(<<>>)>>),
                   Load({KeyBytes}, <<Literal(e2)>>),
                   Turn({KeyBytes}, {WifText}, <<Formatted(88, e2)>>),
                   Make({WifText}, <<Literal(e2)>>) >>, e2)

byteMasterPrivateKeyToWIF ==
    LET e1 == <<Free("masterKey")>>
        e2 == <<Zero>> \o e1
    IN  Bitcoin(<< Check(<<Literal(<<>>), Formatted(51, <<>>)>>),
                   Get("masterKey", <<Literal(<<>>)>>),
                   Check(<<Literal(e1)>>),
                   Load({KeyBytes}, <<Formatted(115, e2)>>),
                   Turn({KeyBytes}, {WifText}, <<Formatted(95, e2)>>),
                   Make({WifText}, <<Literal(e2)>>) >>, e2)

byteMasterPrivateKeyToMasterPublicKey ==
    LET e1 == <<Free("masterKey")>>
    IN  Bitcoin(<< Check(<<Literal(<<>>)>>),
                   Get("masterKey", <<Literal(<<>>)>>),
                   Load({PublicMaster}, <<Formatted(112, e1)>>),
                   Make({PublicMaster}, <<Literal(e1)>>) >>, e1)

byteMasterPublicKeyToBTC_Address ==
    LET e1 == <<Free("masterPublicKey")>>
    IN  Bitcoin(<< Check(<<Literal(<<>>), Formatted(57, <<>>)>>),
                   Get("masterPublicKey", <<Literal(<<>>)>>),
                   Check(<<Literal(e1)>>),
                   Load({PublicBytes}, <<Formatted(123, e1)>>),
                   Turn({PublicBytes}, {AddressHigh}, <<Formatted(103, e1)>>),
                   Make({AddressHigh}, <<Literal(e1)>>) >>, e1)

\* prime256v1KeyPairDynamic_util frees the key pair itself when it fails.  The
\* address is written over the private key, which the pair was made from.
AddressFromKey(pair, address, ladder) ==
    << [Get("key_pair", <<Formatted(pair, ladder)>>) EXCEPT !.reads = {KeyBytes}],
       Load({AddressLow}, <<Formatted(address, <<Free("key_pair")>> \o ladder)>>),
       Make({AddressLow}, <<Literal(<<Free("key_pair")>> \o ladder)>>) >>

byteMasterPrivateKeyToBTC_Address ==
    LET e1 == <<Free("masterKey")>>
        e2 == <<Zero>> \o e1
    IN  Bitcoin(<< Check(<<Literal(<<>>), Formatted(59, <<>>)>>),
                   Get("masterKey", <<Literal(<<>>)>>),
                   Check(<<Literal(e1)>>),
                   Load({KeyBytes}, <<Formatted(125, e2)>>) >>
                  \o AddressFromKey(122, 104, e2), <<Free("key_pair")>> \o e2)

wifToBTC_Address ==
    LET e1 == <<Free("wif")>>
        e2 == <<Zero>> \o e1
    IN  Bitcoin(<< Check(<<Literal(<<>>)>>),
                   Get("wif", <<Literal(<<>>)>>),
                   Load({KeyBytes}, <<Formatted(82, e2)>>) >>
                  \o AddressFromKey(85, 81, e2), <<Free("key_pair")>> \o e2)

\* The library allocates the derived key.
byteDeriveXKey ==
    LET e1 == <<Free("xkey")>>
        e2 == <<Free("mDepth")>> \o e1
        e3 == <<Free("btc_ser_out")>> \o e2
    IN  Bitcoin(<< Check(<<Literal(<<>>), Formatted(37, <<>>)>>),
                   Get("xkey", <<Literal(<<>>)>>),
                   Check(<<Literal(e1)>>),
                   Get("mDepth", <<Literal(e1)>>),
                   Get("btc_ser_out", <<Formatted(89, e2)>>),
                   Make({}, <<Literal(e3)>>) >>, e3)

\* (mutant) msg is not erased on success either.
wifToPrivateKey_leaves_key ==
    LET e1 == <<Free("wif")>>
    IN  Bitcoin(<< Check(<<Literal(<<>>)>>),
                   Get("wif", <<Literal(<<>>)>>),
                   Load({KeyBytes}, <<Formatted(73, e1)>>),
                   Make({KeyBytes}, <<Literal(e1)>>) >>, e1)

\* msg is erased on success; a failure overwrites the key with its text.
wifToPrivateKey ==
    LET e1 == <<Free("wif")>>
        ok == <<Zero>> \o e1
    IN  Bitcoin(<< Check(<<Literal(<<>>)>>),
                   Get("wif", <<Literal(<<>>)>>),
                   Load({KeyBytes}, <<Formatted(73, e1)>>),
                   Make({KeyBytes}, <<Literal(ok)>>) >>, ok)

\* masterKeyToJavaByte_util formats the text and releases; its caller throws.
\* A key of the wrong type returns without releasing the string.  The numbers
\* are those of masterPrivateKeyToByte, whose name is part of the text.
KeyToByte(key) ==
    LET Leave(n, before) == <<<<Say(n)>> \o before \o <<Throw(n)>>>>
        e1 == <<Free("masterKey")>>
    IN  Bitcoin(<< Check(Leave(44, <<>>)),
                   Get("masterKey", Leave(58, <<>>)),
                   Check(Leave(66, <<>>)),
                   Load({key}, Leave(82, e1)),
                   Make({key}, Leave(85, e1)) >>, <<Zero>> \o e1)

masterPrivateKeyToByte == KeyToByte(MasterKey)

masterPublicKeyToByte == KeyToByte(PublicMaster)

\* A failing malloc returns without releasing the string.
base58ToByte ==
    LET e1 == <<Free("base58str"), Free("c_out")>>
    IN  Bitcoin(<< Check(<<Literal(<<>>)>>),
                   Get("base58str", <<Literal(<<>>)>>),
                   Get("c_out", <<Literal(<<>>)>>),
                   Check(<<Formatted(69, e1)>>),
                   Make({}, <<Literal(e1)>>) >>, e1)

==============================================================================
