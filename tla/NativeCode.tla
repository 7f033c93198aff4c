------------------------------ MODULE NativeCode ------------------------------
(***************************************************************************)
(* All of the native methods by name, and what they are known to get wrong.*)
(***************************************************************************)
EXTENDS NanoScripts, BitcoinScripts

NanoCode ==
    [license |-> license,
     nano_add_sub |-> nano_add_sub,
     nano_create_block |-> nano_create_block,
     nanoBlockToJSON |-> nanoBlockToJSON,
     nanoP2PoWBlock |-> nanoP2PoWBlock,
     p2powToJson |-> p2powToJson,
     nanoCreateBlock |-> nanoCreateBlock,
     nanoBlockToByte |-> nanoBlockToByte,
     nanoPoW |-> nanoPoW,
     nanoBytePoW |-> nanoBytePoW,
     byteToNanoBlock |-> byteToNanoBlock,
     NanoBlock_nanoBlockToJSON |-> NanoBlock_nanoBlockToJSON,
     byteToWallet |-> byteToWallet,
     getBalanceFromByte |-> getBalanceFromByte,
     getBalanceFromNanoBlock |-> getBalanceFromNanoBlock,
     signByteNanoBlock |-> signByteNanoBlock,
     signNanoBlock |-> signNanoBlock,
     signatureByteToString |-> signatureByteToString,
     verifySignatureByteNanoBlock |-> verifySignatureByteNanoBlock,
     verifySignatureNanoBlock |-> verifySignatureNanoBlock,
     generateNanoSeed |-> generateNanoSeed,
     fromNanoSeed |-> fromNanoSeed,
     getByteNanoBlockHash |-> getByteNanoBlockHash,
     getNanoBlockHash |-> getNanoBlockHash]

BitcoinCode ==
    [generateMasterKey |-> generateMasterKey,
     generateByteMasterKey |-> generateByteMasterKey,
     toBase58 |-> toBase58,
     privateKeyToWIF |-> privateKeyToWIF,
     byteMasterPrivateKeyToWIF |-> byteMasterPrivateKeyToWIF,
     byteMasterPrivateKeyToMasterPublicKey |-> byteMasterPrivateKeyToMasterPublicKey,
     byteMasterPublicKeyToBTC_Address |-> byteMasterPublicKeyToBTC_Address,
     byteMasterPrivateKeyToBTC_Address |-> byteMasterPrivateKeyToBTC_Address,
     wifToBTC_Address |-> wifToBTC_Address,
     byteDeriveXKey |-> byteDeriveXKey,
     wifToPrivateKey |-> wifToPrivateKey,
     masterPrivateKeyToByte |-> masterPrivateKeyToByte,
     masterPublicKeyToByte |-> masterPublicKeyToByte,
     base58ToByte |-> base58ToByte]

CodeOfNative ==
    LET nano == NanoCode
        bitcoin == BitcoinCode
    IN  [n \in DOMAIN nano \union DOMAIN bitcoin |->
           IF n \in DOMAIN nano THEN nano[n] ELSE bitcoin[n]]

\* A master key of the wrong type and a failing malloc return without
\* releasing the string they were given.
LeakyPath ==
    {<<"masterPrivateKeyToByte", 3>>, <<"masterPublicKeyToByte", 3>>,
     <<"base58ToByte", 3>>}

\* toBase58 returns a variable it never assigned next to the exception of the
\* encoder; signatureByteToString returns null, and throws nothing, for a
\* signature of zeroes.
OddPath == {<<"toBase58", 3>>, <<"signatureByteToString", 4>>}

\* The generators erase msg only after they generated something.
UnwipedNative == {"generateNanoSeed", "generateMasterKey", "generateByteMasterKey"}

==============================================================================
