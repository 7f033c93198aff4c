------------------------------- MODULE MCCalls -------------------------------
(***************************************************************************)
(* NativeCalls with the natives of the library, for TLC.                   *)
(***************************************************************************)
EXTENDS NativeCalls, NativeCode

CONSTANTS t1, t2

AllNatives == DOMAIN CodeOfNative

\* One thread calls every native.
EveryNative == [t \in Thread |-> AllNatives]

\* Both threads handle keys in the scratch buffer of mynanojava.c.
KeysOfOneUnit ==
    [t \in Thread |-> {"generateNanoSeed", "fromNanoSeed", "signNanoBlock"}]

\* t1 stays in mynanojava.c and t2 in bitcoin_util.c.
OneUnitEach ==
    [t \in Thread |->
        IF t = t1 THEN {"signByteNanoBlock", "nanoPoW", "generateNanoSeed"}
                  ELSE {"generateMasterKey", "wifToBTC_Address", "wifToPrivateKey"}]

\* Both threads draw random bytes.
RandomOfBothUnits ==
    [t \in Thread |-> IF t = t1 THEN {"nanoPoW"} ELSE {"generateMasterKey"}]

==============================================================================
