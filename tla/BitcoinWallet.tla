----------------------------- MODULE BitcoinWallet -----------------------------
(***************************************************************************)
(* BitcoinWallet.java: a wallet shared by the threads of a program, built  *)
(* from a new master key or from the text of one, of a master public key   *)
(* or of a WIF, on top of the natives of bitcoin_util.c.                   *)
(*                                                                         *)
(* A wallet has three fields.  masterPublicKey is a cache: the methods     *)
(* that need it look at the field, derive the key from masterPrivateKey if *)
(* it is null, store it, and read the field again to use it; two threads   *)
(* may be anywhere in that at once.  The other two never change once the   *)
(* wallet is built.                                                        *)
(*                                                                         *)
(* Keys are symbols: the seed they come from, their network and their path *)
(* of indices.  What the crypto library computes with them is external;    *)
(* any native may also fail in the library.  Each native is one step: what *)
(* two threads at once do to the buffer msg is the subject of NativeCalls. *)
(***************************************************************************)
EXTENDS Integers, Sequences

CONSTANTS
    Thread,    \* the threads of the program
    Wallet,    \* its wallets
    Root,      \* bound: the seeds of master keys
    MaxIndex   \* bound: the largest index of a key, 2^32 - 1 in the code

ASSUME WalletAssumption == MaxIndex \in Nat

Net == {"mainnet", "testnet"}

Index == -1..MaxIndex + 1

----------------------------------------------------------------------------
(* Values: keys, texts, errors.                                            *)

Null == [kind |-> "null"]

Error(code) == [kind |-> "error", code |-> code]

\* An error of the crypto library.
Failure == Error(-1)

Key(kind, r, net, path) == [kind |-> kind, root |-> r, net |-> net, path |-> path]

MasterPrivate == {Key("xprv", r, net, <<>>) : r \in Root, net \in Net}
MasterPublic  == {Key("xpub", r, net, <<>>) : r \in Root, net \in Net}
Wif == {Key("wif", r, net, <<i>>) : r \in Root, net \in Net, i \in 0..MaxIndex}

Empty == [kind |-> "empty"]

\* What a program may build a wallet from: nothing, the empty string, the text
\* of a key, or a text that only looks like one.
Junk(head) == [kind |-> "junk", head |-> head]

Text ==
    {Null, Empty} \union MasterPrivate \union MasterPublic \union Wif
        \union {Junk(head) : head \in {"xprv", "tpub", "5..."}}

\* The first four characters of a text (a WIF has none of the four others).
Head4(text) ==
    CASE text.kind = "junk" -> text.head
      [] text.kind = "xprv" -> IF text.net = "mainnet" THEN "xprv" ELSE "tprv"
      [] text.kind = "xpub" -> IF text.net = "mainnet" THEN "xpub" ELSE "tpub"
      [] text.kind = "wif" -> "5..."
      [] OTHER -> "none"

----------------------------------------------------------------------------
(* The natives of bitcoin_util.c that the wallet calls: their checks, and   *)
(* the key they return when the library does not fail.                     *)

VersionBytes == {"MAINNET_PUBLIC", "MAINNET_PRIVATE", "TESTNET_PUBLIC", "TESTNET_PRIVATE"}

generateByteMasterKey(version, r) ==
    CASE version = "MAINNET_PRIVATE" -> Key("xprv", r, "mainnet", <<>>)
      [] version = "TESTNET_PRIVATE" -> Key("xprv", r, "testnet", <<>>)
      [] OTHER -> Error(5000)

\* F_GET_XKEY_IS_BASE58 | (version + 1), nothing of the kind for other texts.
f_get_xkey_type(text) ==
    CASE text.kind = "xpub" /\ text.net = "mainnet" -> 32769
      [] text.kind = "xprv" /\ text.net = "mainnet" -> 32770
      [] text.kind = "xpub" /\ text.net = "testnet" -> 32771
      [] text.kind = "xprv" /\ text.net = "testnet" -> 32772
      [] OTHER -> -1

\* (mutant) The type is not looked at.
masterKeyToJavaByte_any(text, type) == text

\* err = f_get_xkey_type(...) != type[0] assigns the outcome of the
\* comparison: it is never type[1].
masterKeyToJavaByte(text, type) ==
    LET err == IF f_get_xkey_type(text) # type[1] THEN 1 ELSE 0
    IN  IF err # 0 /\ err # type[2] THEN Error(5152) ELSE text

masterPrivateKeyToByte(text) == masterKeyToJavaByte(text, <<32770, 32772>>)

masterPublicKeyToByte(text) == masterKeyToJavaByte(text, <<32769, 32771>>)

wifToPrivateKey(text) == IF text.kind = "wif" THEN text ELSE Failure

byteMasterPrivateKeyToMasterPublicKey(key) ==
    IF key = Null THEN Error(5040) ELSE Key("xpub", key.root, key.net, key.path)

toBase58(key) == IF key = Null THEN Error(5010) ELSE key

byteMasterPrivateKeyToWIF(key, i) ==
    IF i < 0 THEN Error(5029)
    ELSE IF i > MaxIndex THEN Error(5030)
    ELSE IF key = Null THEN Error(5025)
    ELSE Key("wif", key.root, key.net, Append(key.path, i))

byteMasterPublicKeyToBTC_Address(key, i) ==
    IF i < 0 THEN Error(5050)
    ELSE IF i > MaxIndex THEN Error(5051)
    ELSE IF key = Null THEN Error(5052)
    ELSE Key("address", key.root, key.net, Append(key.path, i))

wifToBTC_Address(wif) == Key("address", wif.root, wif.net, wif.path)

\* A derivation is a path of indices, or null.
Derivation == {{}, {<<0>>}}

byteDeriveXKey(key, derivation) ==
    IF key = Null THEN Error(5080)
    ELSE IF derivation = {} THEN Error(5084)
    ELSE [key EXCEPT !.path = @ \o (CHOOSE path \in derivation : TRUE)]

----------------------------------------------------------------------------

\* The methods of a wallet.
Question ==
    [op : {"xPrivateKey", "xPublicKey"}, of : Wallet]
        \union [op : {"toWIF", "toBitcoinAddress"}, of : Wallet, index : Index]
        \union [op : {"toDerivedAddress"}, of : Wallet, index : Index,
                derivation : Derivation]

\* The constructors.
Construction ==
    [op : {"import"}, of : Wallet, text : Text]
        \union [op : {"generate"}, of : Wallet, version : VersionBytes]

NoQuestion == [op |-> "none"]

VARIABLES
    wallet,    \* wallet[w]: the fields of w, once it is built
    job        \* job[t]: the call t is in, how far it is, and what it has got

vars == <<wallet, job>>

Unbuilt == [built |-> FALSE, masterPrivateKey |-> Null,
            masterPublicKey |-> Null, wif |-> Null]

Idle == [ask |-> NoQuestion, at |-> "idle", got |-> Null]

Init ==
    /\ wallet = [w \in Wallet |-> Unbuilt]
    /\ job = [t \in Thread |-> Idle]

\* The wallet t is in a method of.
Mine(t) == wallet[job[t].ask.of]

At(t, place, methods) == job[t].at = place /\ job[t].ask.op \in methods

Goto(t, place, value) ==
    job' = [job EXCEPT ![t] = [ask |-> @.ask, at |-> place, got |-> value]]

\* The method returns what the natives gave, unless the library failed.
Answer(t, value) ==
    /\ \E got \in {value, Failure} : Goto(t, "answered", got)
    /\ UNCHANGED wallet

Refuse(t, code) ==
    /\ Goto(t, "answered", Error(code))
    /\ UNCHANGED wallet

----------------------------------------------------------------------------
(* Constructors.  Nobody else has the object before they have returned.    *)

\* A new wallet with `key' in one field.
Holding(field, key) ==
    [built |-> TRUE,
     masterPrivateKey |-> IF field = "masterPrivateKey" THEN key ELSE Null,
     masterPublicKey |-> IF field = "masterPublicKey" THEN key ELSE Null,
     wif |-> IF field = "wif" THEN key ELSE Null]

\* The constructor c of t returns with `key' in one field, or throws.
Construct(t, c, field, key) ==
    LET thrown == IF key.kind = "error" THEN key ELSE Failure
    IN  \/ /\ key.kind # "error"
           /\ wallet' = [wallet EXCEPT ![c.of] = Holding(field, key)]
           /\ job' = [job EXCEPT ![t] = [ask |-> c, at |-> "answered", got |-> Null]]
        \/ /\ job' = [job EXCEPT ![t] = [ask |-> c, at |-> "answered", got |-> thrown]]
           /\ UNCHANGED wallet

Generate(t, c) ==
    /\ job[t] = Idle /\ c.op = "generate" /\ ~wallet[c.of].built
    /\ \E r \in Root :
         Construct(t, c, "masterPrivateKey", generateByteMasterKey(c.version, r))

\* A text is taken by its head; what it is decides the native.
Import(t, c) ==
    /\ job[t] = Idle /\ c.op = "import" /\ ~wallet[c.of].built
    /\ \/ /\ c.text = Null
          /\ Construct(t, c, "wif", Error(-300))
       \/ /\ c.text = Empty
          /\ Construct(t, c, "wif", Error(-301))
       \/ /\ Head4(c.text) \in {"xprv", "tprv"}
          /\ Construct(t, c, "masterPrivateKey", masterPrivateKeyToByte(c.text))
       \/ /\ Head4(c.text) \in {"xpub", "tpub"}
          /\ Construct(t, c, "masterPublicKey", masterPublicKeyToByte(c.text))
       \/ /\ Head4(c.text) = "5..."
          /\ Construct(t, c, "wif", wifToPrivateKey(c.text))

----------------------------------------------------------------------------
(* Methods that read the fields once.                                      *)

Ask(t, q) ==
    /\ job[t] = Idle
    /\ wallet[q.of].built
    /\ job' = [job EXCEPT ![t] = [ask |-> q, at |-> "asked", got |-> Null]]
    /\ UNCHANGED wallet

xPrivateKey(t) ==
    /\ At(t, "asked", {"xPrivateKey"})
    /\ \/ Mine(t).masterPrivateKey = Null /\ Refuse(t, -180)
       \/ /\ Mine(t).masterPrivateKey # Null
          /\ Answer(t, toBase58(Mine(t).masterPrivateKey))

\* (mutant) A WIF is returned for every index.
toWIF_any_index(t) ==
    LET i == job[t].ask.index
    IN  /\ At(t, "asked", {"toWIF"})
        /\ \/ i < 0 /\ Refuse(t, -182)
           \/ i >= 0 /\ Mine(t).wif # Null /\ Answer(t, Mine(t).wif)
           \/ /\ i >= 0 /\ Mine(t).wif = Null
              /\ Answer(t, byteMasterPrivateKeyToWIF(Mine(t).masterPrivateKey, i))

toWIF(t) ==
    LET i == job[t].ask.index
    IN  /\ At(t, "asked", {"toWIF"})
        /\ \/ i < 0 /\ Refuse(t, -182)
           \/ i > 0 /\ Mine(t).wif # Null /\ Refuse(t, -181)
           \/ i = 0 /\ Mine(t).wif # Null /\ Answer(t, Mine(t).wif)
           \/ /\ i >= 0 /\ Mine(t).wif = Null
              /\ Answer(t, byteMasterPrivateKeyToWIF(Mine(t).masterPrivateKey, i))

----------------------------------------------------------------------------
(* Methods that go through the cached public key.                          *)

\* A method that needs the public key refuses at once what it can.
RefuseAddress(t) ==
    \/ /\ At(t, "asked", {"toBitcoinAddress"})
       /\ \/ job[t].ask.index < 0 /\ Refuse(t, -200)
          \/ job[t].ask.index > 0 /\ Mine(t).wif # Null /\ Refuse(t, -201)
    \/ /\ At(t, "asked", {"toDerivedAddress"})
       /\ Mine(t).wif # Null /\ Refuse(t, -202)

AddressOfWif(t) ==
    /\ At(t, "asked", {"toBitcoinAddress"})
    /\ job[t].ask.index = 0 /\ Mine(t).wif # Null
    /\ Answer(t, wifToBTC_Address(Mine(t).wif))

\* this.masterPublicKey == null ?
Look(t) ==
    /\ \/ At(t, "asked", {"xPublicKey"})
       \/ At(t, "asked", {"toBitcoinAddress"}) /\ job[t].ask.index >= 0 /\ Mine(t).wif = Null
       \/ At(t, "asked", {"toDerivedAddress"}) /\ Mine(t).wif = Null
    /\ Goto(t, IF Mine(t).masterPublicKey = Null THEN "deriving" ELSE "using", Null)
    /\ UNCHANGED wallet

Derive(t) ==
    LET key == byteMasterPrivateKeyToMasterPublicKey(Mine(t).masterPrivateKey)
    IN  /\ job[t].at = "deriving"
        /\ \/ key.kind = "error" /\ Goto(t, "answered", key)
           \/ key.kind # "error" /\ Goto(t, "storing", key)
           \/ Goto(t, "answered", Failure)
        /\ UNCHANGED wallet

\* (mutants) The public key is stored where the WIF is; the private key is
\* dropped once the public one is known.
Store_misplaced(t) ==
    /\ job[t].at = "storing"
    /\ wallet' = [wallet EXCEPT ![job[t].ask.of].wif = job[t].got]
    /\ Goto(t, "using", Null)

Store_drops_private(t) ==
    LET w == job[t].ask.of
    IN  /\ job[t].at = "storing"
        /\ wallet' = [wallet EXCEPT ![w].masterPublicKey = job[t].got,
                                    ![w].masterPrivateKey = Null]
        /\ Goto(t, "using", Null)

Store(t) ==
    /\ job[t].at = "storing"
    /\ wallet' = [wallet EXCEPT ![job[t].ask.of].masterPublicKey = job[t].got]
    /\ Goto(t, "using", Null)

Use(t) ==
    LET key == Mine(t).masterPublicKey
        q == job[t].ask
    IN  \/ /\ At(t, "using", {"xPublicKey"})
           /\ Answer(t, toBase58(key))
        \/ /\ At(t, "using", {"toBitcoinAddress"})
           /\ Answer(t, byteMasterPublicKeyToBTC_Address(key, q.index))
        \/ /\ At(t, "using", {"toDerivedAddress"})
           /\ LET derived == byteDeriveXKey(key, q.derivation)
              IN  Answer(t, IF derived.kind = "error"
                              THEN derived
                              ELSE byteMasterPublicKeyToBTC_Address(derived, q.index))

Finish(t) ==
    /\ job[t].at = "answered"
    /\ job' = [job EXCEPT ![t] = Idle]
    /\ UNCHANGED wallet

----------------------------------------------------------------------------

Next ==
    \E t \in Thread :
        \/ \E c \in Construction : Generate(t, c) \/ Import(t, c)
        \/ \E q \in Question : Ask(t, q)
        \/ xPrivateKey(t)
        \/ toWIF(t)
        \/ RefuseAddress(t)
        \/ AddressOfWif(t)
        \/ Look(t)
        \/ Derive(t)
        \/ Store(t)
        \/ Use(t)
        \/ Finish(t)

Spec == Init /\ [][Next]_vars

----------------------------------------------------------------------------
(* Properties.                                                             *)

\* The fields hold keys of their kind, and every thread is at a place of the
\* method it is in.
TypeOK ==
    /\ wallet \in [Wallet -> [built : BOOLEAN,
                              masterPrivateKey : MasterPrivate \union {Null},
                              masterPublicKey : MasterPublic \union {Null},
                              wif : Wif \union {Null}]]
    /\ \A t \in Thread :
         \/ job[t] = Idle
         \/ job[t].ask \in Construction /\ job[t].at = "answered"
         \/ /\ job[t].ask \in Question
            /\ job[t].at \in {"asked", "deriving", "storing", "using", "answered"}

\* A wallet is one thing only, a private master key, a public one or a WIF, and
\* the public key it caches is the one of its private key: the constructors of
\* BitcoinWallet.java return after the field they set, and the methods derive
\* and store while other threads do the same.
OneIdentity ==
    \A w \in Wallet :
        LET f == wallet[w]
        IN  f.built =>
              \/ /\ f.masterPrivateKey # Null /\ f.wif = Null
                 /\ f.masterPublicKey \in
                      {Null, byteMasterPrivateKeyToMasterPublicKey(f.masterPrivateKey)}
              \/ f.masterPrivateKey = Null /\ f.wif = Null /\ f.masterPublicKey # Null
              \/ f.masterPrivateKey = Null /\ f.wif # Null /\ f.masterPublicKey = Null

\* A thread that saw a public key, or derived one, can rely on it: a field of a
\* built wallet never goes from one key to another or back to null.
FieldsSettle ==
    [][\A w \in Wallet, field \in {"masterPrivateKey", "masterPublicKey", "wif"} :
         wallet[w][field] # Null => wallet'[w][field] = wallet[w][field]]_vars

\* The wallets and answers of WalletContract, which has neither a cache nor
\* steps: what a call got, once it was answered, with all errors alike.
Asked(t) == IF job[t].ask \in Question THEN job[t].ask ELSE NoQuestion

Reply(t) ==
    IF job[t].at # "answered" \/ Asked(t) = NoQuestion THEN [kind |-> "pending"]
    ELSE IF job[t].got.kind = "error" THEN [kind |-> "error"]
    ELSE job[t].got

Origin(f) ==
    IF ~f.built THEN [has |-> "nothing"]
    ELSE IF f.wif # Null
      THEN [has |-> "wif", root |-> f.wif.root, net |-> f.wif.net, path |-> f.wif.path]
    ELSE IF f.masterPrivateKey # Null
      THEN [has |-> "master private key", root |-> f.masterPrivateKey.root,
            net |-> f.masterPrivateKey.net]
    ELSE [has |-> "master public key", root |-> f.masterPublicKey.root,
          net |-> f.masterPublicKey.net]

Contract == INSTANCE WalletContract WITH
    origin <- [w \in Wallet |-> Origin(wallet[w])],
    asked  <- [t \in Thread |-> Asked(t)],
    reply  <- [t \in Thread |-> Reply(t)]

\* However the calls of the threads interleave on the cached key, and whichever
\* native throws in one of them, every answer is the one a wallet without cache
\* gives from what it was built from, or an error.
KeepsContract == Contract!Spec

\* A constructor calls a text one of the wrong type (error 5152) only if it is
\* not a master key: bitcoin_util.c lists both networks among the types it takes
\* and BitcoinWallet.java sends "tprv" and "tpub" texts there.
TakesMasterKeys ==
    \A t \in Thread :
        job[t].ask.op = "import" /\ job[t].got = Error(5152)
          => job[t].ask.text \notin MasterPrivate \union MasterPublic

==============================================================================
