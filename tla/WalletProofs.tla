----------------------------- MODULE WalletProofs -----------------------------
(***************************************************************************)
(* The wallet of BitcoinWallet, for every set of threads, wallets and      *)
(* seeds and every largest index: what it was built from it stays, and     *)
(* the key it caches is never the wrong one.                               *)
(***************************************************************************)
EXTENDS BitcoinWallet, TLAPS

Field == {"masterPrivateKey", "masterPublicKey", "wif"}

Fields == [built : BOOLEAN,
           masterPrivateKey : MasterPrivate \union {Null},
           masterPublicKey : MasterPublic \union {Null},
           wif : Wif \union {Null}]

Public(key) == byteMasterPrivateKeyToMasterPublicKey(key)

----------------------------------------------------------------------------
(* Keys.                                                                   *)

\* A key is neither null nor an error, and is known by its kind.
LEMMA KeyKinds ==
    /\ \A k \in MasterPrivate : k.kind = "xprv" /\ k # Null /\ Public(k) \in MasterPublic
    /\ \A k \in MasterPublic : k.kind = "xpub" /\ k # Null
    /\ \A k \in Wif : k.kind = "wif" /\ k # Null
    /\ Null.kind = "null"
<1>1. Null.kind = "null"
  BY DEF Null
<1>2. \A k \in MasterPrivate : k.kind = "xprv"
  BY DEF MasterPrivate, Key
<1>3. \A k \in MasterPublic : k.kind = "xpub"
  BY DEF MasterPublic, Key
<1>4. \A k \in Wif : k.kind = "wif"
  BY DEF Wif, Key
<1>5. ASSUME NEW k \in MasterPrivate PROVE Public(k) \in MasterPublic
  <2>1. PICK r \in Root, net \in Net : k = Key("xprv", r, net, <<>>)
    BY DEF MasterPrivate
  <2>2. k # Null
    BY <1>1, <1>2
  <2>3. Public(k) = Key("xpub", r, net, <<>>)
    BY <2>1, <2>2 DEF Public, byteMasterPrivateKeyToMasterPublicKey, Key
  <2> QED
    BY <2>3 DEF MasterPublic
<1> QED
  BY <1>1, <1>2, <1>3, <1>4, <1>5

\* A text is of one kind.
LEMMA TextKinds ==
    ASSUME NEW text \in Text
    PROVE  /\ text.kind = "xprv" => text \in MasterPrivate
           /\ text.kind = "xpub" => text \in MasterPublic
           /\ text.kind = "wif" => text \in Wif
<1>1. CASE text \in {Null, Empty}
  BY <1>1 DEF Null, Empty
<1>2. CASE text \in MasterPrivate \union MasterPublic \union Wif
  BY <1>2, KeyKinds
<1>3. CASE text \in {Junk(head) : head \in {"xprv", "tpub", "5..."}}
  BY <1>3 DEF Junk
<1> QED
  BY <1>1, <1>2, <1>3 DEF Text

\* The natives return keys of the kind the wallet keeps in its field, or throw.
LEMMA NativesReturn ==
    /\ \A text \in Text :
         /\ masterPrivateKeyToByte(text).kind # "error" =>
              masterPrivateKeyToByte(text) \in MasterPrivate
         /\ masterPublicKeyToByte(text).kind # "error" =>
              masterPublicKeyToByte(text) \in MasterPublic
         /\ wifToPrivateKey(text).kind # "error" => wifToPrivateKey(text) \in Wif
    /\ \A version \in VersionBytes, r \in Root :
         generateByteMasterKey(version, r).kind # "error" =>
           generateByteMasterKey(version, r) \in MasterPrivate
<1>1. ASSUME NEW text \in Text, masterPrivateKeyToByte(text).kind # "error"
      PROVE  masterPrivateKeyToByte(text) \in MasterPrivate
  <2>1. masterPrivateKeyToByte(text) = text /\ f_get_xkey_type(text) = 32770
    BY <1>1 DEF masterPrivateKeyToByte, masterKeyToJavaByte, Error
  <2>2. text.kind = "xprv"
    BY <2>1 DEF f_get_xkey_type
  <2> QED
    BY <2>1, <2>2, TextKinds
<1>2. ASSUME NEW text \in Text, masterPublicKeyToByte(text).kind # "error"
      PROVE  masterPublicKeyToByte(text) \in MasterPublic
  <2>1. masterPublicKeyToByte(text) = text /\ f_get_xkey_type(text) = 32769
    BY <1>2 DEF masterPublicKeyToByte, masterKeyToJavaByte, Error
  <2>2. text.kind = "xpub"
    BY <2>1 DEF f_get_xkey_type
  <2> QED
    BY <2>1, <2>2, TextKinds
<1>3. ASSUME NEW text \in Text, wifToPrivateKey(text).kind # "error"
      PROVE  wifToPrivateKey(text) \in Wif
  BY <1>3, TextKinds DEF wifToPrivateKey, Failure, Error
<1>4. ASSUME NEW version \in VersionBytes, NEW r \in Root,
             generateByteMasterKey(version, r).kind # "error"
      PROVE  generateByteMasterKey(version, r) \in MasterPrivate
  BY <1>4 DEF generateByteMasterKey, Error, MasterPrivate, Net
<1> QED
  BY <1>1, <1>2, <1>3, <1>4

----------------------------------------------------------------------------
(* The inductive invariant.                                                *)

\* A wallet has one identity, and is empty before it is built.
WalletOK(f) ==
    /\ ~f.built => f = Unbuilt
    /\ f.built =>
         \/ /\ f.masterPrivateKey # Null /\ f.wif = Null
            /\ f.masterPublicKey \in {Null, Public(f.masterPrivateKey)}
         \/ f.masterPrivateKey = Null /\ f.wif = Null /\ f.masterPublicKey # Null
         \/ f.masterPrivateKey = Null /\ f.wif # Null /\ f.masterPublicKey = Null

WalletsOK ==
    /\ wallet \in [Wallet -> Fields]
    /\ \A w \in Wallet : WalletOK(wallet[w])

Methods == {"asked", "deriving", "storing", "using", "answered"}

ByPublicKey == {"xPublicKey", "toBitcoinAddress", "toDerivedAddress"}

\* The wallet f a method is in has been built; what was read of its fields, or
\* derived from them, still holds of it.
CallOK(c, f) ==
    /\ c.at \in Methods
    /\ f.built
    /\ c.at \in {"deriving", "storing", "using"} =>
         /\ c.ask.op \in ByPublicKey
         /\ c.ask.op # "xPublicKey" => f.wif = Null
         /\ c.ask.op = "toBitcoinAddress" => c.ask.index >= 0
    /\ c.at = "storing" =>
         f.masterPrivateKey # Null /\ c.got = Public(f.masterPrivateKey)
    /\ c.at = "using" => f.masterPublicKey # Null
    /\ c.at = "answered" => c.got.kind # "pending"

JobOK(c, wallets) ==
    \/ c = Idle
    \/ c.ask \in Construction /\ c.at = "answered"
    \/ c.ask \in Question /\ CallOK(c, wallets[c.ask.of])

JobsOK ==
    /\ DOMAIN job = Thread
    /\ job = [t \in Thread |-> job[t]]
    /\ \A t \in Thread : JobOK(job[t], wallet)

Inv == WalletsOK /\ JobsOK

\* A wallet changes only by being built, and by getting its public key.
Grows(f, g) ==
    /\ f.built =>
         /\ g.built
         /\ g.masterPrivateKey = f.masterPrivateKey
         /\ g.wif = f.wif
    /\ f.masterPrivateKey # Null => g.masterPrivateKey = f.masterPrivateKey
    /\ f.masterPublicKey # Null => g.masterPublicKey = f.masterPublicKey
    /\ f.wif # Null => g.wif = f.wif

\* What a method has read of a wallet survives the growth of the wallet.
LEMMA CallGrows ==
    ASSUME NEW c, NEW f, NEW g, CallOK(c, f), Grows(f, g)
    PROVE  CallOK(c, g)
  BY DEF CallOK, Grows

LEMMA OfWallet ==
    ASSUME NEW q \in Question
    PROVE  q.of \in Wallet
  BY DEF Question

\* A question is no construction.
LEMMA QuestionOrConstruction ==
    /\ Question \cap Construction = {}
    /\ NoQuestion \notin Question /\ NoQuestion \notin Construction
    /\ \A q \in Question : q # NoQuestion
<1>1. \A q \in Question :
        q.op \in {"xPrivateKey", "xPublicKey", "toWIF", "toBitcoinAddress", "toDerivedAddress"}
  BY DEF Question
<1>2. \A c \in Construction : c.op \in {"import", "generate"}
  BY DEF Construction
<1>3. NoQuestion.op = "none"
  BY DEF NoQuestion
<1> QED
  BY <1>1, <1>2, <1>3

LEMMA InvInit ==
    Init => Inv
<1> SUFFICES ASSUME Init PROVE Inv
  OBVIOUS
<1>1. Unbuilt \in Fields /\ WalletOK(Unbuilt)
  BY DEF Unbuilt, Fields, WalletOK
<1>2. WalletsOK
  BY <1>1 DEF Init, WalletsOK
<1>3. JobsOK
  BY DEF Init, JobsOK, JobOK
<1> QED
  BY <1>2, <1>3 DEF Inv

\* A thread moves; wallets grow.
LEMMA MoveKeeps ==
    ASSUME Inv, NEW t \in Thread, NEW c, job' = [job EXCEPT ![t] = c],
           WalletsOK', \A w \in Wallet : Grows(wallet[w], wallet'[w]),
           JobOK(c, wallet')
    PROVE  Inv'
<1>1. DOMAIN job' = Thread /\ job' = [u \in Thread |-> job'[u]]
  BY DEF Inv, JobsOK
<1>2. job'[t] = c /\ \A u \in Thread \ {t} : job'[u] = job[u]
  BY DEF Inv, JobsOK
<1>3. ASSUME NEW u \in Thread \ {t} PROVE JobOK(job[u], wallet')
  <2>1. JobOK(job[u], wallet)
    BY DEF Inv, JobsOK
  <2>2. CASE job[u].ask \in Question /\ CallOK(job[u], wallet[job[u].ask.of])
    <3>1. job[u].ask.of \in Wallet
      BY <2>2, OfWallet
    <3>2. CallOK(job[u], wallet'[job[u].ask.of])
      BY <2>2, <3>1, CallGrows
    <3> QED
      BY <1>2, <2>2, <3>2 DEF JobOK
  <2> QED
    BY <1>2, <2>1, <2>2 DEF JobOK
<1> QED
  BY <1>1, <1>2, <1>3 DEF Inv, JobsOK

\* A method goes on, and the wallets stay as they are.
LEMMA GotoKeeps ==
    ASSUME Inv, NEW t \in Thread, job[t].ask \in Question,
           NEW place, NEW value, Goto(t, place, value), UNCHANGED wallet,
           place \in Methods,
           place \in {"deriving", "storing", "using"} =>
             /\ job[t].ask.op \in ByPublicKey
             /\ job[t].ask.op # "xPublicKey" => Mine(t).wif = Null
             /\ job[t].ask.op = "toBitcoinAddress" => job[t].ask.index >= 0,
           place = "storing" =>
             Mine(t).masterPrivateKey # Null /\ value = Public(Mine(t).masterPrivateKey),
           place = "using" => Mine(t).masterPublicKey # Null,
           place = "answered" => value.kind # "pending"
    PROVE  Inv'
<1> DEFINE c == [ask |-> job[t].ask, at |-> place, got |-> value]
<1>1. job' = [job EXCEPT ![t] = c]
  BY DEF Goto, Inv, JobsOK
<1>2. Mine(t).built
  <2>1. JobOK(job[t], wallet)
    BY DEF Inv, JobsOK
  <2> QED
    BY <2>1, QuestionOrConstruction DEF JobOK, CallOK, Idle, Mine
<1>3. c.ask = job[t].ask /\ c.at = place /\ c.got = value
  OBVIOUS
<1>4. CallOK(c, wallet[c.ask.of])
  BY <1>2, <1>3 DEF CallOK, Mine
<1>5. JobOK(c, wallet')
  BY <1>3, <1>4 DEF JobOK
<1>6. WalletsOK' /\ \A w \in Wallet : Grows(wallet[w], wallet'[w])
  BY DEF Inv, WalletsOK, WalletOK, Grows
<1> HIDE DEF c
<1> QED
  BY <1>1, <1>5, <1>6, MoveKeeps

\* A constructor gives an unbuilt wallet one key, or throws.
LEMMA ConstructKeeps ==
    ASSUME Inv, NEW t \in Thread, NEW c \in Construction, ~wallet[c.of].built,
           NEW field \in Field, NEW key, Construct(t, c, field, key),
           key.kind # "error" =>
             \/ field = "masterPrivateKey" /\ key \in MasterPrivate
             \/ field = "masterPublicKey" /\ key \in MasterPublic
             \/ field = "wif" /\ key \in Wif
    PROVE  /\ Inv'
           /\ \A w \in Wallet : Grows(wallet[w], wallet'[w])
<1>1. PICK got : job' = [job EXCEPT ![t] = [ask |-> c, at |-> "answered", got |-> got]]
  BY DEF Construct
<1> DEFINE d == [ask |-> c, at |-> "answered", got |-> got]
<1>2. JobOK(d, wallet')
  BY DEF JobOK
<1>3. WalletsOK' /\ \A w \in Wallet : Grows(wallet[w], wallet'[w])
  <2>1. CASE UNCHANGED wallet
    BY <2>1 DEF Inv, WalletsOK, WalletOK, Grows
  <2>2. CASE /\ key.kind # "error"
             /\ wallet' = [wallet EXCEPT ![c.of] = Holding(field, key)]
    <3> DEFINE f == Holding(field, key)
    <3>1. f \in Fields /\ WalletOK(f) /\ f.built
      <4>1. CASE field = "masterPrivateKey" /\ key \in MasterPrivate
        BY <4>1, KeyKinds DEF Holding, Fields, WalletOK
      <4>2. CASE field = "masterPublicKey" /\ key \in MasterPublic
        BY <4>2, KeyKinds DEF Holding, Fields, WalletOK
      <4>3. CASE field = "wif" /\ key \in Wif
        BY <4>3, KeyKinds DEF Holding, Fields, WalletOK
      <4> QED
        BY <2>2, <4>1, <4>2, <4>3
    <3>2. c.of \in Wallet
      BY DEF Construction
    <3>3. wallet' = [wallet EXCEPT ![c.of] = f]
      BY <2>2
    <3> HIDE DEF f
    <3>4. WalletsOK'
      BY <3>1, <3>2, <3>3 DEF Inv, WalletsOK
    <3>5. wallet[c.of] = Unbuilt
      BY <3>2 DEF Inv, WalletsOK, WalletOK
    <3>6. Grows(wallet[c.of], wallet'[c.of])
      BY <3>2, <3>3, <3>5 DEF Inv, WalletsOK, Grows, Unbuilt
    <3>7. \A w \in Wallet \ {c.of} : Grows(wallet[w], wallet'[w])
      BY <3>3 DEF Inv, WalletsOK, Grows
    <3> QED
      BY <3>4, <3>6, <3>7
  <2> QED
    BY <2>1, <2>2 DEF Construct
<1> HIDE DEF d
<1>4. job' = [job EXCEPT ![t] = d]
  BY <1>1 DEF d
<1> QED
  BY <1>2, <1>3, <1>4, MoveKeeps

\* A constructor keeps the wallets in order.
LEMMA GenerateKeeps ==
    ASSUME Inv, NEW t \in Thread, NEW c \in Construction, Generate(t, c)
    PROVE  Inv' /\ \A w \in Wallet : Grows(wallet[w], wallet'[w])
<1>1. PICK r \in Root :
        Construct(t, c, "masterPrivateKey", generateByteMasterKey(c.version, r))
  BY DEF Generate
<1>2. ~wallet[c.of].built /\ c.version \in VersionBytes
  BY DEF Generate, Construction
<1>3. "masterPrivateKey" \in Field
  BY DEF Field
<1>4. generateByteMasterKey(c.version, r).kind # "error" =>
        generateByteMasterKey(c.version, r) \in MasterPrivate
  BY <1>2, NativesReturn
<1> QED
  BY <1>1, <1>2, <1>3, <1>4, ConstructKeeps

LEMMA ImportKeeps ==
    ASSUME Inv, NEW t \in Thread, NEW c \in Construction, Import(t, c)
    PROVE  Inv' /\ \A w \in Wallet : Grows(wallet[w], wallet'[w])
<1>1. ~wallet[c.of].built /\ c.text \in Text
  BY DEF Import, Construction
<1>2. "masterPrivateKey" \in Field /\ "masterPublicKey" \in Field /\ "wif" \in Field
  BY DEF Field
<1>3. \A code : Error(code).kind = "error"
  BY DEF Error
<1>4. CASE \E code : Construct(t, c, "wif", Error(code))
  BY <1>1, <1>2, <1>3, <1>4, ConstructKeeps
<1>5. CASE Construct(t, c, "masterPrivateKey", masterPrivateKeyToByte(c.text))
  <2>1. masterPrivateKeyToByte(c.text).kind # "error" =>
          masterPrivateKeyToByte(c.text) \in MasterPrivate
    BY <1>1, NativesReturn
  <2> QED
    BY <1>1, <1>2, <1>5, <2>1, ConstructKeeps
<1>6. CASE Construct(t, c, "masterPublicKey", masterPublicKeyToByte(c.text))
  <2>1. masterPublicKeyToByte(c.text).kind # "error" =>
          masterPublicKeyToByte(c.text) \in MasterPublic
    BY <1>1, NativesReturn
  <2> QED
    BY <1>1, <1>2, <1>6, <2>1, ConstructKeeps
<1>7. CASE Construct(t, c, "wif", wifToPrivateKey(c.text))
  <2>1. wifToPrivateKey(c.text).kind # "error" => wifToPrivateKey(c.text) \in Wif
    BY <1>1, NativesReturn
  <2> QED
    BY <1>1, <1>2, <1>7, <2>1, ConstructKeeps
<1> QED
  BY <1>4, <1>5, <1>6, <1>7 DEF Import

\* A thread that stores the public key stores the one of the private key.
LEMMA StoreKeeps ==
    ASSUME Inv, NEW t \in Thread, Store(t)
    PROVE  Inv' /\ \A w \in Wallet : Grows(wallet[w], wallet'[w])
<1> DEFINE c == [ask |-> job[t].ask, at |-> "using", got |-> Null]
           w == job[t].ask.of
<1>1. job[t].ask \in Question /\ CallOK(job[t], wallet[w]) /\ job[t].at = "storing"
  <2>1. JobOK(job[t], wallet) /\ job[t].at = "storing"
    BY DEF Inv, JobsOK, Store
  <2> QED
    BY <2>1 DEF JobOK, Idle
<1>2. w \in Wallet
  BY <1>1, OfWallet
<1> HIDE DEF w
<1>3. /\ wallet[w].built
      /\ wallet[w].masterPrivateKey # Null
      /\ job[t].got = Public(wallet[w].masterPrivateKey)
      /\ job[t].ask.op \in ByPublicKey
      /\ job[t].ask.op # "xPublicKey" => wallet[w].wif = Null
      /\ job[t].ask.op = "toBitcoinAddress" => job[t].ask.index >= 0
  BY <1>1 DEF CallOK
<1>4. wallet' = [wallet EXCEPT ![w].masterPublicKey = job[t].got]
  BY DEF Store, w
<1>5. wallet[w].masterPrivateKey \in MasterPrivate /\ wallet[w] \in Fields
  BY <1>2, <1>3 DEF Inv, WalletsOK, Fields
<1>6. job[t].got \in MasterPublic /\ job[t].got # Null
  BY <1>3, <1>5, KeyKinds
<1>7. /\ wallet' \in [Wallet -> Fields]
      /\ wallet'[w] = [wallet[w] EXCEPT !.masterPublicKey = job[t].got]
      /\ \A v \in Wallet \ {w} : wallet'[v] = wallet[v]
  BY <1>2, <1>4, <1>5, <1>6 DEF Inv, WalletsOK, Fields
<1>8. /\ wallet'[w].masterPublicKey = job[t].got
      /\ wallet'[w].masterPrivateKey = wallet[w].masterPrivateKey
      /\ wallet'[w].wif = wallet[w].wif
      /\ wallet'[w].built
  BY <1>3, <1>5, <1>7 DEF Fields
<1>9. WalletOK(wallet'[w]) /\ Grows(wallet[w], wallet'[w])
  <2>1. /\ wallet[w].wif = Null
        /\ wallet[w].masterPublicKey \in {Null, Public(wallet[w].masterPrivateKey)}
    BY <1>2, <1>3 DEF Inv, WalletsOK, WalletOK
  <2> QED
    BY <1>3, <1>8, <2>1 DEF WalletOK, Grows
<1>10. \A v \in Wallet : Grows(wallet[v], wallet'[v]) /\ WalletOK(wallet'[v])
  BY <1>7, <1>9 DEF Grows, Inv, WalletsOK
<1>11. job' = [job EXCEPT ![t] = c]
  BY DEF Store, Goto
<1>12. JobOK(c, wallet')
  <2>1. c.ask = job[t].ask /\ c.at = "using" /\ c.got = Null
    OBVIOUS
  <2>2. CallOK(c, wallet'[w])
    BY <1>3, <1>6, <1>8, <2>1 DEF CallOK, Methods
  <2> QED
    BY <1>1, <2>1, <2>2 DEF JobOK, w
<1> HIDE DEF c
<1>13. WalletsOK'
  BY <1>7, <1>10 DEF WalletsOK
<1> QED
  BY <1>10, <1>11, <1>12, <1>13, MoveKeeps

----------------------------------------------------------------------------
(* The steps of the methods.                                               *)

\* Between its first step and its answer a thread is in a method.
LEMMA InMethod ==
    ASSUME Inv, NEW t \in Thread, job[t].at \in {"asked", "deriving", "storing", "using"}
    PROVE  job[t].ask \in Question /\ CallOK(job[t], Mine(t))
<1>1. JobOK(job[t], wallet)
  BY DEF Inv, JobsOK
<1> QED
  BY <1>1 DEF JobOK, Idle, Mine

LEMMA AskKeeps ==
    ASSUME Inv, NEW t \in Thread, NEW q \in Question, Ask(t, q)
    PROVE  Inv'
<1> DEFINE c == [ask |-> q, at |-> "asked", got |-> Null]
<1>1. c.ask = q /\ c.at = "asked"
  OBVIOUS
<1>2. JobOK(c, wallet')
  BY <1>1 DEF Ask, JobOK, CallOK, Methods
<1>3. job' = [job EXCEPT ![t] = c]
  BY DEF Ask
<1>4. WalletsOK' /\ \A w \in Wallet : Grows(wallet[w], wallet'[w])
  BY DEF Ask, Inv, WalletsOK, WalletOK, Grows
<1> HIDE DEF c
<1> QED
  BY <1>2, <1>3, <1>4, MoveKeeps

LEMMA AnsweredKeeps ==
    ASSUME Inv, NEW t \in Thread, job[t].at \in {"asked", "deriving", "storing", "using"},
           NEW value, value.kind # "pending", Goto(t, "answered", value), UNCHANGED wallet
    PROVE  Inv'
<1>1. job[t].ask \in Question
  BY InMethod
<1> QED
  BY <1>1, GotoKeeps DEF Methods

\* A built wallet holds what it was built from, and no other key but its public
\* one.
LEMMA BuiltFrom ==
    ASSUME NEW f \in Fields, WalletOK(f), f.built
    PROVE  \/ \E r \in Root, net \in Net :
                /\ f.masterPrivateKey = Key("xprv", r, net, <<>>) /\ f.wif = Null
                /\ f.masterPublicKey \in {Null, Key("xpub", r, net, <<>>)}
                /\ Origin(f) = Contract!Full(r, net)
           \/ \E r \in Root, net \in Net :
                /\ f.masterPrivateKey = Null /\ f.wif = Null
                /\ f.masterPublicKey = Key("xpub", r, net, <<>>)
                /\ Origin(f) = Contract!Watching(r, net)
           \/ \E r \in Root, net \in Net, i \in 0..MaxIndex :
                /\ f.masterPrivateKey = Null /\ f.masterPublicKey = Null
                /\ f.wif = Key("wif", r, net, <<i>>)
                /\ Origin(f) = Contract!Single(r, net, <<i>>)
<1>1. CASE /\ f.masterPrivateKey # Null /\ f.wif = Null
           /\ f.masterPublicKey \in {Null, Public(f.masterPrivateKey)}
  <2>1. PICK r \in Root, net \in Net : f.masterPrivateKey = Key("xprv", r, net, <<>>)
    BY <1>1 DEF Fields, MasterPrivate
  <2>2. Public(f.masterPrivateKey) = Key("xpub", r, net, <<>>)
    BY <1>1, <2>1 DEF Public, byteMasterPrivateKeyToMasterPublicKey, Key
  <2>3. Origin(f) = Contract!Full(r, net)
    BY <1>1, <2>1 DEF Origin, Contract!Full, Key
  <2> QED
    BY <1>1, <2>1, <2>2, <2>3
<1>2. CASE f.masterPrivateKey = Null /\ f.wif = Null /\ f.masterPublicKey # Null
  <2>1. PICK r \in Root, net \in Net : f.masterPublicKey = Key("xpub", r, net, <<>>)
    BY <1>2 DEF Fields, MasterPublic
  <2>2. Origin(f) = Contract!Watching(r, net)
    BY <1>2, <2>1 DEF Origin, Contract!Watching, Key
  <2> QED
    BY <1>2, <2>1, <2>2
<1>3. CASE f.masterPrivateKey = Null /\ f.wif # Null /\ f.masterPublicKey = Null
  <2>1. PICK r \in Root, net \in Net, i \in 0..MaxIndex : f.wif = Key("wif", r, net, <<i>>)
    BY <1>3 DEF Fields, Wif
  <2>2. Origin(f) = Contract!Single(r, net, <<i>>)
    BY <1>3, <2>1 DEF Origin, Contract!Single, Key
  <2> QED
    BY <1>3, <2>1, <2>2
<1> QED
  BY <1>1, <1>2, <1>3 DEF WalletOK

\* An answer to q is right for a wallet f, or an error.
RightOrError(f, q, answer) ==
    \/ answer.kind = "error"
    \/ /\ answer.kind \in {"xprv", "xpub", "wif", "address"}
       /\ answer = Contract!Right(Origin(f), q)

\* What the contract says of a wallet built from o.
LEMMA RightIs ==
    ASSUME NEW o, NEW q
    PROVE  /\ q.op = "xPrivateKey" /\ o.has = "master private key" =>
                Contract!Right(o, q) = Key("xprv", o.root, o.net, <<>>)
           /\ q.op = "toWIF" /\ o.has = "master private key" /\ Contract!Valid(q.index) =>
                Contract!Right(o, q) = Key("wif", o.root, o.net, <<q.index>>)
           /\ o.has \in {"master private key", "master public key"} =>
                /\ q.op = "xPublicKey" =>
                     Contract!Right(o, q) = Key("xpub", o.root, o.net, <<>>)
                /\ q.op = "toBitcoinAddress" /\ Contract!Valid(q.index) =>
                     Contract!Right(o, q) = Key("address", o.root, o.net, <<q.index>>)
                /\ q.op = "toDerivedAddress" /\ Contract!Valid(q.index)
                     /\ q.derivation # {} =>
                       Contract!Right(o, q)
                         = Key("address", o.root, o.net,
                               Append(CHOOSE path \in q.derivation : TRUE, q.index))
<1>1. ASSUME q.op = "xPrivateKey", o.has = "master private key"
      PROVE  Contract!Right(o, q) = Key("xprv", o.root, o.net, <<>>)
  BY <1>1 DEF Contract!Right, Key
<1>2. ASSUME q.op = "toWIF", o.has = "master private key", Contract!Valid(q.index)
      PROVE  Contract!Right(o, q) = Key("wif", o.root, o.net, <<q.index>>)
  BY <1>2 DEF Contract!Right, Key
<1>3. ASSUME q.op = "xPublicKey", o.has \in {"master private key", "master public key"}
      PROVE  Contract!Right(o, q) = Key("xpub", o.root, o.net, <<>>)
  BY <1>3 DEF Contract!Right, Key
<1>4. ASSUME q.op = "toBitcoinAddress", Contract!Valid(q.index),
             o.has \in {"master private key", "master public key"}
      PROVE  Contract!Right(o, q) = Key("address", o.root, o.net, <<q.index>>)
  BY <1>4 DEF Contract!Right, Key
<1>5. ASSUME q.op = "toDerivedAddress", Contract!Valid(q.index), q.derivation # {},
             o.has \in {"master private key", "master public key"}
      PROVE  Contract!Right(o, q)
               = Key("address", o.root, o.net,
                     Append(CHOOSE path \in q.derivation : TRUE, q.index))
  BY <1>5 DEF Contract!Right, Key
<1> QED
  BY <1>1, <1>2, <1>3, <1>4, <1>5

\* The key of the one index of a WIF, and the keys of a master key.
LEMMA RightOfPrivate ==
    ASSUME NEW f \in Fields, WalletOK(f), f.built, f.masterPrivateKey # Null,
           NEW q \in Question
    PROVE  /\ q.op = "xPrivateKey" => RightOrError(f, q, toBase58(f.masterPrivateKey))
           /\ q.op = "toWIF" =>
                RightOrError(f, q, byteMasterPrivateKeyToWIF(f.masterPrivateKey, q.index))
<1>1. PICK r \in Root, net \in Net :
        /\ f.masterPrivateKey = Key("xprv", r, net, <<>>)
        /\ Origin(f) = Contract!Full(r, net)
  BY BuiltFrom, KeyKinds DEF Key, Null
<1> DEFINE o == Origin(f)
           Told(answer) == \/ answer.kind = "error"
                           \/ /\ answer.kind \in {"xprv", "xpub", "wif", "address"}
                              /\ answer = Contract!Right(o, q)
<1>b. o = Contract!Full(r, net)
  BY <1>1
<1>c. \A answer : Told(answer) => RightOrError(f, q, answer)
  BY DEF RightOrError
<1> HIDE DEF o
<1>a. o.has = "master private key" /\ o.root = r /\ o.net = net
  BY <1>b DEF Contract!Full
<1>2. ASSUME q.op = "xPrivateKey"
      PROVE  Told(toBase58(f.masterPrivateKey))
  <2>1. Contract!Right(o, q) = Key("xprv", r, net, <<>>)
    BY <1>a, <1>2, RightIs
  <2>2. toBase58(f.masterPrivateKey) = Key("xprv", r, net, <<>>)
    BY <1>1 DEF toBase58
  <2> QED
    BY <2>1, <2>2 DEF Key
<1>3. ASSUME q.op = "toWIF"
      PROVE  Told(byteMasterPrivateKeyToWIF(f.masterPrivateKey, q.index))
  <2>1. CASE q.index < 0 \/ q.index > MaxIndex
    BY <2>1 DEF byteMasterPrivateKeyToWIF, Error
  <2>2. CASE q.index \in 0..MaxIndex
    <3>1. Contract!Right(o, q) = Key("wif", r, net, <<q.index>>)
      BY <1>a, <1>3, <2>2, RightIs DEF Contract!Valid
    <3>2. byteMasterPrivateKeyToWIF(f.masterPrivateKey, q.index)
            = Key("wif", r, net, Append(<<>>, q.index))
      BY <1>1, <2>2, WalletAssumption DEF byteMasterPrivateKeyToWIF, Key
    <3>3. Append(<<>>, q.index) = <<q.index>>
      OBVIOUS
    <3> QED
      BY <3>1, <3>2, <3>3 DEF Key
  <2>3. q.index \in Int
    BY <1>3, WalletAssumption DEF Question, Index
  <2> QED
    BY <2>1, <2>2, <2>3, WalletAssumption
<1> QED
  BY <1>c, <1>2, <1>3

LEMMA RightOfWif ==
    ASSUME NEW f \in Fields, WalletOK(f), f.built, f.wif # Null,
           NEW q \in Question, q.op \in {"toWIF", "toBitcoinAddress"}, q.index = 0
    PROVE  /\ q.op = "toWIF" => RightOrError(f, q, f.wif)
           /\ q.op = "toBitcoinAddress" => RightOrError(f, q, wifToBTC_Address(f.wif))
<1>1. PICK r \in Root, net \in Net, i \in 0..MaxIndex :
        /\ f.wif = Key("wif", r, net, <<i>>)
        /\ Origin(f) = Contract!Single(r, net, <<i>>)
  BY BuiltFrom
<1>2. ASSUME q.op = "toWIF" PROVE RightOrError(f, q, f.wif)
  <2>1. Contract!Right(Origin(f), q) = Key("wif", r, net, <<i>>)
    BY <1>1, <1>2 DEF Contract!Right, Contract!Single, Key
  <2> QED
    BY <1>1, <2>1 DEF RightOrError, Key
<1>3. ASSUME q.op = "toBitcoinAddress" PROVE RightOrError(f, q, wifToBTC_Address(f.wif))
  <2>1. Contract!Right(Origin(f), q) = Key("address", r, net, <<i>>)
    BY <1>1, <1>3 DEF Contract!Right, Contract!Single, Key
  <2>2. wifToBTC_Address(f.wif) = Key("address", r, net, <<i>>)
    BY <1>1 DEF wifToBTC_Address, Key
  <2> QED
    BY <2>1, <2>2 DEF RightOrError, Key
<1> QED
  BY <1>2, <1>3

LEMMA RightOfPublic ==
    ASSUME NEW f \in Fields, WalletOK(f), f.built, f.masterPublicKey # Null,
           NEW q \in Question
    PROVE  /\ q.op = "xPublicKey" => RightOrError(f, q, toBase58(f.masterPublicKey))
           /\ q.op = "toBitcoinAddress" =>
                RightOrError(f, q, byteMasterPublicKeyToBTC_Address(f.masterPublicKey, q.index))
           /\ q.op = "toDerivedAddress" /\ q.derivation # {} =>
                RightOrError(f, q,
                  byteMasterPublicKeyToBTC_Address(
                    byteDeriveXKey(f.masterPublicKey, q.derivation), q.index))
<1>1. PICK r \in Root, net \in Net :
        /\ f.masterPublicKey = Key("xpub", r, net, <<>>)
        /\ Origin(f) \in {Contract!Full(r, net), Contract!Watching(r, net)}
  BY BuiltFrom
<1> DEFINE o == Origin(f)
           Told(answer) == \/ answer.kind = "error"
                           \/ /\ answer.kind \in {"xprv", "xpub", "wif", "address"}
                              /\ answer = Contract!Right(o, q)
<1>b. o \in {Contract!Full(r, net), Contract!Watching(r, net)}
  BY <1>1
<1>c. \A answer : Told(answer) => RightOrError(f, q, answer)
  BY DEF RightOrError
<1> HIDE DEF o
<1>a. /\ o.has \in {"master private key", "master public key"}
      /\ o.root = r /\ o.net = net
  <2>1. CASE o = Contract!Full(r, net)
    BY <2>1 DEF Contract!Full
  <2>2. CASE o = Contract!Watching(r, net)
    BY <2>2 DEF Contract!Watching
  <2> QED
    BY <1>b, <2>1, <2>2
<1>2. ASSUME q.op = "xPublicKey"
      PROVE  Told(toBase58(f.masterPublicKey))
  <2>1. Contract!Right(o, q) = Key("xpub", r, net, <<>>)
    BY <1>a, <1>2, RightIs
  <2>2. toBase58(f.masterPublicKey) = Key("xpub", r, net, <<>>)
    BY <1>1 DEF toBase58
  <2> QED
    BY <2>1, <2>2 DEF Key
<1>3. ASSUME NEW key, NEW path, key = Key("xpub", r, net, path),
             q.op \in {"toBitcoinAddress", "toDerivedAddress"}
      PROVE  \/ byteMasterPublicKeyToBTC_Address(key, q.index).kind = "error"
             \/ /\ q.index \in 0..MaxIndex
                /\ byteMasterPublicKeyToBTC_Address(key, q.index)
                     = Key("address", r, net, Append(path, q.index))
  <2>1. q.index \in Int
    BY <1>3, WalletAssumption DEF Question, Index
  <2>2. CASE q.index < 0 \/ q.index > MaxIndex
    BY <2>2 DEF byteMasterPublicKeyToBTC_Address, Error
  <2>3. CASE q.index \in 0..MaxIndex
    <3>1. key # Null
      BY <1>3 DEF Key, Null
    <3>2. ~(q.index < 0) /\ ~(q.index > MaxIndex)
      BY <2>3, WalletAssumption
    <3> QED
      BY <1>3, <2>3, <3>1, <3>2 DEF byteMasterPublicKeyToBTC_Address, Key
  <2> QED
    BY <2>1, <2>2, <2>3, WalletAssumption
<1>4. ASSUME q.op = "toBitcoinAddress"
      PROVE  Told(byteMasterPublicKeyToBTC_Address(f.masterPublicKey, q.index))
  <2>1. q.index \in 0..MaxIndex =>
          Contract!Right(o, q) = Key("address", r, net, <<q.index>>)
    BY <1>a, <1>4, RightIs DEF Contract!Valid
  <2>2. Append(<<>>, q.index) = <<q.index>>
    OBVIOUS
  <2>3. Key("address", r, net, <<q.index>>).kind = "address"
    BY DEF Key
  <2> QED
    BY <1>1, <1>3, <1>4, <2>1, <2>2, <2>3
<1>5. ASSUME q.op = "toDerivedAddress", q.derivation # {}
      PROVE  Told(
               byteMasterPublicKeyToBTC_Address(
                 byteDeriveXKey(f.masterPublicKey, q.derivation), q.index))
  <2> DEFINE path == CHOOSE p \in q.derivation : TRUE
  <2>1. q.derivation = {<<0>>}
    BY <1>5 DEF Question, Derivation
  <2>2. path = <<0>>
    BY <2>1
  <2>3. f.masterPublicKey # Null
    OBVIOUS
  <2>4. byteDeriveXKey(f.masterPublicKey, q.derivation)
          = [f.masterPublicKey EXCEPT !.path = @ \o path]
    BY <1>5, <2>3 DEF byteDeriveXKey
  <2>5. q.index \in 0..MaxIndex =>
          Contract!Right(o, q) = Key("address", r, net, Append(path, q.index))
    BY <1>a, <1>5, RightIs DEF Contract!Valid
  <2> HIDE DEF path
  <2>6. <<>> \o path = path
    BY <2>2
  <2>7. [f.masterPublicKey EXCEPT !.path = @ \o path] = Key("xpub", r, net, <<>> \o path)
    BY <1>1 DEF Key
  <2>8. byteDeriveXKey(f.masterPublicKey, q.derivation) = Key("xpub", r, net, path)
    BY <2>4, <2>6, <2>7
  <2>9. Key("address", r, net, Append(path, q.index)).kind = "address"
    BY DEF Key
  <2> QED
    BY <1>3, <1>5, <2>5, <2>8, <2>9
<1> QED
  BY <1>c, <1>2, <1>4, <1>5

\* The methods and the parts of them that end with an answer.
Answers(t) ==
    xPrivateKey(t) \/ toWIF(t) \/ RefuseAddress(t) \/ AddressOfWif(t) \/ Use(t)

LEMMA AnswersRight ==
    ASSUME Inv, NEW t \in Thread, Answers(t)
    PROVE  /\ \E answer :
                Goto(t, "answered", answer) /\ RightOrError(Mine(t), job[t].ask, answer)
           /\ job[t].at \in {"asked", "using"}
           /\ UNCHANGED wallet
<1> DEFINE f == Mine(t)
           q == job[t].ask
           Told == \E answer : Goto(t, "answered", answer) /\ RightOrError(f, q, answer)
<1>1. job[t].at \in {"asked", "using"}
  BY DEF Answers, xPrivateKey, toWIF, RefuseAddress, AddressOfWif, Use, At
<1>2. q \in Question /\ CallOK(job[t], f)
  BY <1>1, InMethod
<1>3. f \in Fields /\ WalletOK(f) /\ f.built
  BY <1>2, OfWallet DEF Inv, WalletsOK, CallOK, Mine
<1>4. ASSUME NEW code, Refuse(t, code) PROVE Told
  <2>1. Error(code).kind = "error"
    BY DEF Error
  <2> QED
    BY <1>4, <2>1 DEF Refuse, RightOrError
<1>5. ASSUME NEW answer, Answer(t, answer), RightOrError(f, q, answer) PROVE Told
  <2>1. Failure.kind = "error"
    BY DEF Failure, Error
  <2> QED
    BY <1>5, <2>1 DEF Answer, RightOrError
<1> HIDE DEF Told
<1>6. ASSUME xPrivateKey(t) PROVE Told
  <2>1. q.op = "xPrivateKey"
    BY <1>6 DEF xPrivateKey, At
  <2>2. CASE f.masterPrivateKey # Null /\ Answer(t, toBase58(f.masterPrivateKey))
    BY <1>2, <1>3, <1>5, <2>1, <2>2, RightOfPrivate
  <2> QED
    BY <1>4, <1>6, <2>2 DEF xPrivateKey
<1>7. ASSUME toWIF(t) PROVE Told
  <2>1. q.op = "toWIF"
    BY <1>7 DEF toWIF, At
  <2>2. CASE q.index = 0 /\ f.wif # Null /\ Answer(t, f.wif)
    BY <1>2, <1>3, <1>5, <2>1, <2>2, RightOfWif
  <2>3. CASE Answer(t, byteMasterPrivateKeyToWIF(f.masterPrivateKey, q.index))
    <3>1. CASE f.masterPrivateKey = Null
      <4>1. byteMasterPrivateKeyToWIF(f.masterPrivateKey, q.index).kind = "error"
        BY <3>1 DEF byteMasterPrivateKeyToWIF, Error
      <4> QED
        BY <1>5, <2>3, <4>1 DEF RightOrError
    <3>2. CASE f.masterPrivateKey # Null
      BY <1>2, <1>3, <1>5, <2>1, <2>3, <3>2, RightOfPrivate
    <3> QED
      BY <3>1, <3>2
  <2> QED
    BY <1>4, <1>7, <2>2, <2>3 DEF toWIF
<1>8. ASSUME RefuseAddress(t) PROVE Told
  BY <1>4, <1>8 DEF RefuseAddress
<1>9. ASSUME AddressOfWif(t) PROVE Told
  <2>1. /\ q.op = "toBitcoinAddress" /\ q.index = 0 /\ f.wif # Null
        /\ Answer(t, wifToBTC_Address(f.wif))
    BY <1>9 DEF AddressOfWif, At
  <2> QED
    BY <1>2, <1>3, <1>5, <2>1, RightOfWif
<1>10. ASSUME Use(t) PROVE Told
  <2>1. job[t].at = "using"
    BY <1>10 DEF Use, At
  <2>2. f.masterPublicKey # Null
    BY <1>2, <2>1 DEF CallOK
  <2>3. CASE q.op = "xPublicKey" /\ Answer(t, toBase58(f.masterPublicKey))
    BY <1>2, <1>3, <1>5, <2>2, <2>3, RightOfPublic
  <2>4. CASE /\ q.op = "toBitcoinAddress"
             /\ Answer(t, byteMasterPublicKeyToBTC_Address(f.masterPublicKey, q.index))
    BY <1>2, <1>3, <1>5, <2>2, <2>4, RightOfPublic
  <2>5. CASE q.op = "toDerivedAddress"
    <3> DEFINE derived == byteDeriveXKey(f.masterPublicKey, q.derivation)
    <3>1. Answer(t, IF derived.kind = "error"
                      THEN derived
                      ELSE byteMasterPublicKeyToBTC_Address(derived, q.index))
      BY <1>10, <2>5 DEF Use, At
    <3>2. CASE derived.kind = "error"
      BY <1>5, <3>1, <3>2 DEF RightOrError
    <3>3. CASE derived.kind # "error"
      <4>1. q.derivation # {}
        BY <2>2, <3>3 DEF byteDeriveXKey, Error
      <4>2. Answer(t, byteMasterPublicKeyToBTC_Address(derived, q.index))
        BY <3>1, <3>3
      <4>3. RightOrError(f, q, byteMasterPublicKeyToBTC_Address(derived, q.index))
        BY <1>2, <1>3, <2>2, <2>5, <4>1, RightOfPublic
      <4> QED
        BY <1>5, <4>2, <4>3
    <3> QED
      BY <3>2, <3>3
  <2> QED
    BY <1>10, <2>3, <2>4, <2>5 DEF Use, At
<1>11. UNCHANGED wallet
  BY DEF Answers, xPrivateKey, toWIF, RefuseAddress, AddressOfWif, Use, Answer, Refuse
<1> QED
  BY <1>1, <1>6, <1>7, <1>8, <1>9, <1>10, <1>11 DEF Answers, Told

LEMMA AnswersKeep ==
    ASSUME Inv, NEW t \in Thread, Answers(t)
    PROVE  Inv' /\ UNCHANGED wallet
<1>1. PICK answer :
        Goto(t, "answered", answer) /\ RightOrError(Mine(t), job[t].ask, answer)
  BY AnswersRight
<1>2. answer.kind # "pending"
  BY <1>1 DEF RightOrError
<1>3. job[t].at \in {"asked", "using"} /\ UNCHANGED wallet
  BY AnswersRight
<1> QED
  BY <1>1, <1>2, <1>3, AnsweredKeeps

\* A thread looks for the public key; without a WIF there is one or the other key.
LEMMA LookKeeps ==
    ASSUME Inv, NEW t \in Thread, Look(t)
    PROVE  Inv'
<1> DEFINE place == IF Mine(t).masterPublicKey = Null THEN "deriving" ELSE "using"
<1>1. /\ job[t].at = "asked"
      /\ job[t].ask.op \in ByPublicKey
      /\ job[t].ask.op # "xPublicKey" => Mine(t).wif = Null
      /\ job[t].ask.op = "toBitcoinAddress" => job[t].ask.index >= 0
  BY DEF Look, At, ByPublicKey
<1>2. job[t].ask \in Question
  BY <1>1, InMethod
<1>3. Goto(t, place, Null) /\ UNCHANGED wallet
  BY DEF Look
<1>4. /\ place \in {"deriving", "using"}
      /\ place = "using" => Mine(t).masterPublicKey # Null
  OBVIOUS
<1> HIDE DEF place
<1> QED
  BY <1>1, <1>2, <1>3, <1>4, GotoKeeps DEF Methods

\* The key a thread derives is the public key of the wallet's private key.
LEMMA DeriveKeeps ==
    ASSUME Inv, NEW t \in Thread, Derive(t)
    PROVE  Inv' /\ UNCHANGED wallet
<1> DEFINE key == Public(Mine(t).masterPrivateKey)
<1>1. job[t].at = "deriving" /\ UNCHANGED wallet
  BY DEF Derive
<1>2. job[t].ask \in Question /\ CallOK(job[t], Mine(t))
  BY <1>1, InMethod
<1>3. \/ key.kind # "error" /\ Goto(t, "storing", key)
      \/ \E value : value.kind = "error" /\ Goto(t, "answered", value)
  <2>1. Failure.kind = "error"
    BY DEF Failure, Error
  <2> QED
    BY <2>1 DEF Derive, Public
<1>4. CASE \E value : value.kind = "error" /\ Goto(t, "answered", value)
  BY <1>1, <1>4, AnsweredKeeps
<1>5. CASE key.kind # "error" /\ Goto(t, "storing", key)
  <2>1. Mine(t).masterPrivateKey # Null
    BY <1>5 DEF Public, byteMasterPrivateKeyToMasterPublicKey, Error
  <2>2. /\ job[t].ask.op \in ByPublicKey
        /\ job[t].ask.op # "xPublicKey" => Mine(t).wif = Null
        /\ job[t].ask.op = "toBitcoinAddress" => job[t].ask.index >= 0
    BY <1>1, <1>2 DEF CallOK
  <2> HIDE DEF key
  <2>3. key = Public(Mine(t).masterPrivateKey)
    BY DEF key
  <2> QED
    BY <1>1, <1>2, <1>5, <2>1, <2>2, <2>3, GotoKeeps DEF Methods
<1> QED
  BY <1>1, <1>3, <1>4, <1>5

LEMMA FinishKeeps ==
    ASSUME Inv, NEW t \in Thread, Finish(t)
    PROVE  Inv'
<1>1. job' = [job EXCEPT ![t] = Idle] /\ JobOK(Idle, wallet')
  BY DEF Finish, JobOK
<1>2. WalletsOK' /\ \A w \in Wallet : Grows(wallet[w], wallet'[w])
  BY DEF Finish, Inv, WalletsOK, WalletOK, Grows
<1> QED
  BY <1>1, <1>2, MoveKeeps

LEMMA InvStep ==
    ASSUME Inv, [Next]_vars
    PROVE  Inv' /\ \A w \in Wallet : Grows(wallet[w], wallet'[w])
<1>1. CASE UNCHANGED vars
  BY <1>1 DEF vars, Inv, WalletsOK, JobsOK, Grows
<1>2. UNCHANGED wallet => \A w \in Wallet : Grows(wallet[w], wallet'[w])
  BY DEF Grows
<1>3. ASSUME NEW t \in Thread, NEW c \in Construction, Generate(t, c) \/ Import(t, c)
      PROVE  Inv' /\ \A w \in Wallet : Grows(wallet[w], wallet'[w])
  BY <1>3, GenerateKeeps, ImportKeeps
<1>4. ASSUME NEW t \in Thread, NEW q \in Question, Ask(t, q)
      PROVE  Inv' /\ UNCHANGED wallet
  BY <1>4, AskKeeps DEF Ask
<1>5. ASSUME NEW t \in Thread,
             \/ xPrivateKey(t) \/ toWIF(t) \/ RefuseAddress(t) \/ AddressOfWif(t)
             \/ Look(t) \/ Derive(t) \/ Use(t) \/ Finish(t)
      PROVE  Inv' /\ UNCHANGED wallet
  <2>1. CASE Answers(t)
    BY <2>1, AnswersKeep
  <2>2. CASE Look(t)
    BY <2>2, LookKeeps DEF Look
  <2>3. CASE Derive(t)
    BY <2>3, DeriveKeeps
  <2>4. CASE Finish(t)
    BY <2>4, FinishKeeps DEF Finish
  <2> QED
    BY <1>5, <2>1, <2>2, <2>3, <2>4 DEF Answers
<1>6. ASSUME NEW t \in Thread, Store(t)
      PROVE  Inv' /\ \A w \in Wallet : Grows(wallet[w], wallet'[w])
  BY <1>6, StoreKeeps
<1> QED
  BY <1>1, <1>2, <1>3, <1>4, <1>5, <1>6 DEF Next

LEMMA InvAlways ==
    Spec => []Inv
<1>1. Inv /\ [Next]_vars => Inv'
  BY InvStep
<1> QED
  BY InvInit, <1>1, PTL DEF Spec

----------------------------------------------------------------------------
(* The theorems.                                                           *)

\* The fields of BitcoinWallet.java always hold null or a key of their kind, and
\* a thread is always at a place of the method it called.
THEOREM WalletTypeCorrect ==
    Spec => []TypeOK
<1>1. Inv => TypeOK
  <2> SUFFICES ASSUME Inv PROVE TypeOK
    OBVIOUS
  <2>1. ASSUME NEW t \in Thread
        PROVE  \/ job[t] = Idle
               \/ job[t].ask \in Construction /\ job[t].at = "answered"
               \/ job[t].ask \in Question /\ job[t].at \in Methods
    BY DEF Inv, JobsOK, JobOK, CallOK
  <2> QED
    BY <2>1 DEF TypeOK, Inv, WalletsOK, Fields, Methods
<1> QED
  BY InvAlways, <1>1, PTL

\* However many threads derive and store the public key of a wallet at once, the
\* wallet is one thing only, and the key its methods cache is the right one.
THEOREM IdentityStays ==
    Spec => []OneIdentity
<1>1. Inv => OneIdentity
  BY DEF Inv, WalletsOK, WalletOK, OneIdentity, Public
<1> QED
  BY InvAlways, <1>1, PTL

\* No field of a built wallet goes from one key to another or back to null, so
\* what a method read of it before it called a native still holds after.
THEOREM FieldsStay ==
    Spec => FieldsSettle
<1> DEFINE Settled == \A w \in Wallet, field \in Field :
                        wallet[w][field] # Null => wallet'[w][field] = wallet[w][field]
<1>1. Inv /\ [Next]_vars => Settled
  <2> SUFFICES ASSUME Inv, [Next]_vars, NEW w \in Wallet, NEW field \in Field,
                      wallet[w][field] # Null
               PROVE  wallet'[w][field] = wallet[w][field]
    OBVIOUS
  <2>1. Grows(wallet[w], wallet'[w])
    BY InvStep
  <2>2. CASE field = "masterPrivateKey"
    BY <2>1, <2>2 DEF Grows
  <2>3. CASE field = "masterPublicKey"
    BY <2>1, <2>3 DEF Grows
  <2>4. CASE field = "wif"
    BY <2>1, <2>4 DEF Grows
  <2> QED
    BY <2>2, <2>3, <2>4 DEF Field
<1>2. Inv /\ [Next]_vars =>
        [\A w \in Wallet, field \in {"masterPrivateKey", "masterPublicKey", "wif"} :
           wallet[w][field] # Null => wallet'[w][field] = wallet[w][field]]_vars
  BY <1>1 DEF Field
<1> QED
  BY InvAlways, <1>2, PTL DEF Spec, FieldsSettle

----------------------------------------------------------------------------
(* The wallet implements WalletContract.                                   *)

\* The state of the contract.
Origins == [w \in Wallet |-> Origin(wallet[w])]
Askeds == [t \in Thread |-> Asked(t)]
Replies == [t \in Thread |-> Reply(t)]

LEMMA OriginsAfter ==
    Origins' = [w \in Wallet |-> Origin(wallet'[w])]
  BY DEF Origins, Origin

LEMMA ContractVars ==
    /\ UNCHANGED <<Origins, Askeds, Replies>> => UNCHANGED Contract!vars
    /\ Contract!Init <=>
         /\ Origins = [w \in Wallet |-> Contract!Unbuilt]
         /\ Askeds = [t \in Thread |-> Contract!NoQuestion]
         /\ Replies = [t \in Thread |-> Contract!Pending]
  BY DEF Contract!vars, Contract!Init, Origins, Askeds, Replies

\* A step of the job of t alone.
LEMMA JobMoves ==
    ASSUME Inv, NEW t \in Thread, NEW c, job' = [job EXCEPT ![t] = c]
    PROVE  /\ job'[t] = c
           /\ Askeds' = [Askeds EXCEPT ![t] = Asked(t)']
           /\ Replies' = [Replies EXCEPT ![t] = Reply(t)']
<1>1. job'[t] = c /\ \A u \in Thread \ {t} : job'[u] = job[u]
  BY DEF Inv, JobsOK
<1>2. \A u \in Thread \ {t} : Asked(u)' = Asked(u)
  BY <1>1 DEF Asked
<1>3. \A u \in Thread \ {t} : Reply(u)' = Reply(u)
  BY <1>1, <1>2 DEF Reply
<1>4. Askeds' = [Askeds EXCEPT ![t] = Asked(t)']
  BY <1>2 DEF Askeds
<1>5. Replies' = [Replies EXCEPT ![t] = Reply(t)']
  BY <1>3 DEF Replies
<1> QED
  BY <1>1, <1>4, <1>5

\* What a thread has asked, and been told, at each place.
LEMMA AskedOf ==
    ASSUME NEW t \in Thread
    PROVE  /\ job[t].ask \in Question => Asked(t) = job[t].ask
           /\ job[t].ask \notin Question => Asked(t) = NoQuestion
           /\ job[t].ask \notin Question \/ job[t].at # "answered" =>
                Reply(t) = Contract!Pending
           /\ job[t].ask \in Question /\ job[t].at = "answered" =>
                Reply(t) = IF job[t].got.kind = "error" THEN Contract!Refused ELSE job[t].got
<1>1. /\ job[t].ask \in Question => Asked(t) = job[t].ask
      /\ job[t].ask \notin Question => Asked(t) = NoQuestion
  BY DEF Asked
<1>2. ASSUME job[t].ask \notin Question \/ job[t].at # "answered"
      PROVE  Reply(t) = Contract!Pending
  BY <1>1, <1>2 DEF Reply, Contract!Pending
<1>3. ASSUME job[t].ask \in Question, job[t].at = "answered"
      PROVE  Reply(t) = IF job[t].got.kind = "error" THEN Contract!Refused ELSE job[t].got
  <2>1. Asked(t) # NoQuestion
    BY <1>1, <1>3, QuestionOrConstruction
  <2> QED
    BY <1>3, <2>1 DEF Reply, Contract!Refused
<1> QED
  BY <1>1, <1>2, <1>3

LEMMA AskedAfter ==
    ASSUME NEW t \in Thread
    PROVE  /\ job'[t].ask \in Question => Asked(t)' = job'[t].ask
           /\ job'[t].ask \notin Question => Asked(t)' = NoQuestion
           /\ job'[t].ask \notin Question \/ job'[t].at # "answered" =>
                Reply(t)' = Contract!Pending
           /\ job'[t].ask \in Question /\ job'[t].at = "answered" =>
                Reply(t)' = IF job'[t].got.kind = "error"
                              THEN Contract!Refused ELSE job'[t].got
<1>1. /\ job'[t].ask \in Question => Asked(t)' = job'[t].ask
      /\ job'[t].ask \notin Question => Asked(t)' = NoQuestion
  BY DEF Asked
<1>2. ASSUME job'[t].ask \notin Question \/ job'[t].at # "answered"
      PROVE  Reply(t)' = Contract!Pending
  BY <1>1, <1>2 DEF Reply, Contract!Pending
<1>3. ASSUME job'[t].ask \in Question, job'[t].at = "answered"
      PROVE  Reply(t)' = IF job'[t].got.kind = "error"
                           THEN Contract!Refused ELSE job'[t].got
  <2>1. Asked(t)' # NoQuestion
    BY <1>1, <1>3, QuestionOrConstruction
  <2> QED
    BY <1>3, <2>1 DEF Reply, Contract!Refused
<1> QED
  BY <1>1, <1>2, <1>3

\* The questions of the code are questions of the contract.
LEMMA SameQuestions ==
    /\ Question \subseteq Contract!Question
    /\ Contract!NoQuestion = NoQuestion
<1>1. Index \subseteq Int
  BY WalletAssumption DEF Index
<1>2. Derivation \subseteq SUBSET Seq(Nat)
  <2>1. <<0>> \in Seq(Nat)
    OBVIOUS
  <2> QED
    BY <2>1 DEF Derivation
<1> QED
  BY <1>1, <1>2 DEF Question, Contract!Question, NoQuestion, Contract!NoQuestion

\* The growth of a built wallet does not change what it was built from.
LEMMA OriginStays ==
    ASSUME NEW f, NEW g, WalletOK(f), WalletOK(g), f.built, Grows(f, g)
    PROVE  Origin(g) = Origin(f)
<1>1. /\ g.built /\ g.wif = f.wif /\ g.masterPrivateKey = f.masterPrivateKey
      /\ f.wif = Null /\ f.masterPrivateKey = Null => g.masterPublicKey = f.masterPublicKey
  BY DEF Grows, WalletOK
<1>2. CASE f.wif # Null
  BY <1>1, <1>2 DEF Origin
<1>3. CASE f.wif = Null /\ f.masterPrivateKey # Null
  BY <1>1, <1>3 DEF Origin
<1>4. CASE f.wif = Null /\ f.masterPrivateKey = Null
  BY <1>1, <1>4 DEF Origin
<1> QED
  BY <1>2, <1>3, <1>4

LEMMA OriginBuilt ==
    ASSUME NEW f \in Fields, WalletOK(f)
    PROVE  /\ f.built => Origin(f) \in Contract!Origin /\ Origin(f) # Contract!Unbuilt
           /\ ~f.built => Origin(f) = Contract!Unbuilt
<1>1. ASSUME ~f.built PROVE Origin(f) = Contract!Unbuilt
  BY <1>1 DEF Origin, Contract!Unbuilt
<1>2. ASSUME f.built PROVE Origin(f) \in Contract!Origin /\ Origin(f) # Contract!Unbuilt
  <2>a. Contract!Unbuilt.has = "nothing"
    BY DEF Contract!Unbuilt
  <2>1. ASSUME NEW r \in Root, NEW net \in Net, Origin(f) = Contract!Full(r, net)
        PROVE  Origin(f) \in Contract!Origin /\ Origin(f) # Contract!Unbuilt
    <3>1. Contract!Full(r, net) \in Contract!Origin
      BY DEF Contract!Origin
    <3>2. Contract!Full(r, net).has # "nothing"
      BY DEF Contract!Full
    <3> QED
      BY <2>a, <2>1, <3>1, <3>2
  <2>2. ASSUME NEW r \in Root, NEW net \in Net, Origin(f) = Contract!Watching(r, net)
        PROVE  Origin(f) \in Contract!Origin /\ Origin(f) # Contract!Unbuilt
    <3>1. Contract!Watching(r, net) \in Contract!Origin
      BY DEF Contract!Origin
    <3>2. Contract!Watching(r, net).has # "nothing"
      BY DEF Contract!Watching
    <3> QED
      BY <2>a, <2>2, <3>1, <3>2
  <2>3. ASSUME NEW r \in Root, NEW net \in Net, NEW i \in 0..MaxIndex,
               Origin(f) = Contract!Single(r, net, <<i>>)
        PROVE  Origin(f) \in Contract!Origin /\ Origin(f) # Contract!Unbuilt
    <3>1. Contract!Single(r, net, <<i>>) \in Contract!Origin
      BY DEF Contract!Origin
    <3>2. Contract!Single(r, net, <<i>>).has # "nothing"
      BY DEF Contract!Single
    <3> QED
      BY <2>a, <2>3, <3>1, <3>2
  <2> QED
    BY <1>2, <2>1, <2>2, <2>3, BuiltFrom
<1> QED
  BY <1>1, <1>2

\* A step that tells the program nothing.
LEMMA Quiet ==
    ASSUME Inv, NEW t \in Thread, NEW c, job' = [job EXCEPT ![t] = c],
           Asked(t)' = Asked(t), Reply(t)' = Reply(t)
    PROVE  Askeds' = Askeds /\ Replies' = Replies
<1>1. /\ Askeds' = [Askeds EXCEPT ![t] = Asked(t)']
      /\ Replies' = [Replies EXCEPT ![t] = Reply(t)']
  BY JobMoves
<1>2. Askeds[t] = Asked(t) /\ Replies[t] = Reply(t)
  BY DEF Askeds, Replies
<1>3. Askeds' = Askeds
  BY <1>1, <1>2 DEF Askeds
<1>4. Replies' = Replies
  BY <1>1, <1>2 DEF Replies
<1> QED
  BY <1>3, <1>4

\* Wallets that were built are built from what they were.
LEMMA OriginsStay ==
    ASSUME Inv, Inv', NEW w \in Wallet, Grows(wallet[w], wallet'[w]), wallet[w].built
    PROVE  Origins'[w] = Origins[w]
<1>1. Origin(wallet'[w]) = Origin(wallet[w])
  BY OriginStays DEF Inv, WalletsOK
<1> QED
  BY <1>1 DEF Origins

\* A thread goes from one place of its method to the next.
LEMMA GoesOn ==
    ASSUME Inv, NEW t \in Thread, job[t].ask \in Question, job[t].at # "answered",
           NEW place, place # "answered", NEW value, Goto(t, place, value)
    PROVE  Askeds' = Askeds /\ Replies' = Replies
<1> DEFINE c == [ask |-> job[t].ask, at |-> place, got |-> value]
<1>1. job' = [job EXCEPT ![t] = c]
  BY DEF Goto, Inv, JobsOK
<1>2. job'[t] = c /\ c.ask = job[t].ask /\ c.at = place
  BY <1>1, JobMoves
<1> HIDE DEF c
<1>3. Asked(t)' = Asked(t) /\ Reply(t)' = Reply(t)
  BY <1>2, AskedOf, AskedAfter
<1> QED
  BY <1>1, <1>3, Quiet

\* A thread gets an answer that is right, or an error.
LEMMA GetsAnswer ==
    ASSUME Inv, NEW t \in Thread, job[t].ask \in Question, job[t].at # "answered",
           NEW answer, Goto(t, "answered", answer), UNCHANGED wallet,
           RightOrError(Mine(t), job[t].ask, answer)
    PROVE  Contract!Next
<1> DEFINE c == [ask |-> job[t].ask, at |-> "answered", got |-> answer]
           a == IF answer.kind = "error" THEN Contract!Refused ELSE answer
<1>1. job' = [job EXCEPT ![t] = c]
  BY DEF Goto, Inv, JobsOK
<1>2. job'[t] = c /\ c.ask = job[t].ask /\ c.at = "answered" /\ c.got = answer
  BY <1>1, JobMoves
<1> HIDE DEF c
<1>3. Asked(t) = job[t].ask /\ Asked(t)' = job[t].ask /\ Reply(t) = Contract!Pending
  BY <1>2, AskedOf, AskedAfter
<1>4. Reply(t)' = a
  BY <1>2, AskedAfter
<1>5. job[t].ask.of \in Wallet
  BY OfWallet
<1>6. /\ Askeds[t] = job[t].ask
      /\ Origins[Askeds[t].of] = Origin(Mine(t))
      /\ Replies[t] = Contract!Pending
  BY <1>3, <1>5 DEF Askeds, Origins, Replies, Mine
<1>7. a \in {Contract!Right(Origins[Askeds[t].of], Askeds[t]), Contract!Refused}
  BY <1>6 DEF RightOrError
<1> HIDE DEF a
<1>8. Origins' = Origins
  BY DEF Origins, Origin
<1>9. /\ Askeds' = [Askeds EXCEPT ![t] = job[t].ask]
      /\ Replies' = [Replies EXCEPT ![t] = a]
  BY <1>1, <1>3, <1>4, JobMoves
<1>10. Askeds' = Askeds
  BY <1>6, <1>9 DEF Askeds
<1>11. Askeds[t] # Contract!NoQuestion
  BY <1>6, QuestionOrConstruction, SameQuestions
<1>12. Contract!Answer(t)
  BY <1>6, <1>7, <1>8, <1>9, <1>10, <1>11 DEF Contract!Answer, Origins, Askeds, Replies
<1> QED
  BY <1>12 DEF Contract!Next

\* A constructor builds its wallet, or throws.
LEMMA Builds ==
    ASSUME Inv, Inv', NEW t \in Thread, NEW c \in Construction,
           job[t] = Idle, ~wallet[c.of].built,
           NEW field \in Field, NEW key, Construct(t, c, field, key)
    PROVE  Contract!Next \/ UNCHANGED Contract!vars
<1>1. PICK got : job' = [job EXCEPT ![t] = [ask |-> c, at |-> "answered", got |-> got]]
  BY DEF Construct
<1> DEFINE d == [ask |-> c, at |-> "answered", got |-> got]
<1>2. d.ask = c
  OBVIOUS
<1> HIDE DEF d
<1>3. job' = [job EXCEPT ![t] = d]
  BY <1>1 DEF d
<1>4. Asked(t)' = Asked(t) /\ Reply(t)' = Reply(t)
  <2>1. job[t].ask \notin Question
    BY QuestionOrConstruction DEF Idle
  <2>2. job'[t].ask \notin Question
    BY <1>2, <1>3, JobMoves, QuestionOrConstruction
  <2> QED
    BY <2>1, <2>2, AskedOf, AskedAfter
<1>5. Askeds' = Askeds /\ Replies' = Replies
  BY <1>3, <1>4, Quiet
<1>6. CASE UNCHANGED wallet
  <2>1. Origins' = Origins
    BY <1>6 DEF Origins, Origin
  <2> QED
    BY <1>5, <2>1, ContractVars
<1>7. CASE wallet' = [wallet EXCEPT ![c.of] = Holding(field, key)]
  <2> DEFINE w == c.of
             o == Origin(wallet'[w])
  <2>1. w \in Wallet
    BY DEF Construction
  <2>2. /\ wallet'[w] = Holding(field, key)
        /\ \A v \in Wallet \ {w} : wallet'[v] = wallet[v]
    BY <1>7, <2>1 DEF Inv, WalletsOK
  <2>3. wallet'[w].built
    BY <2>2 DEF Holding
  <2>4. wallet'[w] \in Fields /\ WalletOK(wallet'[w])
    BY <2>1 DEF Inv, WalletsOK
  <2>5. o \in Contract!Origin
    BY <2>3, <2>4, OriginBuilt
  <2>6. Origins[w] = Contract!Unbuilt
    <3>1. Origin(wallet[w]) = Contract!Unbuilt
      BY <2>1, OriginBuilt DEF Inv, WalletsOK
    <3> QED
      BY <2>1, <3>1 DEF Origins
  <2>7. Origins' = [Origins EXCEPT ![w] = o]
    <3>1. \A v \in Wallet \ {w} : Origin(wallet'[v]) = Origin(wallet[v])
      BY <2>2
    <3> QED
      BY <2>1, <3>1, OriginsAfter DEF Origins
  <2> HIDE DEF w, o
  <2>8. Contract!Build(w)
    BY <1>5, <2>5, <2>6, <2>7 DEF Contract!Build, Origins, Askeds, Replies
  <2> QED
    BY <2>1, <2>8 DEF Contract!Next
<1> QED
  BY <1>6, <1>7 DEF Construct

LEMMA ImportBuilds ==
    ASSUME Inv, Inv', NEW t \in Thread, NEW c \in Construction, Generate(t, c) \/ Import(t, c)
    PROVE  Contract!Next \/ UNCHANGED Contract!vars
<1>1. job[t] = Idle /\ ~wallet[c.of].built
  BY DEF Generate, Import
<1>2. PICK field \in Field : \E key : Construct(t, c, field, key)
  BY DEF Generate, Import, Field
<1> QED
  BY <1>1, <1>2, Builds

\* Every step is a step of the contract, or none.
LEMMA ContractStep ==
    ASSUME Inv, Inv', [Next]_vars
    PROVE  [Contract!Next]_(Contract!vars)
<1>1. CASE UNCHANGED vars
  <2>1. Origins' = Origins /\ Askeds' = Askeds /\ Replies' = Replies
    BY <1>1 DEF vars, Origins, Askeds, Replies, Origin, Asked, Reply
  <2> QED
    BY <2>1, ContractVars
<1>2. ASSUME NEW t \in Thread, NEW c \in Construction, Generate(t, c) \/ Import(t, c)
      PROVE  Contract!Next \/ UNCHANGED Contract!vars
  BY <1>2, ImportBuilds
<1>3. ASSUME UNCHANGED wallet PROVE Origins' = Origins
  BY <1>3 DEF Origins, Origin
<1>4. ASSUME NEW t \in Thread, NEW q \in Question, Ask(t, q)
      PROVE  Contract!Next
  <2> DEFINE c == [ask |-> q, at |-> "asked", got |-> Null]
  <2>1. c.ask = q /\ c.at = "asked"
    OBVIOUS
  <2>2. job' = [job EXCEPT ![t] = c]
    BY <1>4 DEF Ask
  <2> HIDE DEF c
  <2>3. job[t] = Idle /\ Idle.ask = NoQuestion /\ wallet[q.of].built /\ UNCHANGED wallet
    <3>1. Idle.ask = NoQuestion
      BY DEF Idle
    <3> QED
      BY <1>4, <3>1 DEF Ask
  <2>a. job'[t].ask = q /\ job'[t].at = "asked"
    BY <2>1, <2>2, JobMoves
  <2>b. job[t].ask \notin Question
    BY <2>3, QuestionOrConstruction
  <2>4. Asked(t) = NoQuestion /\ Asked(t)' = q
    BY <2>a, <2>b, AskedOf, AskedAfter
  <2>5. Reply(t) = Contract!Pending /\ Reply(t)' = Contract!Pending
    BY <2>a, <2>b, AskedOf, AskedAfter
  <2>6. Askeds' = [Askeds EXCEPT ![t] = q] /\ Askeds[t] = NoQuestion
    BY <2>2, <2>4, JobMoves DEF Askeds
  <2>7. Replies' = Replies
    <3>1. Replies' = [Replies EXCEPT ![t] = Reply(t)'] /\ Replies[t] = Reply(t)
      BY <2>2, JobMoves DEF Replies
    <3> QED
      BY <2>5, <3>1 DEF Replies
  <2>8. Origins[q.of] # Contract!Unbuilt
    <3>1. q.of \in Wallet
      BY OfWallet
    <3>2. Origin(wallet[q.of]) # Contract!Unbuilt
      BY <2>3, <3>1, OriginBuilt DEF Inv, WalletsOK
    <3> QED
      BY <3>1, <3>2 DEF Origins
  <2>9. Askeds'[t] = q /\ q \in Contract!Question
    BY <2>6, SameQuestions DEF Askeds
  <2>10. Contract!Ask(t)
    BY <1>3, <2>3, <2>6, <2>7, <2>8, <2>9, SameQuestions
       DEF Contract!Ask, Origins, Askeds, Replies
  <2> QED
    BY <2>10 DEF Contract!Next
<1>5. ASSUME NEW t \in Thread, Answers(t)
      PROVE  Contract!Next
  <2>1. job[t].at \in {"asked", "using"} /\ UNCHANGED wallet
    BY <1>5, AnswersRight
  <2>2. PICK answer :
          Goto(t, "answered", answer) /\ RightOrError(Mine(t), job[t].ask, answer)
    BY <1>5, AnswersRight
  <2>3. job[t].ask \in Question
    BY <2>1, InMethod
  <2> QED
    BY <2>1, <2>2, <2>3, GetsAnswer
<1>6. ASSUME NEW t \in Thread, Look(t)
      PROVE  UNCHANGED Contract!vars
  <2>1. job[t].at = "asked" /\ UNCHANGED wallet
    BY <1>6 DEF Look, At
  <2>2. job[t].ask \in Question
    BY <2>1, InMethod
  <2>3. PICK place \in {"deriving", "using"} : Goto(t, place, Null)
    BY <1>6 DEF Look
  <2>4. Askeds' = Askeds /\ Replies' = Replies
    BY <2>1, <2>2, <2>3, GoesOn
  <2> QED
    BY <1>3, <2>1, <2>4, ContractVars
<1>7. ASSUME NEW t \in Thread, Derive(t)
      PROVE  Contract!Next \/ UNCHANGED Contract!vars
  <2>1. job[t].at = "deriving" /\ UNCHANGED wallet
    BY <1>7 DEF Derive
  <2>2. job[t].ask \in Question
    BY <2>1, InMethod
  <2>3. \/ \E key : Goto(t, "storing", key)
        \/ \E answer : answer.kind = "error" /\ Goto(t, "answered", answer)
    <3>1. Failure.kind = "error"
      BY DEF Failure, Error
    <3> QED
      BY <1>7, <3>1 DEF Derive
  <2>4. ASSUME NEW key, Goto(t, "storing", key)
        PROVE  UNCHANGED Contract!vars
    <3>1. Askeds' = Askeds /\ Replies' = Replies
      BY <2>1, <2>2, <2>4, GoesOn
    <3> QED
      BY <1>3, <2>1, <3>1, ContractVars
  <2>5. ASSUME NEW answer, answer.kind = "error", Goto(t, "answered", answer)
        PROVE  Contract!Next
    BY <2>1, <2>2, <2>5, GetsAnswer DEF RightOrError
  <2> QED
    BY <2>3, <2>4, <2>5
<1>8. ASSUME NEW t \in Thread, Store(t)
      PROVE  UNCHANGED Contract!vars
  <2>1. job[t].at = "storing" /\ Goto(t, "using", Null)
    BY <1>8 DEF Store
  <2>2. job[t].ask \in Question /\ Mine(t).built
    BY <2>1, InMethod DEF CallOK
  <2>3. Askeds' = Askeds /\ Replies' = Replies
    BY <2>1, <2>2, GoesOn
  <2>4. Origins' = Origins
    <3> DEFINE v == job[t].ask.of
    <3>1. v \in Wallet
      BY <2>2, OfWallet
    <3>2. \A w \in Wallet : Grows(wallet[w], wallet'[w])
      BY <1>8, StoreKeeps
    <3>3. wallet[v].built
      BY <2>2 DEF Mine
    <3>4. Origin(wallet'[v]) = Origin(wallet[v])
      BY <3>1, <3>2, <3>3, OriginStays DEF Inv, WalletsOK
    <3>5. \A w \in Wallet \ {v} : Origin(wallet'[w]) = Origin(wallet[w])
      BY <1>8 DEF Store, Inv, WalletsOK
    <3>6. \A w \in Wallet : Origin(wallet'[w]) = Origin(wallet[w])
      BY <3>4, <3>5
    <3> QED
      BY <3>6 DEF Origins, Origin
  <2> QED
    BY <2>3, <2>4, ContractVars
<1>9. ASSUME NEW t \in Thread, Finish(t)
      PROVE  Contract!Next \/ UNCHANGED Contract!vars
  <2>1. job' = [job EXCEPT ![t] = Idle] /\ UNCHANGED wallet /\ job[t].at = "answered"
    BY <1>9 DEF Finish
  <2>2. Asked(t)' = NoQuestion /\ Reply(t)' = Contract!Pending
    <3>1. job'[t] = Idle
      BY <2>1, JobMoves
    <3>2. Idle.ask \notin Question
      BY QuestionOrConstruction DEF Idle
    <3> QED
      BY <3>1, <3>2, AskedAfter
  <2>3. CASE job[t].ask \notin Question
    <3>1. Asked(t) = NoQuestion /\ Reply(t) = Contract!Pending
      BY <2>3, AskedOf
    <3>2. Askeds' = Askeds /\ Replies' = Replies
      BY <2>1, <2>2, <3>1, Quiet
    <3> QED
      BY <1>3, <2>1, <3>2, ContractVars
  <2>4. CASE job[t].ask \in Question
    <3>1. job[t].got.kind # "pending"
      BY <2>1, <2>4, QuestionOrConstruction DEF Inv, JobsOK, JobOK, CallOK, Idle
    <3>2. Reply(t) # Contract!Pending
      BY <2>1, <2>4, <3>1, AskedOf DEF Contract!Pending, Contract!Refused
    <3>3. /\ Askeds' = [Askeds EXCEPT ![t] = NoQuestion]
          /\ Replies' = [Replies EXCEPT ![t] = Contract!Pending]
      BY <2>1, <2>2, JobMoves
    <3>4. Replies[t] # Contract!Pending
      BY <3>2 DEF Replies
    <3>5. Contract!Finish(t)
      BY <1>3, <2>1, <3>3, <3>4, SameQuestions
         DEF Contract!Finish, Origins, Askeds, Replies
    <3> QED
      BY <3>5 DEF Contract!Next
  <2> QED
    BY <2>3, <2>4
<1> QED
  BY <1>1, <1>2, <1>4, <1>5, <1>6, <1>7, <1>8, <1>9 DEF Next, Answers

LEMMA ContractInit ==
    Init => Contract!Init
<1> SUFFICES ASSUME Init PROVE Contract!Init
  OBVIOUS
<1>1. ASSUME NEW t \in Thread PROVE Asked(t) = NoQuestion /\ Reply(t) = Contract!Pending
  <2>1. job[t].ask = NoQuestion
    BY DEF Init, Idle
  <2> QED
    BY <2>1, AskedOf, QuestionOrConstruction
<1>2. ASSUME NEW w \in Wallet PROVE Origin(wallet[w]) = Contract!Unbuilt
  <2>1. ~wallet[w].built
    BY DEF Init, Unbuilt
  <2> QED
    BY <2>1 DEF Origin, Contract!Unbuilt
<1>3. Origins = [w \in Wallet |-> Contract!Unbuilt]
  BY <1>2 DEF Origins
<1>4. /\ Askeds = [t \in Thread |-> Contract!NoQuestion]
      /\ Replies = [t \in Thread |-> Contract!Pending]
  BY <1>1, SameQuestions DEF Askeds, Replies
<1> QED
  BY <1>3, <1>4, ContractVars

\* However the calls of the threads interleave on the cached key, and whichever
\* native throws in one of them, the methods of BitcoinWallet.java answer as a wallet
\* without cache does, from what it was built from, or with an error.
THEOREM WalletKeepsContract ==
    Spec => KeepsContract
<1>1. Inv /\ Inv' /\ [Next]_vars => [Contract!Next]_(Contract!vars)
  BY ContractStep
<1>2. Inv /\ [Next]_vars => Inv'
  BY InvStep
<1> QED
  BY <1>1, <1>2, InvInit, ContractInit, PTL DEF Spec, KeepsContract, Contract!Spec

----------------------------------------------------------------------------
(* What the contract promises of the answers of different calls.  It is    *)
(* proved of the contract alone, and the wallet keeps the contract.        *)

\* What was built stays built; a reply is to a question, and is the right one for
\* what the wallet was built from, or an error.
Promised ==
    /\ \A t \in Thread : Askeds[t] # Contract!NoQuestion =>
         Askeds[t] \in Contract!Question /\ Origins[Askeds[t].of] # Contract!Unbuilt
    /\ \A t \in Thread : Replies[t] # Contract!Pending =>
         /\ Askeds[t] # Contract!NoQuestion
         /\ Replies[t] \in {Contract!Right(Origins[Askeds[t].of], Askeds[t]),
                            Contract!Refused}

LEMMA PromisedInit ==
    Contract!Init => Promised
<1> SUFFICES ASSUME Contract!Init PROVE Promised
  OBVIOUS
<1>1. \A t \in Thread : Askeds[t] = Contract!NoQuestion /\ Replies[t] = Contract!Pending
  BY ContractVars
<1> QED
  BY <1>1 DEF Promised

\* The variables of the contract, step by step.
LEMMA ContractSteps ==
    ASSUME [Contract!Next]_(Contract!vars)
    PROVE  \/ UNCHANGED <<Origins, Askeds, Replies>>
           \/ \E w \in Wallet :
                /\ Origins[w] = Contract!Unbuilt
                /\ \E o \in Contract!Origin : Origins' = [Origins EXCEPT ![w] = o]
                /\ UNCHANGED <<Askeds, Replies>>
           \/ \E t \in Thread :
                /\ Askeds[t] = Contract!NoQuestion
                /\ Askeds'[t] \in Contract!Question
                /\ Origins[Askeds'[t].of] # Contract!Unbuilt
                /\ Askeds' = [Askeds EXCEPT ![t] = Askeds'[t]]
                /\ UNCHANGED <<Origins, Replies>>
           \/ \E t \in Thread :
                /\ Askeds[t] # Contract!NoQuestion
                /\ \E a \in {Contract!Right(Origins[Askeds[t].of], Askeds[t]),
                             Contract!Refused} :
                     Replies' = [Replies EXCEPT ![t] = a]
                /\ UNCHANGED <<Origins, Askeds>>
           \/ \E t \in Thread :
                /\ Askeds' = [Askeds EXCEPT ![t] = Contract!NoQuestion]
                /\ Replies' = [Replies EXCEPT ![t] = Contract!Pending]
                /\ UNCHANGED Origins
<1>1. CASE UNCHANGED Contract!vars
  BY <1>1 DEF Contract!vars, Origins, Askeds, Replies
<1>2. ASSUME NEW w \in Wallet, Contract!Build(w)
      PROVE  /\ Origins[w] = Contract!Unbuilt
             /\ \E o \in Contract!Origin : Origins' = [Origins EXCEPT ![w] = o]
             /\ UNCHANGED <<Askeds, Replies>>
  BY <1>2 DEF Contract!Build, Origins, Askeds, Replies
<1>3. ASSUME NEW t \in Thread, Contract!Ask(t)
      PROVE  /\ Askeds[t] = Contract!NoQuestion
             /\ Askeds'[t] \in Contract!Question
             /\ Origins[Askeds'[t].of] # Contract!Unbuilt
             /\ Askeds' = [Askeds EXCEPT ![t] = Askeds'[t]]
             /\ UNCHANGED <<Origins, Replies>>
  BY <1>3 DEF Contract!Ask, Origins, Askeds, Replies
<1>4. ASSUME NEW t \in Thread, Contract!Answer(t)
      PROVE  /\ Askeds[t] # Contract!NoQuestion
             /\ \E a \in {Contract!Right(Origins[Askeds[t].of], Askeds[t]),
                          Contract!Refused} :
                  Replies' = [Replies EXCEPT ![t] = a]
             /\ UNCHANGED <<Origins, Askeds>>
  BY <1>4 DEF Contract!Answer, Origins, Askeds, Replies
<1>5. ASSUME NEW t \in Thread, Contract!Finish(t)
      PROVE  /\ Askeds' = [Askeds EXCEPT ![t] = Contract!NoQuestion]
             /\ Replies' = [Replies EXCEPT ![t] = Contract!Pending]
             /\ UNCHANGED Origins
  BY <1>5 DEF Contract!Finish, Origins, Askeds, Replies
<1> QED
  BY <1>1, <1>2, <1>3, <1>4, <1>5 DEF Contract!Next

LEMMA PromisedStep ==
    ASSUME Promised, [Contract!Next]_(Contract!vars)
    PROVE  Promised'
<1> DEFINE A == Contract!NoQuestion
           P == Contract!Pending
           U == Contract!Unbuilt
           Q == Contract!Question
           R(o, q) == Contract!Right(o, q)
           E == Contract!Refused
<1>1. /\ DOMAIN Origins = Wallet /\ DOMAIN Askeds = Thread /\ DOMAIN Replies = Thread
      /\ \A o \in Contract!Origin : o # U
  <2>1. ASSUME NEW o \in Contract!Origin PROVE o # U
    <3>1. \/ \E r \in Root, net \in Net : o = Contract!Full(r, net)
          \/ \E r \in Root, net \in Net : o = Contract!Watching(r, net)
          \/ \E r \in Root, net \in Net, i \in 0..MaxIndex :
               o = Contract!Single(r, net, <<i>>)
      BY DEF Contract!Origin
    <3>2. /\ \A r, net : Contract!Full(r, net).has # "nothing"
          /\ \A r, net : Contract!Watching(r, net).has # "nothing"
          /\ \A r, net, path : Contract!Single(r, net, path).has # "nothing"
      BY DEF Contract!Full, Contract!Watching, Contract!Single
    <3>3. o.has # "nothing"
      BY <3>1, <3>2, Zenon
    <3> QED
      BY <3>3 DEF Contract!Unbuilt
  <2> QED
    BY <2>1 DEF Origins, Askeds, Replies
<1> SUFFICES ASSUME NEW t \in Thread
             PROVE  /\ Askeds'[t] # A => Askeds'[t] \in Q /\ Origins'[Askeds'[t].of] # U
                    /\ Replies'[t] # P =>
                         /\ Askeds'[t] # A
                         /\ Replies'[t] \in {R(Origins'[Askeds'[t].of], Askeds'[t]), E}
  BY DEF Promised
<1>2. /\ Askeds[t] # A => Askeds[t] \in Q /\ Origins[Askeds[t].of] # U
      /\ Replies[t] # P =>
           /\ Askeds[t] # A
           /\ Replies[t] \in {R(Origins[Askeds[t].of], Askeds[t]), E}
  BY DEF Promised
<1> HIDE DEF A, P, U, Q, R, E
<1>3. CASE UNCHANGED <<Origins, Askeds, Replies>>
  BY <1>2, <1>3
<1>4. ASSUME NEW w \in Wallet, Origins[w] = U,
             NEW o \in Contract!Origin, Origins' = [Origins EXCEPT ![w] = o],
             UNCHANGED <<Askeds, Replies>>
      PROVE  /\ Askeds'[t] # A => Askeds'[t] \in Q /\ Origins'[Askeds'[t].of] # U
             /\ Replies'[t] # P =>
                  /\ Askeds'[t] # A
                  /\ Replies'[t] \in {R(Origins'[Askeds'[t].of], Askeds'[t]), E}
  <2>1. Askeds[t] # A => Askeds[t].of # w
    BY <1>2, <1>4
  <2>2. Askeds[t] # A => Origins'[Askeds[t].of] = Origins[Askeds[t].of]
    BY <1>4, <2>1
  <2> QED
    BY <1>2, <1>4, <2>2
<1>5. ASSUME NEW u \in Thread, Askeds[u] = A, Askeds'[u] \in Q,
             Origins[Askeds'[u].of] # U,
             Askeds' = [Askeds EXCEPT ![u] = Askeds'[u]], UNCHANGED <<Origins, Replies>>
      PROVE  /\ Askeds'[t] # A => Askeds'[t] \in Q /\ Origins'[Askeds'[t].of] # U
             /\ Replies'[t] # P =>
                  /\ Askeds'[t] # A
                  /\ Replies'[t] \in {R(Origins'[Askeds'[t].of], Askeds'[t]), E}
  <2>1. t # u => Askeds'[t] = Askeds[t]
    BY <1>1, <1>5
  <2> QED
    BY <1>2, <1>5, <2>1
<1>6. ASSUME NEW u \in Thread, Askeds[u] # A,
             NEW a \in {R(Origins[Askeds[u].of], Askeds[u]), E},
             Replies' = [Replies EXCEPT ![u] = a], UNCHANGED <<Origins, Askeds>>
      PROVE  /\ Askeds'[t] # A => Askeds'[t] \in Q /\ Origins'[Askeds'[t].of] # U
             /\ Replies'[t] # P =>
                  /\ Askeds'[t] # A
                  /\ Replies'[t] \in {R(Origins'[Askeds'[t].of], Askeds'[t]), E}
  <2>1. IF t = u THEN Replies'[t] = a ELSE Replies'[t] = Replies[t]
    BY <1>1, <1>6
  <2> QED
    BY <1>2, <1>6, <2>1
<1>7. ASSUME NEW u \in Thread, Askeds' = [Askeds EXCEPT ![u] = A],
             Replies' = [Replies EXCEPT ![u] = P], UNCHANGED Origins
      PROVE  /\ Askeds'[t] # A => Askeds'[t] \in Q /\ Origins'[Askeds'[t].of] # U
             /\ Replies'[t] # P =>
                  /\ Askeds'[t] # A
                  /\ Replies'[t] \in {R(Origins'[Askeds'[t].of], Askeds'[t]), E}
  <2>1. IF t = u THEN Askeds'[t] = A /\ Replies'[t] = P
                 ELSE Askeds'[t] = Askeds[t] /\ Replies'[t] = Replies[t]
    BY <1>1, <1>7
  <2> QED
    BY <1>2, <1>7, <2>1
<1>8. \/ UNCHANGED <<Origins, Askeds, Replies>>
      \/ \E w \in Wallet :
           /\ Origins[w] = U
           /\ \E o \in Contract!Origin : Origins' = [Origins EXCEPT ![w] = o]
           /\ UNCHANGED <<Askeds, Replies>>
      \/ \E u \in Thread :
           /\ Askeds[u] = A /\ Askeds'[u] \in Q /\ Origins[Askeds'[u].of] # U
           /\ Askeds' = [Askeds EXCEPT ![u] = Askeds'[u]]
           /\ UNCHANGED <<Origins, Replies>>
      \/ \E u \in Thread :
           /\ Askeds[u] # A
           /\ \E a \in {R(Origins[Askeds[u].of], Askeds[u]), E} :
                Replies' = [Replies EXCEPT ![u] = a]
           /\ UNCHANGED <<Origins, Askeds>>
      \/ \E u \in Thread :
           /\ Askeds' = [Askeds EXCEPT ![u] = A]
           /\ Replies' = [Replies EXCEPT ![u] = P]
           /\ UNCHANGED Origins
  BY ContractSteps DEF A, P, U, Q, R, E
<1> QED
  BY <1>3, <1>4, <1>5, <1>6, <1>7, <1>8

LEMMA PromisedAlways ==
    Spec => []Promised
<1>1. Promised /\ [Contract!Next]_(Contract!vars) => Promised'
  BY PromisedStep
<1> QED
  BY <1>1, PromisedInit, WalletKeepsContract, PTL DEF KeepsContract, Contract!Spec

----------------------------------------------------------------------------
(* Answers agree: across threads, across wallets built from one key, and   *)
(* across wallets built from what another wallet answered.                 *)

\* Thread t has been given an answer that is no error.
Told(t) == job[t].ask \in Question /\ job[t].at = "answered" /\ job[t].got.kind # "error"

MyOrigin(t) == Origin(wallet[job[t].ask.of])

SameAnswers ==
    \A t, u \in Thread :
        /\ Told(t) /\ Told(u)
        /\ MyOrigin(t) = MyOrigin(u)
        /\ job[u].ask = [job[t].ask EXCEPT !.of = job[u].ask.of]
        => job[t].got = job[u].got

WatchingAnswers ==
    \A t, u \in Thread, r \in Root, net \in Net :
        /\ Told(t) /\ MyOrigin(t) = Contract!Full(r, net)
        /\ Told(u) /\ MyOrigin(u) = Contract!Watching(r, net)
        /\ job[u].ask = [job[t].ask EXCEPT !.of = job[u].ask.of]
        => job[t].got = job[u].got

\* The question q put to w, at the one index a WIF has.
AtZero(q, w) == [q EXCEPT !.of = w, !.index = 0]

WifAnswers ==
    \A t, u \in Thread, r \in Root, net \in Net, i \in 0..MaxIndex :
        /\ Told(t) /\ MyOrigin(t) \in {Contract!Full(r, net), Contract!Watching(r, net)}
        /\ Told(u) /\ MyOrigin(u) = Contract!Single(r, net, <<i>>)
        /\ job[t].ask.op \in {"toWIF", "toBitcoinAddress"} /\ job[t].ask.index = i
        /\ job[u].ask = AtZero(job[t].ask, job[u].ask.of)
        => job[t].got = job[u].got

\* A thread that was told something was told what is right.
LEMMA ToldRight ==
    ASSUME Inv, Promised, NEW t \in Thread, Told(t)
    PROVE  /\ job[t].ask \in Contract!Question
           /\ job[t].got = Contract!Right(MyOrigin(t), job[t].ask)
           /\ job[t].got.kind # "error"
<1>1. Asked(t) = job[t].ask
  BY AskedOf DEF Told
<1>2. job[t].ask.of \in Wallet /\ job[t].ask \in Contract!Question
  BY OfWallet, SameQuestions DEF Told
<1>3. Askeds[t] = job[t].ask /\ Origins[Askeds[t].of] = MyOrigin(t)
  BY <1>1, <1>2 DEF Askeds, Origins, MyOrigin
<1>4. Reply(t) = job[t].got
  BY AskedOf DEF Told
<1>5. Replies[t] = job[t].got
  BY <1>4 DEF Replies
<1>6. Contract!Refused.kind = "error"
  BY DEF Contract!Refused
<1>7. job[t].got # Contract!Refused
  BY <1>6 DEF Told
<1>8. job[t].got.kind # "pending"
  BY QuestionOrConstruction DEF Inv, JobsOK, JobOK, CallOK, Idle, Told
<1>9. job[t].got # Contract!Pending
  BY <1>8 DEF Contract!Pending
<1> QED
  BY <1>2, <1>3, <1>5, <1>7, <1>9 DEF Promised, Told

\* An answer does not depend on which wallet was asked.
LEMMA RightElsewhere ==
    ASSUME NEW o, NEW q \in Contract!Question, NEW w
    PROVE  LET r == [q EXCEPT !.of = w]
           IN  r.op = q.op /\ Contract!Right(o, r) = Contract!Right(o, q)
<1> DEFINE r == [q EXCEPT !.of = w]
<1>1. CASE q \in [op : {"xPrivateKey", "xPublicKey"}, of : Wallet]
  <2>1. r.op = q.op /\ q.op \in {"xPrivateKey", "xPublicKey"}
    BY <1>1
  <2> HIDE DEF r
  <2>2. Contract!Right(o, r) = Contract!Right(o, q)
    BY <2>1 DEF Contract!Right
  <2> QED
    BY <2>1, <2>2 DEF r
<1>2. CASE q \in [op : {"toWIF", "toBitcoinAddress"}, of : Wallet, index : Int]
  <2>1. r.op = q.op /\ r.index = q.index /\ q.op \in {"toWIF", "toBitcoinAddress"}
    BY <1>2
  <2> HIDE DEF r
  <2>2. Contract!Right(o, r) = Contract!Right(o, q)
    BY <2>1 DEF Contract!Right
  <2> QED
    BY <2>1, <2>2 DEF r
<1>3. CASE q \in [op : {"toDerivedAddress"}, of : Wallet, index : Int,
                  derivation : SUBSET Seq(Nat)]
  <2>1. /\ r.op = q.op /\ r.index = q.index /\ r.derivation = q.derivation
        /\ q.op = "toDerivedAddress"
    BY <1>3
  <2> HIDE DEF r
  <2>2. Contract!Right(o, r) = Contract!Right(o, q)
    BY <2>1 DEF Contract!Right
  <2> QED
    BY <2>1, <2>2 DEF r
<1> QED
  BY <1>1, <1>2, <1>3 DEF Contract!Question

\* What a wallet with the public key can answer, one with the private key answers
\* alike.
LEMMA RightOfWatching ==
    ASSUME NEW r, NEW net, NEW q \in Contract!Question
    PROVE  LET a == Contract!Right(Contract!Watching(r, net), q)
           IN  a.kind = "error" \/ a = Contract!Right(Contract!Full(r, net), q)
<1> DEFINE o == Contract!Watching(r, net)
           p == Contract!Full(r, net)
<1>1. /\ o.has = "master public key" /\ o.root = r /\ o.net = net
      /\ p.has = "master private key" /\ p.root = r /\ p.net = net
  BY DEF Contract!Watching, Contract!Full
<1> HIDE DEF o, p
<1>2. Contract!Refused.kind = "error"
  BY DEF Contract!Refused
<1>3. CASE q.op \in {"xPrivateKey", "toWIF"}
  <2>1. Contract!Right(o, q) = Contract!Refused
    BY <1>1, <1>3 DEF Contract!Right
  <2> QED
    BY <1>2, <2>1 DEF o
<1>4. CASE q.op \in {"xPublicKey", "toBitcoinAddress", "toDerivedAddress"}
  <2>1. Contract!Right(o, q) = Contract!Right(p, q)
    BY <1>1, <1>4 DEF Contract!Right
  <2> QED
    BY <2>1 DEF o, p
<1>5. q.op \in {"xPrivateKey", "toWIF", "xPublicKey", "toBitcoinAddress", "toDerivedAddress"}
  BY DEF Contract!Question
<1> QED
  BY <1>3, <1>4, <1>5

\* The one key of a WIF is the key of a master key at the index of the WIF.
LEMMA RightOfExported ==
    ASSUME NEW r, NEW net, NEW i \in 0..MaxIndex,
           NEW o \in {Contract!Full(r, net), Contract!Watching(r, net)},
           NEW q, NEW p, q.op \in {"toWIF", "toBitcoinAddress"}, q.index = i,
           p.op = q.op, p.index = 0
    PROVE  LET a == Contract!Right(o, q)
           IN  a.kind = "error" \/ a = Contract!Right(Contract!Single(r, net, <<i>>), p)
<1> DEFINE s == Contract!Single(r, net, <<i>>)
<1>a. s.has = "wif" /\ s.root = r /\ s.net = net /\ s.path = <<i>>
  BY DEF Contract!Single
<1>b. o.has \in {"master private key", "master public key"} /\ o.root = r /\ o.net = net
  <2>1. /\ Contract!Full(r, net).has = "master private key"
        /\ Contract!Full(r, net).root = r /\ Contract!Full(r, net).net = net
    BY DEF Contract!Full
  <2>2. /\ Contract!Watching(r, net).has = "master public key"
        /\ Contract!Watching(r, net).root = r /\ Contract!Watching(r, net).net = net
    BY DEF Contract!Watching
  <2> QED
    BY <2>1, <2>2
<1> HIDE DEF s
<1>1. /\ s.has = "wif" /\ s.root = r /\ s.net = net /\ s.path = <<i>>
      /\ o.has \in {"master private key", "master public key"} /\ o.root = r /\ o.net = net
  BY <1>a, <1>b
<1>2. Contract!Refused.kind = "error" /\ Contract!Valid(i) /\ Contract!Valid(0)
  BY WalletAssumption DEF Contract!Refused, Contract!Valid
<1>3. CASE q.op = "toWIF" /\ o.has = "master public key"
  <2>1. Contract!Right(o, q) = Contract!Refused
    BY <1>1, <1>3 DEF Contract!Right
  <2> QED
    BY <1>2, <2>1
<1>4. CASE q.op = "toWIF" /\ o.has = "master private key"
  <2>1. Contract!Right(o, q) = Key("wif", r, net, <<i>>)
    BY <1>1, <1>2, <1>4, RightIs
  <2>2. Contract!Right(s, p) = Key("wif", r, net, <<i>>)
    BY <1>1, <1>2, <1>4 DEF Contract!Right, Key
  <2> QED
    BY <2>1, <2>2 DEF s
<1>5. CASE q.op = "toBitcoinAddress"
  <2>1. Contract!Right(o, q) = Key("address", r, net, <<i>>)
    BY <1>1, <1>2, <1>5, RightIs
  <2>2. Contract!Right(s, p) = Key("address", r, net, <<i>>)
    BY <1>1, <1>2, <1>5 DEF Contract!Right, Key
  <2> QED
    BY <2>1, <2>2 DEF s
<1> QED
  BY <1>1, <1>3, <1>4, <1>5

LEMMA AnswersAgreeNow ==
    ASSUME Inv, Promised
    PROVE  SameAnswers /\ WatchingAnswers /\ WifAnswers
<1>1. SameAnswers
  <2> SUFFICES ASSUME NEW t \in Thread, NEW u \in Thread, Told(t), Told(u),
                      MyOrigin(t) = MyOrigin(u),
                      job[u].ask = [job[t].ask EXCEPT !.of = job[u].ask.of]
               PROVE  job[t].got = job[u].got
    BY DEF SameAnswers
  <2> QED
    BY ToldRight, RightElsewhere
<1>2. WatchingAnswers
  <2> SUFFICES ASSUME NEW t \in Thread, NEW u \in Thread, NEW r \in Root, NEW net \in Net,
                      Told(t), MyOrigin(t) = Contract!Full(r, net),
                      Told(u), MyOrigin(u) = Contract!Watching(r, net),
                      job[u].ask = [job[t].ask EXCEPT !.of = job[u].ask.of]
               PROVE  job[t].got = job[u].got
    BY DEF WatchingAnswers
  <2>1. /\ job[t].got = Contract!Right(Contract!Full(r, net), job[t].ask)
        /\ job[u].got = Contract!Right(Contract!Watching(r, net), job[u].ask)
        /\ job[u].got.kind # "error"
        /\ job[t].ask \in Contract!Question /\ job[u].ask \in Contract!Question
    BY ToldRight
  <2>2. job[u].got = Contract!Right(Contract!Full(r, net), job[u].ask)
    BY <2>1, RightOfWatching
  <2>3. Contract!Right(Contract!Full(r, net), job[u].ask)
          = Contract!Right(Contract!Full(r, net), job[t].ask)
    BY <2>1, RightElsewhere
  <2> QED
    BY <2>1, <2>2, <2>3
<1>3. WifAnswers
  <2> SUFFICES ASSUME NEW t \in Thread, NEW u \in Thread, NEW r \in Root, NEW net \in Net,
                      NEW i \in 0..MaxIndex, Told(t), Told(u),
                      MyOrigin(t) \in {Contract!Full(r, net), Contract!Watching(r, net)},
                      MyOrigin(u) = Contract!Single(r, net, <<i>>),
                      job[t].ask.op \in {"toWIF", "toBitcoinAddress"},
                      job[t].ask.index = i,
                      job[u].ask = AtZero(job[t].ask, job[u].ask.of)
               PROVE  job[t].got = job[u].got
    BY DEF WifAnswers
  <2>1. /\ job[t].got = Contract!Right(MyOrigin(t), job[t].ask)
        /\ job[u].got = Contract!Right(Contract!Single(r, net, <<i>>), job[u].ask)
        /\ job[t].got.kind # "error" /\ job[t].ask \in Contract!Question
    BY ToldRight
  <2>2. job[t].ask \in [op : {"toWIF", "toBitcoinAddress"}, of : Wallet, index : Int]
    BY <2>1 DEF Contract!Question
  <2>3. job[u].ask.op = job[t].ask.op /\ job[u].ask.index = 0
    BY <2>2 DEF AtZero
  <2> QED
    BY <2>1, <2>3, RightOfExported
<1> QED
  BY <1>1, <1>2, <1>3

\* The answers two threads get agree: to the same question put to two wallets that
\* were built from the same key, or to one wallet twice, wherever each of them was
\* in looking for the cached key, deriving and storing it (BitcoinWallet.java).
THEOREM AnswersAgree ==
    Spec => []SameAnswers
<1>1. Inv /\ Promised => SameAnswers
  BY AnswersAgreeNow
<1> QED
  BY <1>1, InvAlways, PromisedAlways, PTL

\* A wallet built from the public key another wallet gives out answers with the same
\* public key and the same addresses as that wallet.
THEOREM WatchingAgrees ==
    Spec => []WatchingAnswers
<1>1. Inv /\ Promised => WatchingAnswers
  BY AnswersAgreeNow
<1> QED
  BY <1>1, InvAlways, PromisedAlways, PTL

\* A wallet built from the WIF of index i answers at index 0 what the master key
\* answers at index i.
THEOREM WifAgrees ==
    Spec => []WifAnswers
<1>1. Inv /\ Promised => WifAnswers
  BY AnswersAgreeNow
<1> QED
  BY <1>1, InvAlways, PromisedAlways, PTL

\* What a wallet was built from never changes, whatever the threads that use it
\* store in it.
THEOREM OriginIsForEver ==
    Spec => [][\A w \in Wallet : wallet[w].built => wallet'[w].built
                 /\ Origin(wallet'[w]) = Origin(wallet[w])]_vars
<1>1. ASSUME Inv, [Next]_vars, NEW w \in Wallet, wallet[w].built
      PROVE  wallet'[w].built /\ Origin(wallet'[w]) = Origin(wallet[w])
  <2>1. Inv' /\ Grows(wallet[w], wallet'[w])
    BY <1>1, InvStep
  <2>2. WalletOK(wallet[w]) /\ WalletOK(wallet'[w])
    BY <1>1, <2>1 DEF Inv, WalletsOK
  <2> QED
    BY <1>1, <2>1, <2>2, OriginStays DEF Grows
<1>2. Inv /\ [Next]_vars =>
        [\A w \in Wallet : wallet[w].built => wallet'[w].built
           /\ Origin(wallet'[w]) = Origin(wallet[w])]_vars
  BY <1>1
<1> QED
  BY <1>2, InvAlways, PTL DEF Spec

==============================================================================
