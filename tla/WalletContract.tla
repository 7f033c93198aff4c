---------------------------- MODULE WalletContract ----------------------------
(***************************************************************************)
(* What a BitcoinWallet promises to the program that uses it: a wallet is  *)
(* what it was built from, for ever, and answers every question from that  *)
(* alone.  There is no cache, and a question is answered at once.  A       *)
(* question may always be answered with an error of the crypto library.    *)
(***************************************************************************)
EXTENDS Integers, Sequences

CONSTANTS
    Thread,    \* the threads of the program
    Wallet,    \* its wallets
    Root,      \* the seeds of master keys
    Net,       \* the Bitcoin networks
    MaxIndex   \* the largest index of a key

VARIABLES
    origin,    \* origin[w]: what w was built from
    asked,     \* asked[t]: the question t waits on or was answered last
    reply      \* reply[t]: the answer it got

vars == <<origin, asked, reply>>

----------------------------------------------------------------------------
(* What a wallet can be built from.                                        *)

Unbuilt == [has |-> "nothing"]

Full(r, net)         == [has |-> "master private key", root |-> r, net |-> net]
Watching(r, net)     == [has |-> "master public key", root |-> r, net |-> net]
Single(r, net, path) == [has |-> "wif", root |-> r, net |-> net, path |-> path]

Origin ==
    {Full(r, net) : r \in Root, net \in Net}
        \union {Watching(r, net) : r \in Root, net \in Net}
        \union {Single(r, net, <<i>>) : r \in Root, net \in Net, i \in 0..MaxIndex}

----------------------------------------------------------------------------
(* Questions and answers.                                                  *)

NoQuestion == [op |-> "none"]

\* A derivation is a path of indices, or missing.
Question ==
    [op : {"xPrivateKey", "xPublicKey"}, of : Wallet]
        \union [op : {"toWIF", "toBitcoinAddress"}, of : Wallet, index : Int]
        \union [op : {"toDerivedAddress"}, of : Wallet, index : Int,
                derivation : SUBSET Seq(Nat)]

Pending == [kind |-> "pending"]
Refused == [kind |-> "error"]

Valid(i) == i \in 0..MaxIndex

\* The right answer of a wallet built from o.  A path is a sequence of indices.
Right(o, q) ==
    LET master == o.has \in {"master private key", "master public key"}
        Key(kind, path) == [kind |-> kind, root |-> o.root, net |-> o.net, path |-> path]
    IN  CASE q.op = "xPrivateKey" /\ o.has = "master private key" -> Key("xprv", <<>>)
          [] q.op = "xPublicKey" /\ master -> Key("xpub", <<>>)
          [] q.op = "toWIF" /\ Valid(q.index) /\ o.has = "master private key"
               -> Key("wif", <<q.index>>)
          [] q.op = "toWIF" /\ q.index = 0 /\ o.has = "wif" -> Key("wif", o.path)
          [] q.op = "toBitcoinAddress" /\ Valid(q.index) /\ master
               -> Key("address", <<q.index>>)
          [] q.op = "toBitcoinAddress" /\ q.index = 0 /\ o.has = "wif"
               -> Key("address", o.path)
          [] q.op = "toDerivedAddress" /\ Valid(q.index) /\ master /\ q.derivation # {}
               -> Key("address", Append(CHOOSE path \in q.derivation : TRUE, q.index))
          [] OTHER -> Refused

----------------------------------------------------------------------------

Init ==
    /\ origin = [w \in Wallet |-> Unbuilt]
    /\ asked = [t \in Thread |-> NoQuestion]
    /\ reply = [t \in Thread |-> Pending]

\* A wallet is built, once.
Build(w) ==
    /\ origin[w] = Unbuilt
    /\ \E o \in Origin : origin' = [origin EXCEPT ![w] = o]
    /\ UNCHANGED <<asked, reply>>

\* t asks a wallet that was built.  Question is infinite: a step is judged by it
\* and never enumerated from it.
Ask(t) ==
    /\ asked[t] = NoQuestion
    /\ asked'[t] \in Question
    /\ origin[asked'[t].of] # Unbuilt
    /\ asked' = [asked EXCEPT ![t] = asked'[t]]
    /\ UNCHANGED <<origin, reply>>

Answer(t) ==
    /\ asked[t] # NoQuestion
    /\ reply[t] = Pending
    /\ \E a \in {Right(origin[asked[t].of], asked[t]), Refused} :
         reply' = [reply EXCEPT ![t] = a]
    /\ UNCHANGED <<origin, asked>>

Finish(t) ==
    /\ reply[t] # Pending
    /\ asked' = [asked EXCEPT ![t] = NoQuestion]
    /\ reply' = [reply EXCEPT ![t] = Pending]
    /\ UNCHANGED origin

Next ==
    \/ \E w \in Wallet : Build(w)
    \/ \E t \in Thread : Ask(t) \/ Answer(t) \/ Finish(t)

Spec == Init /\ [][Next]_vars

==============================================================================
