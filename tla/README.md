# A verification project for myNanoJava

myNanoJava binds the C library *myNanoEmbedded* (Nano and Bitcoin cryptography) to Java.
Its own logic is small and lives in three places: two C files of JNI natives, the random
source they hand to the crypto library, and a few Java classes on top. What is hard there is
not arithmetic but discipline: thirty-eight hand-written functions that pin Java strings, pass
private keys through one static buffer, borrow one global random function, and leave by
ladders of `goto` labels, with no lock anywhere.

## 1. Inventory

| Component | Source | State | Operations | Modelled |
|---|---|---|---|---|
| Nano natives | `mynanojava.c`, declared in `MyNanoJava.java`, `NanoBlock.java` | per call: pinned strings and arrays, allocated blocks, the result, a pending exception | 24 natives | `NanoScripts` |
| Bitcoin natives | `bitcoin_util.c`, declared in `bitcoin/Util.java` | the same | 14 natives | `BitcoinScripts` |
| Scratch buffer | `nano_java_common.h:13`, `static char msg[768]` | one buffer per translation unit | written and read by nearly every native, as argument, key, result and error text; erased by `memset` | `CallSteps`, `NativeCalls` |
| Random function | `f_random_attach` / `f_random_detach` of the library | one pointer per process | attached and detached by five natives | `NativeCalls` |
| Random source | `gen_rand_no_entropy_util` (`mynanojava.c:16`) | `rnd_sz`, `left` | fill a buffer from `/dev/urandom` | `RandomFill` |
| BitcoinWallet | `BitcoinWallet.java` | `masterPrivateKey`, `masterPublicKey` (a cache), `wif` | 2 constructors, 5 methods | `BitcoinWallet` |
| NanoBlock | `NanoBlock.java` | 8 fields of a block, its signature and work | `sign`, `isBlockSigned`, `calculateWork`; getters that hand out the arrays | `NanoBlock` |
| P2PoWBlock | `P2PoWBlock.java` | a byte array of two blocks, which `getByteP2PoWBlock` gives away | 2 constructors, `getUserBlock`, `getRewardBlock`, `getByteP2PoWBlock` | `BlockStore` |
| Block conversion | `java_NanoBlock_2_C_NanoBlock_util`, `setNanoBlockToJVM_util` | none of its own | object to C structure and back | control in `NanoScripts`; contents in `BlockStore` |
| throwNewException | `mynanojava.c:1780` | `static char err_msg[1024]` | construct and throw; complain about what the JVM refuses by calling itself | `ThrowNew`; one step in `NativeCalls` |
| NanoKeyPair, enums, exceptions | Java | values | getters | no behaviour to model |
| libnanocrypto1, mbedtls, libsodium | headers only | external | | by its effect on the buffers it is given |

How they interact: a Java thread calls a native; the native copies or pins its arguments,
often by way of `msg`, calls the library, which may call back the random function attached at
that moment, and hands a new Java object or an exception back. `BitcoinWallet` calls the
Bitcoin natives and keeps what they return. Nothing in C or Java synchronises anything, so
all of this may happen in several threads at once. Nothing is persisted.

What makes each part correct:

* a native returns everything it acquired, on every path, and nothing it did not acquire;
  Java gets exactly one of a result and an exception; while an exception is pending, the
  JVM's or its own, the native only cleans up, but for throwing its own over the JVM's;
* what a native reads from `msg` is what it wrote there; no secret stays in `msg`;
* the random function is attached when the library draws, and no longer than needed;
* the random source fills exactly the buffer it was given;
* a wallet stays what it was built from, whatever its threads do with the cached key;
* a block ends with the signature and the work of the contents it has, whichever threads sign it
  and work on it;
* a block survives the way from object to bytes and back, its signature with it, and no block is
  read outside an array;
* `throwNewException` always leaves an exception pending, the one asked for or a stand-in.

The hazards behind these are listed in `PROJECT.json`, each at its line.

## 2. Modules

```
CallSteps        vocabulary: steps, exit paths, cells of msg
 |- NanoScripts, BitcoinScripts     one script per native
 |   `- NativeCode                  all of them by name; known exceptions
 `- NativeCalls                     threads executing scripts    --implements--> CallContract
     |- CallDiscipline              conditions on scripts, inductive invariants
     |   `- NativeCallsProofs       theorems
     |       `- ContractProofs      releases; the refinement; throws; progress
     |           `- SeparationProofs    threads kept apart; bytes of msg; the library
     |- MCCalls     (+ NativeCode)  constants for TLC
     `- MCDiscipline (+ CallDiscipline, MCCalls)   extended by SeparationProofs as well
RandomFill        `- RandomFillProofs
BitcoinWallet     --implements--> WalletContract                 WalletProofs
ThrowNew          --implements--> ThrowContract                  ThrowNewProofs
Blocks           what a block hashes to, signs, is worked on
 |- NanoBlock     --implements--> BlockContract                  NanoBlockProofs
 `- BlockStore                                                   BlockStoreProofs
```

`NativeCalls` composes all natives with the two things they share. What lies under one step of it
is taken apart elsewhere: a throw in `ThrowNew`, a draw of random bytes in `RandomFill`, what a
native does to keys in `BitcoinWallet` and to blocks in `NanoBlock` and `BlockStore`.

**CallSteps, NanoScripts, BitcoinScripts.** Thirty-eight natives are thirty-eight variations
of one theme, so they are *data*: a native is the sequence of its statements that have an
effect (pin, allocate, write into `msg`, read from it, attach, draw, detach, make the result)
and, for every statement that can fail, the exit path it takes, rung by rung, down to
`return`. An exit path is written the way the C code is: `e2 == <<Free("b")>> \o e1` is the
label `..._EXIT2` and what control falls through below it. `Literal` throws a constant text,
`Formatted(n, ...)` formats one of at least `n` bytes into `msg` and throws it. The numbers are
counted from the format strings; they matter because some natives count on an error text to
overwrite a key.

`msg` is cut into cells at every offset at which some native starts or ends an access. A cell
records who wrote it, in which native, and what kind of data. An access touches all cells it
overlaps; an error text erases only the cells it covers entirely.

**NativeCalls** executes scripts: `Proceed`, `Skip` (a null optional argument, a mode bit) and
`Fail` on the straight path, one action per kind of rung on the exit path, and `Return`.
A failing library call may or may not have written its output. What fails may be a function of
the JVM instead, which leaves an exception of its own: `refused`, apart from `thrown`, the
exception the native raises by `throwNewException`, over the JVM's if there is one. Each C statement
with an effect is atomic; threads interleave between any two.

**CallContract** is the promise: pins, a result, an exception, and that nothing is acquired or made
while an exception is pending, whether the JVM left it (`Refuse`) or the method raised it
(`Raise`, which may come over the JVM's; a second one of its own is not told from the first).
`NativeCalls!KeepsContract` states that every behaviour of the natives is one of the contract's.

**RandomFill** has one action per way the loop of `gen_rand_no_entropy_util` can turn: `Read`
(all that was asked), `ReadShort` (less), in `size_t` arithmetic (`% SizeMod`), and what happens
before it: `CannotOpen`, `Open`. `top` is the highest byte written; after a write past
the buffer the call takes no further step.

**BitcoinWallet** has an action per access to a field: `Look` (is the public key null?), `Derive`,
`Store`, `Use` (the field is read again). Keys are symbols: seed, network, path. The natives
are their checks and the key they return; any of them may also fail. **WalletContract** is
a wallet with no cache, which answers at once, from what it was built from.

**ThrowNew** is `throwNewException`, one action for each call of the JVM being carried out and one
for its being refused, and a stack of frames because a refusal is thrown by a call of itself. A
refused call leaves an exception of the JVM pending, and one may be pending from the start
(natives throw because `GetStringUTFChars` has just left one); with one pending JNI does not say
what the next call does, so it is carried out or refused. `err_msg` records who formatted it, about
what, how long it is, and whether it was formatted from itself. **ThrowContract**: asked for
an exception, return with it or with another, and with the one asked for if nothing was refused.

**Blocks** has what the library computes from a block: its hash, a signature (key and what it
covers), the work for a hash, and the verdict of verifying. **NanoBlock** is one object and the
threads that call `sign`, `isBlockSigned` and `calculateWork` of it, an action per access to its
fields, each method failing anywhere (`Fail`). `Edit` is the program, which writes into the
arrays it got from getters. `seen[t]`, a history variable, is what verifying would have said
at the moments of t's call. **BlockContract** gives each call one moment at which it does its
work, and nothing to a call that throws.

**BlockStore** follows one object, one byte array and one `P2PoWBlock` through all conversions.
Preamble, `prefixes` (an `int` in Java, a byte in C), lengths and block numbers are numbers or
symbols with the arithmetic of the code; the rest of a block is one symbol. `SignBytes` and
`ReleaseBytes` are the two ends of `signByteNanoBlock`, which works on a copy of the array while the
program may write into it (`WriteBytes`). `getByteP2PoWBlock` gives away the array of the `P2PoWBlock`
itself (`shared`): what is written into the one is then written into the other (`Into`). The
constructors check the size and nothing else, so any 249 bytes may become a user block, and the
reward block is whatever the library answers (`Reward`). `edited`, a history variable, says which
of the three come from bytes whose hash the program has changed since they were signed.

Operators marked *(mutant)* in the modules are deliberately wrong versions of the definition
below them: a dropped label, a shared buffer, a counter assigned instead of added. No
specification uses them. Putting one in place of its original makes the property
`PROJECT.json` names with it fail; they document what each property is able to see.

## 3. What is checked

| Run | What it asks | Bounds |
|---|---|---|
| `calls_serial` | all properties of `NativeCalls` and the contract, for every native and path | 1 thread, calls in any order, without limit |
| `calls_same_unit` | secrets and random function while two threads fight over one `msg` | 2 threads, each calling the three Nano natives that handle seeds and keys |
| `calls_cross_unit` | intact reads between the units; the inductive invariants `FreesHeld`, `HeldIsOwed`, `HookIsOwed`, `SecretIsOwed`, `OutcomeIsOwed`; the discipline of all 38 scripts | 2 threads, one in each unit, three natives each |
| `random_race` | *violated*: the random function is attached whenever the library draws | 2 threads |
| `fill_once_short` | the loop fills exactly the buffer and ends | lengths to 24, `size_t` of 6 bits, 1 short read per call |
| `fill_twice_short` | *violated*: it stays inside the buffer | the same with 2 short reads |
| `fill_not_opened` | *violated*: the buffer is filled on return | no short read |
| `wallet_threads` | a wallet keeps its identity, its fields settle, and it implements its contract | 2 threads, 1 wallet, 2 seeds, indices -1..2 with 2 too large |
| `wallet_testnet` | *violated*: master keys of both networks are taken | the same |
| `throw_pair` | complaints fit, are one's own and are released; an exception is pending at the end; it ends at all | 2 threads, one text of the greatest length (767), every JVM call refused or not |
| `block_shared` | work and signature belong to the block; `NanoBlock` implements its contract | 2 threads, 2 accounts, 2 contents |
| `block_store` | nothing is lost in conversion, no block outside the array is read, a signature stays one of its block wherever the block goes, a signed array agrees with its signature | 1 account, 2 contents, blocks of 3 bytes, `jint` to 9, `size_t` modulo 32, arrays of 0, 3, 5 and 6 bytes |

Why the bounds are enough. The natives share only `msg` and the random function; with one
thread `calls_serial` reaches every step and every exit of every script after every other
native has left its remains. Two threads are enough for a race on either: each of them
is a conflict of one writer with one reader, and the theorems of section 5 cover any number of
threads and natives. In `RandomFill` all quantities are linear in the length and the modulus;
24 and 64 leave room for wrap-around. A wallet's threads share one field, written with one
possible value. A complaint is longest for the longest text, and `err_msg` is shared by pairs.
Two accounts and two contents tell a right signature or work from a wrong one. The widths of
`block_store` keep the proportions of 249 bytes, 31 and 64 bits: the largest offset is below the
modulus of `size_t`, and array lengths lie at and between whole blocks. For `RandomFill`,
`BitcoinWallet`, `ThrowNew`, `NanoBlock` and `BlockStore` the theorems of section 5 remove the bounds,
liveness excepted; in `RandomFill` at most one short read *per call* is the condition of the property itself.

Properties that fail for two threads in the *same* unit are not run there: `ReadsIntact`, and
with it the data a native returns, does not survive a second thread in the same unit
(`msg` is static and unprotected). Nothing in the repository promises thread safety, so this is
listed as a hazard and not as a disagreement.

`Leaky`, `Odd` and `Unwiped` (values in `NativeCode`) name the exact statements and natives that
are known to break a property: three paths that do not release a string (`bitcoin_util.c:684`,
which two natives share, and `:763`), two natives that return neither or an arbitrary
result (`toBase58`, `signatureByteToString`), and three generators whose failing path skips
the `memset`. The properties hold everywhere else; removing an entry makes a run fail.

### Findings

* `mynanojava.c:28`: `left-=rnd_sz` subtracts the total, not the last read. One short read is
  harmless; after two `left` is wrong and wraps (`fill_twice_short`).
* `mynanojava.c:21`: a device that cannot be opened leaves the buffer unfilled and nobody
  learns of it (`fill_not_opened`).
* `mynanojava.c:983` and its siblings: a native detaches the random function another thread
  is about to use (`random_race`).
* `bitcoin_util.c:684`: operator precedence; master keys of the test network are refused with
  error 5152 by the natives that list their type (`wallet_testnet`).

### Fairness

Two modules state fairness. `RandomFill`: weak fairness on the steps of the function itself, which
runs on its caller's thread without waiting for anybody; `Ask` is not fair, nobody has to call
it; `fread` is assumed to return. `ThrowNew`: weak fairness on the steps of each thread that is in
`throwNewException`, which takes no lock and waits for nobody; calls of the JVM are assumed to
return, refused or not, and `Call` is not fair. The other modules state safety only: there is
nothing in them a thread waits for.

## 4. What stays outside

* Races on `msg` outside `NativeCalls`. `NanoBlock`, `BlockStore` and `BitcoinWallet` have one thread at a
  time in the natives that use `msg`: what two do to each other there is the subject of
  `NativeCalls`, and would make every other statement about contents void.
* In `NativeCalls` a throw is one step. `throwNewException` calls `FindClass`, `NewStringUTF` and
  `NewObject` even if an exception of the JVM is pending, which are not among the functions JNI
  allows then; what may become of these calls, and which exception is pending in the end, is in
  `ThrowNew`. Which of the checks in one step has failed is not told apart, so that in the model
  any failing step may have left an exception of the JVM.
* Writes into the arrays of a `NanoBlock` while one of its methods runs: the program's own.
* What the reward block of a `P2PoWBlock` has to do with its user block, and whether the library
  takes a user block without a preamble: `nano_create_p2pow_block_dynamic` is external.
* `memcpy` and the copies of the JVM are atomic: no torn arrays. `GetByteArrayElements` is taken
  to hand out a copy, as HotSpot does; with a pinned array, writes of the program would go into the
  block while it is signed.
* The getters, `toJson`, balances and hexadecimal text keep no state and are not modelled.
* Arguments that leave C or the JVM undefined (`nanoBytePoW(null, ..)`).
* The worker threads of `f_nano_pow`: external; the call is one step.
* In `BitcoinWallet` the accesses of two threads to a field are sequentially consistent. The
  field holds a reference, so Java's memory model gives no torn values, but a thread may in
  principle see an older null longer than here; it would then derive the same key again.
* `getBalance_util`, base58, hexadecimal conversion: the library's arithmetic.

**Not modelled.** Of the 51500 lines of the repository's implementation about 49000 are headers of
libnanocrypto1, mbedtls and libsodium under `include/`: declarations, constants and comments of
a library whose code is not in the repository. They define no state change, and where a native
relies on what they say (which functions draw random bytes, what `f_random_attach` is given), the
modules of the natives have it. Of the two C files and the Java classes that are this project's own,
every function and method that changes state is modelled. `NanoKeyPair`, the enums and the exception
classes hold values and have no behaviour; build files and tests are read for what they say of
the program. So little of what is left can be modelled that the share of mapped lines cannot rise
much further.

## 5. What is proved

Nothing is assumed but the assumptions on constants, which TLC evaluates: `CodeAssumption` (well-formed
scripts), `FillAssumption`, `WalletAssumption`, `MessageAssumption` (texts shorter than `msg`),
`ThreadAssumption`, `WidthAssumption` (an offset fits into a `size_t`), and, for the three theorems about
the library, `CodeIsDisciplined`, below.

### Natives

`NativeCallsProofs`, for every set of threads and natives and every set of scripts:

* `TypeCorrect`: `Spec => []TypeOK`.
* `NothingLeaks`: if `Balanced(n)` for every native, `Spec => []NoLeak`. `NoLeak` speaks of
  return statements only and is not inductive. `HeldIsOwed` is: on the straight path a call
  holds at most what the steps behind it may have acquired (`MayHold`, a forward data-flow
  analysis of the script), on an exit path at most what the rungs ahead release. `Balanced`
  makes the first imply the second at every failing statement.
* `HookLeftAtRest`: if `Bracketed(n)`, `[]HookAtRest`, by `HookIsOwed`: while a
  function is attached some call is still to detach it. A thread that detaches another's function
  does no harm to this property, only to `RandomServed`.
* `SecretsErased`: if `Wipes(n)`, `[]SecretsDieWithCall`, by `SecretIsOwed`: every
  secret in a cell belongs to a call that will still overwrite that cell. A second thread in the
  same buffer can only erase a secret early.
* `OneOutcomeAlways`: if `Decided(n)`, `[]OneOutcome`, by `OutcomeIsOwed`: a call that has not one of
  a result and an exception, or has both, is on a path that settles it.
* `HeldAlwaysOwed`, `HookAlwaysOwed`, `SecretAlwaysOwed`, `OutcomeAlwaysOwed` state the invariants themselves.

`ContractProofs`:

* `OnlyHeldIsReleased`: if `Backed(n)`, `[]ReleasesHeld`. The invariant, `FreesHeld` (`ReleasesAlwaysBacked`),
  is the converse of `HeldIsOwed`: on the straight path a call holds at least what `MustHold` says,
  on an exit path at least what the rungs ahead release, and no path releases anything twice.
* `NativesKeepContract`: if `Balanced(n)`, `Decided(n)` and `Orderly(n)` (a step acquires, releases or
  produces one thing), `Spec => KeepsContract`. Every step of `NativeCalls` is one of `CallContract` or
  none: working steps need that no exception is pending, of the native's own by `OutcomeIsOwed`, of
  the JVM by `RefusedLeaves` (a call the JVM has refused something is on its way out), and a
  return needs `NoLeak` and `OneOutcome`.
* `NeverThrowsTwice` and `PendingOnlyCleansUp`: if `Decided(n)` and `ThrowsOnce(n)`, a call that has thrown, or that
  the JVM has refused something, executes no further statement of its straight-line path,
  acquires nothing and makes no result until it returns, and it throws at most once. This is not
  the rule of JNI: the throw over an exception of the JVM makes calls that the rule forbids
  (section 4). The contract alone does not tell a second throw from the first.
* `CallComesNearer`: if no exit path is longer than `m` (`EndsWithin(n, m)`), every statement a thread executes
  in a native lowers a measure of what it has ahead, and no other thread raises it.

`SeparationProofs` first proves the two properties that a race does break, for threads that keep apart:

* `RandomServedApart`: if only one thread calls natives that use the random function (`OneServed`) and
  `Served(n)`, `[]RandomServed`. `ServesInTime` says that a thread between its attach and its detach
  finds a function attached.
* `ReadsIntactApart`: if no two threads call natives of one unit (`OneEachUnit`) and `Readable(n)`,
  `[]ReadsIntact`. `StaysIntact` follows each datum from the step that writes it to the steps that
  read it (`Kept`: nothing of the native's own overlaps it meanwhile) and each text from the
  `sprintf` to the throw.

Then it removes the abstraction of `msg` into cells. `TouchedIsByteForByte`: an access touches a cell exactly
if it touches a byte of it; `ApartInCellsApartInBytes`: the cells hide no clash; `OverwrittenIsByteForByte`:
an error text erases a cell exactly if it covers it. With these, `SecretBytesErased` says of `Wipes(n)` what
it is for: on every path that ends a call, each *byte* of each secret put into `msg` before is zeroed or
written over.

`Balanced`, `Backed`, `Bracketed`, `Wipes`, `Decided`, `ThrowsOnce`, `Orderly`, `Served`, `Readable` and `EndsWithin` are
statements about one script at a time. `MCDiscipline` asserts them of all 38 real scripts
(`CodeIsDisciplined`), which TLC evaluates in `calls_cross_unit`, where `Native` and `Code` are the library's. From
this assumption `SeparationProofs` concludes for the library as it is, and any number of threads:

* `LibraryIsSafe`: nothing leaks, nothing is released that is not held, the random function is at rest between
  calls, no secret outlives its call, there is one outcome, the contract is kept, and with an exception
  pending, the JVM's or its own, a native only cleans up in the sense of `PendingOnlyCleansUp`. There is no
  other premise.
* `LibraryApart`: `ReadsIntact` and `RandomServed`, if threads keep apart in the sense above.
* `LibraryCallsEnd`: every call is finite (`MaxRungs`, the bound on exit paths of the library, is 10).

`random_race` and the hazard at `nano_java_common.h:13` show that `OneServed` and `OneEachUnit` are needed.

### The other components

* `RandomFillProofs`, for every length, every `SizeMod` above it and any number of short reads:
  `FillTypeCorrect`, and `OneShortReadIsHarmless`: *a call* with at most one short read stays inside the
  buffer and fills it, whatever other calls met. (`FillStaysInside` and `FillIsComplete`, the properties of the
  runs, follow for `MaxShort <= 1`.) The invariant `Accounted` says that before a short read `left = output_len`
  and `rnd_sz = 0`, and after one `left + rnd_sz = output_len`: the wrong subtraction is right as long as the total
  is the last read. `LaterPieceUpsets` says exactly when it goes wrong: with a short read that finds
  `rnd_sz` not 0, and only then. `FullReadEnds`: until then the first full `fread` is the last.
  `FillComesNearer`: at most three statements are ahead of a call with at most one short read, each brings
  it nearer to its return, and it always has one.
* `WalletProofs`, for every set of threads, wallets and seeds: `WalletTypeCorrect`, `IdentityStays`, `FieldsStay`,
  and `WalletKeepsContract`, the refinement. The invariant says of each call in progress that what it has read
  of the wallet, or derived from it, is still true; it survives the other threads because a built
  wallet only ever gets its public key (`Grows`), and that is the one everybody derives. `OriginIsForEver`: what
  a wallet was built from never changes. What users of the class rely on follows from the *contract*: an
  answer is the one of the wallet's origin (`Promised`, an invariant of `WalletContract` under the mapping),
  so `AnswersAgree` (wallets of one origin answer alike), `WatchingAgrees` (a wallet made of the public key
  another gives out has the same addresses) and `WifAgrees` (a wallet made of the WIF of index i answers
  as the master key does at i).
* `ThrowNewProofs`, for every set of threads and texts up to 767 characters: `ThrowTypeCorrect` (which
  bounds the recursion: one call of itself), `ComplaintAlwaysFits`, `ComplaintStaysMine`, `MessageIsReleased`,
  `ThrowKeepsContract`. The invariant describes the two shapes of the stack: a call by a native, and
  over it a call that complains, which has no error code and so nothing left to complain about.
  `AlwaysRaises`: no native gets control back without an exception pending. `ThrowComesNearer`: at most ten
  statements are ahead of a call, every one brings it nearer, and other threads do not matter.
* `NanoBlockProofs`, for every set of threads, accounts and contents: `BlockTypeCorrect`, `WorkIsOfSigned`,
  `SignatureStays`, `BlockKeepsContract`. The invariant (`InHand`): a signature, a hash or work in a thread's
  hands still fits the block, since nothing that happens during calls changes what is hashed.
  `StoredSignatureFits`: a signature made of a copy is of the block it is stored in. `AnswersWereTrue`:
  whatever `isBlockSigned` answers was the case at some moment of its call.
* `BlockStoreProofs`, for every block size and widths within `WidthAssumption`: `StoreTypeCorrect`, `BlockStaysInside`
  (that modular arithmetic is ordinary below the modulus), `NothingIsLost`, `SignedBytesStayTrue`, and
  `SignaturesSurvive`: a signature is parted from its block only by a write of the program into what is
  hashed, and only in what comes from the array it wrote into, a `P2PoWBlock` whose array was given
  away among it. The invariant (`Together`) is that such an array and the `P2PoWBlock` stay one.

Only model-checked: the liveness properties `FillReturns` and `Returns`, since the prover does neither fairness
nor `ENABLED`. Their safety half is proved for all values of the constants (`FillComesNearer`,
`ThrowComesNearer`): a bounded measure that each step decreases and that is 0 only outside a call. The properties
of the runs that expect a violation have no theorem in that form; `LaterPieceUpsets` and `OneServed` say where
two of them begin to hold. `CodeIsDisciplined` is evaluated by TLC and not proved: it is a computation over
38 scripts.

## 6. Plan

Done: all of the plan as far as the code allows: natives, random source, wallet, blocks, conversion,
exceptions; their contracts; and theorems for every safety property the passing runs check. Beyond
these there are theorems on progress, on the bytes behind the cells of `msg`, on what callers may conclude
from the contracts, and for the library as a whole.

What is left is little:

1. **Random source and natives composed**: what a seed is when `RandomFill` returned unfilled. The
   parts exist; the composition would say in `NativeCalls` that a draw may leave its data unset.
2. **Pinned arrays**: `signByteNanoBlock` on a JVM whose `GetByteArrayElements` does not copy.
3. **Two threads in `msg` under `NanoBlock`**: which of its promises survive. Most do not, and
   nothing in the repository says that they should.
