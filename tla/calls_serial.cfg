SPECIFICATION Spec
CONSTANTS
    t1 = t1
    t2 = t2
    Thread = {t1}
    Native <- AllNatives
    Code <- CodeOfNative
    Calls <- EveryNative
    Leaky <- LeakyPath
    Odd <- OddPath
    Unwiped <- UnwipedNative
INVARIANTS
    TypeOK
    NoLeak
    ReleasesHeld
    ReadsIntact
    SecretsDieWithCall
    OneOutcome
    RandomServed
    HookAtRest
PROPERTIES
    KeepsContract
