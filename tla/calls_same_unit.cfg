SPECIFICATION Spec
CONSTANTS
    t1 = t1
    t2 = t2
    Thread = {t1, t2}
    Native <- AllNatives
    Code <- CodeOfNative
    Calls <- KeysOfOneUnit
    Leaky <- LeakyPath
    Odd <- OddPath
    Unwiped <- UnwipedNative
INVARIANTS
    SecretsDieWithCall
    HookAtRest
