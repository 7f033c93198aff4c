SPECIFICATION Spec
CONSTANTS
    t1 = t1
    t2 = t2
    Thread = {t1, t2}
    Native <- AllNatives
    Code <- CodeOfNative
    Calls <- OneUnitEach
    Leaky <- LeakyPath
    Odd <- OddPath
    Unwiped <- UnwipedNative
INVARIANTS
    ReadsIntact
    FreesHeld
    HeldIsOwed
    HookIsOwed
    SecretIsOwed
    OutcomeIsOwed
