------------------------------- MODULE ThrowNew -------------------------------
(***************************************************************************)
(* throwNewException: how every native raises its exceptions.              *)
(*                                                                         *)
(* To throw an object with an error code it needs five calls of the JVM,   *)
(* and each of them may be refused; it then formats a complaint into a     *)
(* static buffer, err_msg, and calls itself (throwError) to throw that as  *)
(* a plain java.lang.Exception, which may be refused as well.  A refused   *)
(* call leaves an exception of the JVM pending (no such class, out of      *)
(* memory), and one may be pending from the start: natives throw "Get UTF  *)
(* error" because GetStringUTFChars has just left one.  With an exception  *)
(* pending JNI does not say what such calls do: here they may be carried   *)
(* out or refused.                                                         *)
(*                                                                         *)
(* err_msg is one buffer for the whole process, and there is no lock.      *)
(***************************************************************************)
EXTENDS Integers, Sequences

CONSTANTS
    Thread,    \* the Java threads
    Message    \* the texts natives throw; a text stands for its length

\* Natives format into msg, which has 768 bytes, or throw a literal.
ASSUME MessageAssumption == Message \subseteq 0..767

\* No thread has the name that stands for the native itself.
ASSUME ThreadAssumption == "caller" \notin Thread

LangException == "java/lang/Exception"

\* The longest of the names of the library's own exceptions, which are all alike.
OwnException == "org/mynanojava/exceptions/BitcoinUtilException"

Class == {LangException, OwnException}

\* What a native asks for: throwError asks for a java.lang.Exception without
\* code (foreign: from bitcoin_util.c, with a literal of that file), the others
\* for one of the library's, with the code at hand (which may be zero).
Request ==
    [class : {LangException}, foreign : BOOLEAN, message : Message, error : {0}]
        \union [class : {OwnException}, foreign : {FALSE}, message : Message, error : {0, 1}]

----------------------------------------------------------------------------
(* Texts and exceptions.                                                   *)

\* The message argument may be the address of err_msg itself.
ErrMsg == -1

ErrMsgSize == 1024

Plain(m) == [by |-> "caller", class |-> "", about |-> m, size |-> m, itself |-> FALSE]

Overhead ==
    [class |-> 63, message |-> 77, initialize |-> 84, create |-> 80, throw |-> 62]

NameLength(class) == IF class = LangException THEN 19 ELSE 46

\* An int takes at most eleven characters.
CodeLength(complaint) == IF complaint = "class" THEN 0 ELSE 11

Exception(class, text, error) == [class |-> class, text |-> text, error |-> error]

Nothing == Exception("", Plain(0), 0)

OfJVM == Exception("JVM", Plain(0), 0)

Frame(at, class, foreign, message, error) ==
    [at |-> at, class |-> class, foreign |-> foreign, message |-> message,
     error |-> error, errMsg |-> FALSE]

VARIABLES
    stack,     \* stack[t]: the calls of throwNewException t is in, innermost first
    request,   \* request[t]: what the native asked for, while it is in there
    raised,    \* raised[t]: the pending exception
    err_msg,   \* what the static buffer holds
    trouble    \* trouble[t]: the JVM refused t something (history)

vars == <<stack, request, raised, err_msg, trouble>>

NoRequest == [class |-> ""]

Init ==
    /\ stack = [t \in Thread |-> <<>>]
    /\ request = [t \in Thread |-> NoRequest]
    /\ raised = [t \in Thread |-> Nothing]
    /\ err_msg = Plain(0)
    /\ trouble = [t \in Thread |-> FALSE]

Top(t) == Head(stack[t])

At(t, place) == stack[t] # <<>> /\ Top(t).at = place

\* The message argument, read now.
Text(f) == IF f.message = ErrMsg THEN err_msg ELSE Plain(f.message)

Goto(t, place) == stack' = [stack EXCEPT ![t] = <<[@[1] EXCEPT !.at = place]>> \o Tail(@)]

\* A JNI function refuses: an exception is pending after it.
Refused(t) ==
    /\ raised' = [raised EXCEPT ![t] = IF @ = Nothing THEN OfJVM ELSE @]
    /\ trouble' = [trouble EXCEPT ![t] = TRUE]

\* sprintf(err_msg, ...)
Format(t, complaint) ==
    LET f == Top(t)
    IN  err_msg' = [by |-> t, class |-> f.class, about |-> Text(f).about,
                    size |-> Overhead[complaint] + NameLength(f.class)
                               + Text(f).size + CodeLength(complaint),
                    itself |-> f.message = ErrMsg]

\* (mutant) The complaint is thrown with the code of what failed.
throwError_with_code(t, then) ==
    stack' = [stack EXCEPT ![t] =
                <<Frame("find class", LangException, FALSE, ErrMsg, @[1].error),
                  [@[1] EXCEPT !.at = then]>> \o Tail(@)]

\* throwError(env, err_msg); goes on at `then'.
throwError(t, then) ==
    stack' = [stack EXCEPT ![t] =
                <<Frame("find class", LangException, FALSE, ErrMsg, 0),
                  [@[1] EXCEPT !.at = then]>> \o Tail(@)]

----------------------------------------------------------------------------
(* throwNewException.                                                      *)

\* A native calls it, perhaps because the JVM has just refused it something.
Call(t) ==
    /\ stack[t] = <<>>
    /\ \E r \in Request :
         /\ request' = [request EXCEPT ![t] = r]
         /\ stack' = [stack EXCEPT ![t] =
                        <<Frame("find class", r.class, r.foreign, r.message, r.error)>>]
    /\ \/ UNCHANGED <<raised, trouble>>
       \/ Refused(t)
    /\ UNCHANGED err_msg

FindClass(t) ==
    /\ At(t, "find class")
    /\ Goto(t, IF Top(t).error = 0 THEN "throw new" ELSE "message")
    /\ UNCHANGED <<request, raised, err_msg, trouble>>

\* (mutant) java.lang.Exception is looked for again.
FindClassFails_again(t) ==
    /\ At(t, "find class")
    /\ Goto(t, "find fallback")
    /\ Refused(t)
    /\ UNCHANGED <<request, err_msg>>

\* class==NANO_JAVA_LANG_EXCEPTION_CLASS compares addresses: literals of two
\* files may have one address or two.
FindClassFails(t) ==
    /\ At(t, "find class")
    /\ \/ Top(t).class = LangException /\ Goto(t, "return")
       \/ /\ Top(t).class = LangException => Top(t).foreign
          /\ Goto(t, "find fallback")
    /\ Refused(t)
    /\ UNCHANGED <<request, err_msg>>

\* (mutant) The complaint is not formatted.
FindFallback_unformatted(t) ==
    /\ At(t, "find fallback")
    /\ stack' = [stack EXCEPT ![t] =
                   <<[@[1] EXCEPT !.at = "throw new", !.class = LangException,
                                  !.message = ErrMsg]>> \o Tail(@)]
    /\ UNCHANGED <<request, raised, err_msg, trouble>>

\* The complaint becomes the message, and java.lang.Exception the class.
FindFallback(t) ==
    /\ At(t, "find fallback")
    /\ Format(t, "class")
    /\ stack' = [stack EXCEPT ![t] =
                   <<[@[1] EXCEPT !.at = "throw new", !.class = LangException,
                                  !.message = ErrMsg]>> \o Tail(@)]
    /\ UNCHANGED <<request, raised, trouble>>

FindFallbackFails(t) ==
    /\ At(t, "find fallback")
    /\ Goto(t, "return")
    /\ Refused(t)
    /\ UNCHANGED <<request, err_msg>>

\* errMsg=NewStringUTF(message)
MakeMessage(t) ==
    /\ At(t, "message")
    /\ stack' = [stack EXCEPT ![t] =
                   <<[@[1] EXCEPT !.at = "constructor", !.errMsg = TRUE]>> \o Tail(@)]
    /\ UNCHANGED <<request, raised, err_msg, trouble>>

MakeMessageFails(t) ==
    /\ At(t, "message")
    /\ Format(t, "message")
    /\ throwError(t, "return")
    /\ Refused(t)
    /\ UNCHANGED request

FindConstructor(t) ==
    /\ At(t, "constructor")
    /\ Goto(t, "create")
    /\ UNCHANGED <<request, raised, err_msg, trouble>>

FindConstructorFails(t) ==
    /\ At(t, "constructor")
    /\ Format(t, "initialize")
    /\ throwError(t, "exit1")
    /\ Refused(t)
    /\ UNCHANGED request

Create(t) ==
    /\ At(t, "create")
    /\ Goto(t, "throw")
    /\ UNCHANGED <<request, raised, err_msg, trouble>>

\* (mutant) Returns past the label.
CreateFails_returns(t) ==
    /\ At(t, "create")
    /\ Format(t, "create")
    /\ throwError(t, "return")
    /\ Refused(t)
    /\ UNCHANGED request

\* (mutant) Looks for a constructor again, and finds the same one.
CreateFails_retries(t) ==
    /\ At(t, "create")
    /\ Goto(t, "constructor")
    /\ Refused(t)
    /\ UNCHANGED <<request, err_msg>>

CreateFails(t) ==
    /\ At(t, "create")
    /\ Format(t, "create")
    /\ throwError(t, "exit1")
    /\ Refused(t)
    /\ UNCHANGED request

Throw(t) ==
    /\ At(t, "throw")
    /\ raised' = [raised EXCEPT ![t] =
                    Exception(Top(t).class, Text(Top(t)), Top(t).error)]
    /\ Goto(t, "exit1")
    /\ UNCHANGED <<request, err_msg, trouble>>

\* (mutant) Nothing is thrown instead.
ThrowFails_silently(t) ==
    /\ At(t, "throw")
    /\ Goto(t, "exit1")
    /\ trouble' = [trouble EXCEPT ![t] = TRUE]
    /\ UNCHANGED <<request, raised, err_msg>>

\* Throw returns an error; an exception need not be pending then.
ThrowFails(t) ==
    /\ At(t, "throw")
    /\ Format(t, "throw")
    /\ throwError(t, "exit1")
    /\ trouble' = [trouble EXCEPT ![t] = TRUE]
    /\ UNCHANGED <<request, raised>>

ThrowNew(t) ==
    /\ At(t, "throw new")
    /\ raised' = [raised EXCEPT ![t] = Exception(Top(t).class, Text(Top(t)), 0)]
    /\ Goto(t, "return")
    /\ UNCHANGED <<request, err_msg, trouble>>

ThrowNewFails(t) ==
    /\ At(t, "throw new")
    /\ Goto(t, "return")
    /\ Refused(t)
    /\ UNCHANGED <<request, err_msg>>

\* throwNewException_EXIT1: DeleteLocalRef(errMsg)
Exit1(t) ==
    /\ At(t, "exit1")
    /\ stack' = [stack EXCEPT ![t] =
                   <<[@[1] EXCEPT !.at = "return", !.errMsg = FALSE]>> \o Tail(@)]
    /\ UNCHANGED <<request, raised, err_msg, trouble>>

\* throwError returns to the call that complained.
ReturnInside(t) ==
    /\ At(t, "return")
    /\ Tail(stack[t]) # <<>>
    /\ stack' = [stack EXCEPT ![t] = Tail(@)]
    /\ UNCHANGED <<request, raised, err_msg, trouble>>

\* Back in the native, which cleans up and returns to Java.
Return(t) ==
    /\ At(t, "return")
    /\ Tail(stack[t]) = <<>>
    /\ stack' = [stack EXCEPT ![t] = <<>>]
    /\ request' = [request EXCEPT ![t] = NoRequest]
    /\ raised' = [raised EXCEPT ![t] = Nothing]
    /\ trouble' = [trouble EXCEPT ![t] = FALSE]
    /\ UNCHANGED err_msg

\* The next statement of throwNewException, in the innermost call of t.
Step(t) ==
    \/ FindClass(t) \/ FindClassFails(t)
    \/ FindFallback(t) \/ FindFallbackFails(t)
    \/ MakeMessage(t) \/ MakeMessageFails(t)
    \/ FindConstructor(t) \/ FindConstructorFails(t)
    \/ Create(t) \/ CreateFails(t)
    \/ Throw(t) \/ ThrowFails(t)
    \/ ThrowNew(t) \/ ThrowNewFails(t)
    \/ Exit1(t) \/ ReturnInside(t) \/ Return(t)

Next == \E t \in Thread : Call(t) \/ Step(t)

\* A thread in throwNewException waits for nobody; the calls of the JVM return.
Fairness == \A t \in Thread : WF_vars(Step(t))

Spec == Init /\ [][Next]_vars /\ Fairness

----------------------------------------------------------------------------
(* Properties.                                                             *)

Place ==
    {"find class", "find fallback", "message", "constructor", "create", "throw",
     "throw new", "exit1", "return"}

\* Every call is at a place of throwNewException, and it is in itself at most
\* once: a complaint is thrown without code, so that nothing can fail that would
\* be complained about again.
TypeOK ==
    /\ \A t \in Thread :
         /\ stack[t] \in Seq([at : Place, class : Class, foreign : BOOLEAN,
                              message : Message \union {ErrMsg}, error : {0, 1},
                              errMsg : BOOLEAN])
         /\ Len(stack[t]) <= 2
         /\ request[t] \in Request \union {NoRequest}
         /\ raised[t].class \in Class \union {"JVM", ""}
    /\ err_msg.about \in Message \union {0}
    /\ trouble \in [Thread -> BOOLEAN]

\* err_msg is never formatted into itself (sprintf from a buffer into the same
\* buffer is undefined), and every complaint fits into its 1024 bytes, whatever
\* text the native threw.
ComplaintFits == ~err_msg.itself /\ err_msg.size < ErrMsgSize

\* What Java reads in an exception whose complaint t formatted is about what t's
\* native asked to throw, never a complaint left in err_msg by an earlier call.
\* Between its sprintf and its ThrowNew another thread may put its own complaint
\* into err_msg: then t's exception carries that one.
ComplaintIsMine ==
    \A t \in Thread :
        raised[t].text.by = t =>
            /\ raised[t].text.about = request[t].message
            /\ raised[t].text.class = request[t].class

\* The Java string of the message is released on every path that made one.
MessageReleased == \A t \in Thread : At(t, "return") => ~Top(t).errMsg

\* Exceptions as ThrowContract knows them.
Wanted(t) ==
    LET r == request[t]
    IN  IF r = NoRequest THEN Nothing ELSE Exception(r.class, Plain(r.message), r.error)

Kind(t) ==
    CASE raised[t] = Nothing -> "nothing"
      [] raised[t] # Nothing /\ raised[t] = Wanted(t) -> "asked"
      [] OTHER -> "other"

Contract == INSTANCE ThrowContract WITH
    asked   <- [t \in Thread |-> stack[t] # <<>>],
    raised  <- [t \in Thread |-> Kind(t)]

\* Whatever the JVM refuses, one or several times, throwNewException returns with
\* an exception pending: the one asked for, once it has been thrown or if
\* nothing was refused, and otherwise a stand-in.
KeepsContract == Contract!Spec

\* throwNewException returns, although it complains by calling itself and each
\* of its calls may be refused again and again.
Returns == \A t \in Thread : stack[t] # <<>> ~> stack[t] = <<>>

==============================================================================
