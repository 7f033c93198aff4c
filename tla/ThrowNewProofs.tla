---------------------------- MODULE ThrowNewProofs ----------------------------
(***************************************************************************)
(* throwNewException of ThrowNew, for every set of threads and texts: it   *)
(* calls itself at most once, its buffer holds what it formats, and it     *)
(* returns with an exception pending.                                      *)
(***************************************************************************)
EXTENDS ThrowNew, SequenceTheorems, TLAPS

Frames == [at : Place, class : Class, foreign : BOOLEAN,
           message : Message \union {ErrMsg}, error : {0, 1}, errMsg : BOOLEAN]

\* The exception a request asks for.
Wish(r) == Exception(r.class, Plain(r.message), r.error)

Before ==
    {"find class", "find fallback", "message", "constructor", "create", "throw", "throw new"}

After == {"exit1", "return"}

----------------------------------------------------------------------------
(* Stacks of one and of two calls; exceptions.                             *)

LEMMA Stacks ==
    /\ \A f : <<f>> # <<>> /\ Head(<<f>>) = f /\ Tail(<<f>>) = <<>> /\ <<f>>[1] = f
    /\ \A f, g : /\ <<f, g>> # <<>> /\ Head(<<f, g>>) = f /\ Tail(<<f, g>>) = <<g>>
                 /\ <<f, g>>[1] = f
    /\ \A f : <<f>> \o <<>> = <<f>>
    /\ \A f, g : <<f>> \o <<g>> = <<f, g>> /\ <<f, g>> \o <<>> = <<f, g>>
<1>1. \A f : <<f>> # <<>> /\ Head(<<f>>) = f /\ Tail(<<f>>) = <<>> /\ <<f>>[1] = f
  OBVIOUS
<1>2. \A f, g : /\ <<f, g>> # <<>> /\ Head(<<f, g>>) = f /\ Tail(<<f, g>>) = <<g>>
                /\ <<f, g>>[1] = f
  OBVIOUS
<1>3. \A f : <<f>> \o <<>> = <<f>>
  OBVIOUS
<1>4. \A f, g : <<f, g>> \o <<>> = <<f, g>>
  OBVIOUS
<1>5. ASSUME NEW f, NEW g PROVE <<f>> \o <<g>> = <<f, g>>
  <2> DEFINE S == {f, g}
  <2>1. <<f>> \o <<g>> \in Seq(S) /\ Len(<<f>> \o <<g>>) = 2
    OBVIOUS
  <2>2. <<f, g>> \in Seq(S) /\ Len(<<f, g>>) = 2
    OBVIOUS
  <2>3. (<<f>> \o <<g>>)[1] = f /\ (<<f>> \o <<g>>)[2] = g
    OBVIOUS
  <2>4. \A i \in 1..2 : (<<f>> \o <<g>>)[i] = <<f, g>>[i]
    BY <2>3
  <2> HIDE DEF S
  <2> QED
    BY <2>1, <2>2, <2>4, SeqEqual
<1> QED
  BY <1>1, <1>2, <1>3, <1>4, <1>5

LEMMA StackTypes ==
    ASSUME NEW S, NEW f \in S, NEW g \in S
    PROVE  /\ <<>> \in Seq(S) /\ Len(<<>>) = 0
           /\ <<f>> \in Seq(S) /\ Len(<<f>>) = 1
           /\ <<f, g>> \in Seq(S) /\ Len(<<f, g>>) = 2
  OBVIOUS

LEMMA ExceptionIs ==
    ASSUME NEW c, NEW x, NEW e
    PROVE  /\ Exception(c, x, e).class = c
           /\ Exception(c, x, e).text = x
           /\ Exception(c, x, e).error = e
  BY DEF Exception

LEMMA PlainIs ==
    ASSUME NEW m
    PROVE  /\ Plain(m).by = "caller" /\ Plain(m).about = m /\ Plain(m).size = m
           /\ Plain(m).itself = FALSE
  BY DEF Plain

LEMMA OthersAre ==
    /\ Nothing.class = "" /\ Nothing.text.by = "caller"
    /\ OfJVM.class = "JVM" /\ OfJVM.text.by = "caller"
    /\ OfJVM # Nothing
<1>1. Nothing.class = "" /\ Nothing.text.by = "caller"
  BY DEF Nothing, Exception, Plain
<1>2. OfJVM.class = "JVM" /\ OfJVM.text.by = "caller"
  BY DEF OfJVM, Exception, Plain
<1> QED
  BY <1>1, <1>2

\* What a native may ask for.
LEMMA Requests ==
    ASSUME NEW r \in Request
    PROVE  /\ r.class \in Class /\ r.foreign \in BOOLEAN
           /\ r.message \in Message /\ r.error \in {0, 1}
           /\ r.class = LangException => r.error = 0
           /\ r.message # ErrMsg /\ r.message \in 0..767
           /\ r # NoRequest
           /\ Wish(r).class \in Class /\ Wish(r).text.by = "caller"
           /\ Wish(r) # Nothing /\ Wish(r) # OfJVM
<1>1. /\ r.class \in Class /\ r.foreign \in BOOLEAN
      /\ r.message \in Message /\ r.error \in {0, 1}
      /\ r.class = LangException => r.error = 0
  BY DEF Request, Class, LangException, OwnException
<1>2. r.message # ErrMsg /\ r.message \in 0..767
  <2>1. r.message \in 0..767
    BY <1>1, MessageAssumption
  <2>2. \A m \in 0..767 : m # ErrMsg
    BY DEF ErrMsg
  <2> QED
    BY <2>1, <2>2
<1>3. "" \notin Class /\ "JVM" \notin Class
  BY DEF Class, LangException, OwnException
<1>4. r # NoRequest
  <2>1. NoRequest.class = ""
    BY DEF NoRequest
  <2> QED
    BY <1>1, <1>3, <2>1
<1>5. Wish(r).class \in Class /\ Wish(r).text.by = "caller"
  BY <1>1 DEF Wish, Exception, Plain
<1>6. Wish(r) # Nothing /\ Wish(r) # OfJVM
  BY <1>3, <1>5, OthersAre
<1> QED
  BY <1>1, <1>2, <1>4, <1>5, <1>6

----------------------------------------------------------------------------
(* The inductive invariant.                                                *)

\* A complaint of t in err_msg is about what t was asked for.
About(t, e, r) == e.by = t => e.about = r.message /\ e.class = r.class

Own(f, r) ==
    /\ f.class = r.class /\ f.foreign = r.foreign
    /\ f.message = r.message /\ f.error = r.error

\* The call of the native: it throws what it was asked for, or the complaint
\* that there is no such class.
OuterOK(f, r) ==
    /\ f \in Frames
    /\ f.errMsg => f.at \in {"constructor", "create", "throw", "exit1"}
    /\ \/ Own(f, r) /\ (f.at = "throw new" => r.error = 0)
       \/ /\ f.class = LangException /\ f.message = ErrMsg
          /\ f.at \in {"throw new", "return"}

\* The call it makes of itself: without code, hence without string or constructor.
InnerOK(f) ==
    /\ f \in Frames
    /\ f.class = LangException /\ ~f.foreign
    /\ f.message = ErrMsg /\ f.error = 0 /\ ~f.errMsg
    /\ f.at \in {"find class", "throw new", "return"}

OneOK(t, f, r, x, b, e) ==
    /\ OuterOK(f, r)
    /\ f.at \in Before => x # Wish(r)
    /\ f.at \in After => x # Nothing /\ (x = Wish(r) \/ b)
    /\ f.at = "find fallback" \/ f.message = ErrMsg => b
    /\ f.at = "throw new" /\ f.message = ErrMsg => e.by # "caller" /\ About(t, e, r)

TwoOK(t, f, g, r, x, b, e) ==
    /\ InnerOK(f) /\ OuterOK(g, r) /\ Own(g, r) /\ g.at \in After
    /\ b /\ x # Wish(r)
    /\ f.at = "return" => x # Nothing
    /\ e.by # "caller" /\ About(t, e, r)

\* What is true of a thread t with stack s, request r, exception x and trouble b
\* while e is in err_msg.
ThreadOK(t, s, r, x, b, e) ==
    /\ x.class \in Class \union {"JVM", ""}
    /\ x.text.by = t => x.text.about = r.message /\ x.text.class = r.class
    /\ \/ s = <<>> /\ r = NoRequest /\ x = Nothing /\ ~b
       \/ /\ r \in Request
          /\ \/ \E f \in Frames : s = <<f>> /\ OneOK(t, f, r, x, b, e)
             \/ \E f, g \in Frames : s = <<f, g>> /\ TwoOK(t, f, g, r, x, b, e)

\* What is in err_msg.
BufferOK(e) ==
    /\ e.about \in Message \union {0}
    /\ e.size \in 0..(ErrMsgSize - 1)
    /\ ~e.itself

Inv ==
    /\ DOMAIN stack = Thread /\ DOMAIN request = Thread /\ DOMAIN raised = Thread
    /\ trouble \in [Thread -> BOOLEAN]
    /\ BufferOK(err_msg)
    /\ \A t \in Thread :
         ThreadOK(t, stack[t], request[t], raised[t], trouble[t], err_msg)

LEMMA InvInit ==
    Init => Inv
<1> SUFFICES ASSUME Init PROVE Inv
  OBVIOUS
<1>1. BufferOK(err_msg)
  <2>1. BufferOK(Plain(0))
    BY DEF Plain, BufferOK, ErrMsgSize
  <2> QED
    BY <2>1 DEF Init
<1>2. ASSUME NEW t \in Thread
      PROVE  ThreadOK(t, stack[t], request[t], raised[t], trouble[t], err_msg)
  BY ThreadAssumption, OthersAre DEF Init, ThreadOK
<1> QED
  BY <1>1, <1>2 DEF Init, Inv

\* A thread moves alone.  What it puts into err_msg is not another's.
LEMMA MoveKeeps ==
    ASSUME Inv, NEW t \in Thread,
           DOMAIN stack' = Thread, DOMAIN request' = Thread, DOMAIN raised' = Thread,
           trouble' \in [Thread -> BOOLEAN],
           \A u \in Thread \ {t} : /\ stack'[u] = stack[u] /\ request'[u] = request[u]
                                   /\ raised'[u] = raised[u] /\ trouble'[u] = trouble[u],
           err_msg' = err_msg \/ (err_msg'.by = t /\ BufferOK(err_msg')),
           ThreadOK(t, stack'[t], request'[t], raised'[t], trouble'[t], err_msg')
    PROVE  Inv'
<1>1. BufferOK(err_msg')
  BY DEF Inv
<1>2. ASSUME NEW u \in Thread \ {t}
      PROVE  ThreadOK(u, stack'[u], request'[u], raised'[u], trouble'[u], err_msg')
  <2> DEFINE s == stack[u]
             r == request[u]
             x == raised[u]
             b == trouble[u]
  <2>1. ThreadOK(u, s, r, x, b, err_msg)
    BY DEF Inv
  <2>2. err_msg' = err_msg \/ (err_msg'.by # "caller" /\ err_msg'.by # u)
    BY ThreadAssumption
  <2> HIDE DEF s, r, x, b
  <2>3. \A f : OneOK(u, f, r, x, b, err_msg) => OneOK(u, f, r, x, b, err_msg')
    BY <2>2 DEF OneOK, About
  <2>4. \A f, g : TwoOK(u, f, g, r, x, b, err_msg) => TwoOK(u, f, g, r, x, b, err_msg')
    BY <2>2 DEF TwoOK, About
  <2>5. ThreadOK(u, s, r, x, b, err_msg')
    BY <2>1, <2>3, <2>4 DEF ThreadOK
  <2> QED
    BY <2>5 DEF s, r, x, b
<1> QED
  BY <1>1, <1>2 DEF Inv, BufferOK

----------------------------------------------------------------------------
(* The steps.                                                              *)

\* A step of t changes nothing of another thread.
LEMMA Alone ==
    ASSUME Inv, NEW t \in Thread, Call(t) \/ Step(t)
    PROVE  /\ DOMAIN stack' = Thread /\ DOMAIN request' = Thread /\ DOMAIN raised' = Thread
           /\ trouble' \in [Thread -> BOOLEAN]
           /\ \A u \in Thread \ {t} :
                /\ stack'[u] = stack[u] /\ request'[u] = request[u]
                /\ raised'[u] = raised[u] /\ trouble'[u] = trouble[u]
<1> DEFINE Same(f, g) == DOMAIN g = Thread /\ \A u \in Thread \ {t} : g[u] = f[u]
<1>1. Same(stack, stack')
  BY DEF Inv, Call, Step, FindClass, FindClassFails, FindFallback, FindFallbackFails,
         MakeMessage, MakeMessageFails, FindConstructor, FindConstructorFails,
         Create, CreateFails, Throw, ThrowFails, ThrowNew, ThrowNewFails, Exit1,
         ReturnInside, Return, Goto, throwError
<1>2. Same(request, request')
  BY DEF Inv, Call, Step, FindClass, FindClassFails, FindFallback, FindFallbackFails,
         MakeMessage, MakeMessageFails, FindConstructor, FindConstructorFails,
         Create, CreateFails, Throw, ThrowFails, ThrowNew, ThrowNewFails, Exit1,
         ReturnInside, Return
<1>3. Same(raised, raised')
  BY DEF Inv, Call, Step, FindClass, FindClassFails, FindFallback, FindFallbackFails,
         MakeMessage, MakeMessageFails, FindConstructor, FindConstructorFails,
         Create, CreateFails, Throw, ThrowFails, ThrowNew, ThrowNewFails, Exit1,
         ReturnInside, Return, Refused
<1>4. Same(trouble, trouble') /\ trouble' \in [Thread -> BOOLEAN]
  BY DEF Inv, Call, Step, FindClass, FindClassFails, FindFallback, FindFallbackFails,
         MakeMessage, MakeMessageFails, FindConstructor, FindConstructorFails,
         Create, CreateFails, Throw, ThrowFails, ThrowNew, ThrowNewFails, Exit1,
         ReturnInside, Return, Refused
<1> QED
  BY <1>1, <1>2, <1>3, <1>4

\* A thread in throwNewException is in it once, or in itself once.
LEMMA InCall ==
    ASSUME Inv, NEW t \in Thread, stack[t] # <<>>
    PROVE  /\ request[t] \in Request /\ Top(t) \in Frames
           /\ \/ /\ stack[t] = <<Top(t)>>
                 /\ OneOK(t, Top(t), request[t], raised[t], trouble[t], err_msg)
              \/ \E g \in Frames :
                   /\ stack[t] = <<Top(t), g>>
                   /\ TwoOK(t, Top(t), g, request[t], raised[t], trouble[t], err_msg)
<1>1. ThreadOK(t, stack[t], request[t], raised[t], trouble[t], err_msg)
  BY DEF Inv
<1>2. CASE \E f \in Frames :
             stack[t] = <<f>> /\ OneOK(t, f, request[t], raised[t], trouble[t], err_msg)
  <2>1. PICK f \in Frames :
          stack[t] = <<f>> /\ OneOK(t, f, request[t], raised[t], trouble[t], err_msg)
    BY <1>2
  <2>2. Top(t) = f
    BY <2>1, Stacks DEF Top
  <2> QED
    BY <1>1, <2>1, <2>2 DEF ThreadOK
<1>3. CASE \E f, g \in Frames :
             stack[t] = <<f, g>> /\ TwoOK(t, f, g, request[t], raised[t], trouble[t], err_msg)
  <2>1. PICK f \in Frames, g \in Frames :
          stack[t] = <<f, g>> /\ TwoOK(t, f, g, request[t], raised[t], trouble[t], err_msg)
    BY <1>3
  <2>2. Top(t) = f
    BY <2>1, Stacks DEF Top
  <2> QED
    BY <1>1, <2>1, <2>2 DEF ThreadOK
<1> QED
  BY <1>1, <1>2, <1>3 DEF ThreadOK

\* In the places that the inner call never reaches, t is in it once and throws
\* what it was asked for.
LEMMA AtOuter ==
    ASSUME Inv, NEW t \in Thread, NEW place, At(t, place),
           place \in {"find fallback", "message", "constructor", "create", "throw", "exit1"}
    PROVE  /\ request[t] \in Request /\ Top(t) \in Frames /\ Top(t).at = place
           /\ stack[t] = <<Top(t)>>
           /\ OneOK(t, Top(t), request[t], raised[t], trouble[t], err_msg)
           /\ Own(Top(t), request[t]) /\ Top(t).message # ErrMsg
<1>1. stack[t] # <<>> /\ Top(t).at = place
  BY DEF At
<1>2. \A g : ~TwoOK(t, Top(t), g, request[t], raised[t], trouble[t], err_msg)
  BY <1>1 DEF TwoOK, InnerOK
<1>3. /\ request[t] \in Request /\ Top(t) \in Frames /\ stack[t] = <<Top(t)>>
      /\ OneOK(t, Top(t), request[t], raised[t], trouble[t], err_msg)
  BY <1>1, <1>2, InCall
<1>4. Own(Top(t), request[t])
  BY <1>1, <1>3 DEF OneOK, OuterOK
<1> QED
  <2>1. request[t].message # ErrMsg
    BY <1>3, Requests
  <2>2. Top(t).message # ErrMsg
    BY <1>4, <2>1 DEF Own
  <2> QED
    BY <1>1, <1>3, <1>4, <2>2

\* A refusal leaves an exception pending, which is not the one asked for.
LEMMA Refusal ==
    ASSUME Inv, NEW t \in Thread, Refused(t)
    PROVE  /\ trouble'[t] = TRUE
           /\ raised'[t] # Nothing
           /\ raised'[t] = raised[t] \/ raised'[t] = OfJVM
           /\ raised'[t].class \in Class \union {"JVM", ""}
<1>1. raised'[t] = IF raised[t] = Nothing THEN OfJVM ELSE raised[t]
  BY DEF Refused, Inv
<1>2. trouble'[t] = TRUE
  BY DEF Refused, Inv
<1>3. raised[t].class \in Class \union {"JVM", ""}
  BY DEF Inv, ThreadOK
<1> QED
  BY <1>1, <1>2, <1>3, OthersAre

\* An exception is in order for a request.
RaisedOK(t, x, r) ==
    /\ x.class \in Class \union {"JVM", ""}
    /\ x.text.by = t => x.text.about = r.message /\ x.text.class = r.class

LEMMA RaisedBefore ==
    ASSUME Inv, NEW t \in Thread
    PROVE  RaisedOK(t, raised[t], request[t])
  BY DEF Inv, ThreadOK, RaisedOK

LEMMA RaisedRefused ==
    ASSUME Inv, NEW t \in Thread, Refused(t)
    PROVE  RaisedOK(t, raised'[t], request[t])
<1>1. RaisedOK(t, OfJVM, request[t])
  BY OthersAre, ThreadAssumption DEF RaisedOK
<1> QED
  BY <1>1, Refusal, RaisedBefore

LEMMA NotWished ==
    ASSUME Inv, NEW t \in Thread, NEW r \in Request, raised[t] # Wish(r), Refused(t)
    PROVE  raised'[t] # Wish(r)
<1>1. Wish(r) # OfJVM
  BY Requests
<1> QED
  BY <1>1, Refusal

LEMMA OwnMessage ==
    ASSUME NEW r \in Request, NEW f, Own(f, r)
    PROVE  f.message # ErrMsg
<1>1. r.message # ErrMsg
  BY Requests
<1> QED
  BY <1>1 DEF Own

\* The two shapes of a state after a step of t.
LEMMA StepToOne ==
    ASSUME Inv, NEW t \in Thread, Call(t) \/ Step(t),
           err_msg' = err_msg \/ (err_msg'.by = t /\ BufferOK(err_msg')),
           request'[t] \in Request, RaisedOK(t, raised'[t], request'[t]),
           NEW f \in Frames, stack'[t] = <<f>>,
           OneOK(t, f, request'[t], raised'[t], trouble'[t], err_msg')
    PROVE  Inv'
<1>1. ThreadOK(t, stack'[t], request'[t], raised'[t], trouble'[t], err_msg')
  BY DEF ThreadOK, RaisedOK
<1> QED
  BY <1>1, Alone, MoveKeeps

LEMMA StepToTwo ==
    ASSUME Inv, NEW t \in Thread, Call(t) \/ Step(t),
           err_msg' = err_msg \/ (err_msg'.by = t /\ BufferOK(err_msg')),
           request'[t] \in Request, RaisedOK(t, raised'[t], request'[t]),
           NEW f \in Frames, NEW g \in Frames, stack'[t] = <<f, g>>,
           TwoOK(t, f, g, request'[t], raised'[t], trouble'[t], err_msg')
    PROVE  Inv'
<1>1. ThreadOK(t, stack'[t], request'[t], raised'[t], trouble'[t], err_msg')
  BY DEF ThreadOK, RaisedOK
<1> QED
  BY <1>1, Alone, MoveKeeps

\* Goto moves the innermost call.
LEMMA GotoMoves ==
    ASSUME Inv, NEW t \in Thread, NEW place, Goto(t, place)
    PROVE  /\ \A f : stack[t] = <<f>> => stack'[t] = <<[f EXCEPT !.at = place]>>
           /\ \A f, g : stack[t] = <<f, g>> => stack'[t] = <<[f EXCEPT !.at = place], g>>
<1>1. stack'[t] = <<[stack[t][1] EXCEPT !.at = place]>> \o Tail(stack[t])
  BY DEF Goto, Inv
<1>2. ASSUME NEW f, stack[t] = <<f>> PROVE stack'[t] = <<[f EXCEPT !.at = place]>>
  BY <1>1, <1>2, Stacks
<1>3. ASSUME NEW f, NEW g, stack[t] = <<f, g>>
      PROVE  stack'[t] = <<[f EXCEPT !.at = place], g>>
  BY <1>1, <1>3, Stacks
<1> QED
  BY <1>2, <1>3

\* The fields of a call that has moved.
LEMMA Moved ==
    ASSUME NEW f \in Frames, NEW place \in Place
    PROVE  LET h == [f EXCEPT !.at = place]
           IN  /\ h \in Frames /\ h.at = place
               /\ h.class = f.class /\ h.foreign = f.foreign
               /\ h.message = f.message /\ h.error = f.error /\ h.errMsg = f.errMsg
  BY DEF Frames

\* Steps that change the place of the outer call only.
LEMMA OuterMoves ==
    ASSUME Inv, NEW t \in Thread, Step(t), NEW from,
           At(t, from),
           from \in {"find fallback", "message", "constructor", "create", "throw", "exit1"},
           NEW place \in Place, Goto(t, place), UNCHANGED <<request, err_msg>>,
           RaisedOK(t, raised'[t], request[t]),
           LET h == [Top(t) EXCEPT !.at = place]
           IN  OneOK(t, h, request[t], raised'[t], trouble'[t], err_msg)
    PROVE  Inv'
<1> DEFINE f == Top(t)
           h == [f EXCEPT !.at = place]
<1>1. request[t] \in Request /\ f \in Frames /\ stack[t] = <<f>>
  BY AtOuter
<1>2. h \in Frames
  BY <1>1, Moved
<1>3. stack'[t] = <<h>>
  BY <1>1, GotoMoves
<1>4. request' = request /\ err_msg' = err_msg
  OBVIOUS
<1>5. OneOK(t, h, request'[t], raised'[t], trouble'[t], err_msg')
  BY <1>4
<1> HIDE DEF f, h
<1>6. request'[t] \in Request /\ RaisedOK(t, raised'[t], request'[t])
  BY <1>1, <1>4
<1> QED
  BY <1>2, <1>3, <1>4, <1>5, <1>6, StepToOne

LEMMA CallKeeps ==
    ASSUME Inv, NEW t \in Thread, Call(t)
    PROVE  Inv'
<1>1. PICK r \in Request :
        /\ request' = [request EXCEPT ![t] = r]
        /\ stack' = [stack EXCEPT ![t] =
                       <<Frame("find class", r.class, r.foreign, r.message, r.error)>>]
  BY DEF Call
<1> DEFINE f == Frame("find class", r.class, r.foreign, r.message, r.error)
<1>2. /\ f \in Frames /\ f.at = "find class" /\ ~f.errMsg /\ Own(f, r)
      /\ f.message # ErrMsg
  BY Requests DEF Frame, Frames, Place, Own
<1>3. request'[t] = r /\ stack'[t] = <<f>>
  BY <1>1 DEF Inv
<1>4. raised[t] = Nothing /\ ~trouble[t]
  <2>1. stack[t] = <<>>
    BY DEF Call
  <2>2. ThreadOK(t, <<>>, request[t], raised[t], trouble[t], err_msg)
    BY <2>1 DEF Inv
  <2>3. \A a, c : <<>> # <<a>> /\ <<>> # <<a, c>>
    BY Stacks
  <2> QED
    BY <2>2, <2>3 DEF ThreadOK
<1>5. /\ raised'[t] \in {Nothing, OfJVM}
      /\ RaisedOK(t, raised'[t], r)
  <2>1. raised'[t] \in {Nothing, OfJVM}
    BY <1>4, Refusal DEF Call
  <2>2. RaisedOK(t, Nothing, r) /\ RaisedOK(t, OfJVM, r)
    BY OthersAre, ThreadAssumption DEF RaisedOK
  <2> QED
    BY <2>1, <2>2
<1>6. raised'[t] # Wish(r)
  BY <1>5, Requests
<1> HIDE DEF f
<1>7. OneOK(t, f, r, raised'[t], trouble'[t], err_msg')
  BY <1>2, <1>6 DEF OneOK, OuterOK, After
<1>8. err_msg' = err_msg
  BY DEF Call
<1>9. /\ request'[t] \in Request /\ RaisedOK(t, raised'[t], request'[t])
      /\ OneOK(t, f, request'[t], raised'[t], trouble'[t], err_msg')
  BY <1>3, <1>5, <1>7, <1>8
<1> QED
  BY <1>2, <1>3, <1>8, <1>9, StepToOne

LEMMA FindClassKeeps ==
    ASSUME Inv, NEW t \in Thread, FindClass(t) \/ FindClassFails(t)
    PROVE  Inv'
<1> DEFINE f == Top(t)
           r == request[t]
<1>1. /\ stack[t] # <<>> /\ f.at = "find class" /\ Step(t)
      /\ UNCHANGED <<request, err_msg>>
  BY DEF FindClass, FindClassFails, At, Step
<1>2. r \in Request /\ f \in Frames
  BY <1>1, InCall
<1>3. PICK place \in {"throw new", "message", "find fallback", "return"} :
        /\ Goto(t, place)
        /\ \/ place = "throw new" /\ f.error = 0 /\ UNCHANGED <<raised, trouble>>
           \/ place = "message" /\ f.error # 0 /\ UNCHANGED <<raised, trouble>>
           \/ place = "return" /\ Refused(t)
           \/ /\ place = "find fallback" /\ Refused(t)
              /\ f.class = LangException => f.foreign
  BY DEF FindClass, FindClassFails
<1> DEFINE h == [f EXCEPT !.at = place]
<1>4. /\ h \in Frames /\ h.at = place /\ h.class = f.class /\ h.foreign = f.foreign
      /\ h.message = f.message /\ h.error = f.error /\ h.errMsg = f.errMsg
  <2>1. place \in Place
    BY DEF Place
  <2> QED
    BY <1>2, <2>1, Moved
<1>5. RaisedOK(t, raised'[t], r)
  BY <1>3, RaisedBefore, RaisedRefused
<1>6. /\ place \in {"throw new", "message"} => raised'[t] = raised[t] /\ trouble'[t] = trouble[t]
      /\ place \in {"return", "find fallback"} =>
           /\ trouble'[t] = TRUE /\ raised'[t] # Nothing
           /\ raised'[t] = raised[t] \/ raised'[t] = OfJVM
  BY <1>3, Refusal
<1> HIDE DEF h
<1>9. /\ Step(t) /\ request'[t] \in Request /\ err_msg' = err_msg
      /\ RaisedOK(t, raised'[t], request'[t])
  BY <1>1, <1>2, <1>5
<1>7. CASE /\ stack[t] = <<f>>
           /\ OneOK(t, f, r, raised[t], trouble[t], err_msg)
  <2>1. stack'[t] = <<h>>
    BY <1>3, <1>7, GotoMoves DEF h
  <2>2. Own(f, r) /\ ~f.errMsg /\ raised[t] # Wish(r)
    BY <1>1, <1>7 DEF OneOK, OuterOK, Before
  <2>3. Own(h, r) /\ ~h.errMsg /\ h.message # ErrMsg
    <3>1. Own(h, r)
      BY <1>4, <2>2 DEF Own
    <3> QED
      BY <1>2, <1>4, <2>2, <3>1, OwnMessage
  <2>4. raised'[t] # Wish(r)
    BY <1>2, <1>3, <2>2, NotWished
  <2>5. place = "throw new" => r.error = 0
    BY <1>3, <2>2 DEF Own
  <2>6. OneOK(t, h, r, raised'[t], trouble'[t], err_msg)
    BY <1>3, <1>4, <1>6, <2>3, <2>4, <2>5 DEF OneOK, OuterOK, After
  <2>7. OneOK(t, h, request'[t], raised'[t], trouble'[t], err_msg')
    BY <1>1, <2>6
  <2> QED
    BY <1>4, <1>9, <2>1, <2>7, StepToOne
<1>8. ASSUME NEW g \in Frames, stack[t] = <<f, g>>,
             TwoOK(t, f, g, r, raised[t], trouble[t], err_msg)
      PROVE  Inv'
  <2>1. stack'[t] = <<h, g>>
    BY <1>3, <1>8, GotoMoves DEF h
  <2>2. f.class = LangException /\ ~f.foreign /\ f.error = 0
    BY <1>8 DEF TwoOK, InnerOK
  <2>3. place \in {"throw new", "return"}
    BY <1>3, <2>2
  <2>4. raised'[t] # Wish(r) /\ trouble'[t]
    <3>1. raised[t] # Wish(r) /\ trouble[t]
      BY <1>8 DEF TwoOK
    <3> QED
      BY <1>2, <1>3, <1>6, <2>3, <3>1, NotWished
  <2>5. InnerOK(h)
    BY <1>4, <1>8, <2>3 DEF TwoOK, InnerOK
  <2>6. TwoOK(t, h, g, r, raised'[t], trouble'[t], err_msg)
    BY <1>4, <1>6, <1>8, <2>3, <2>4, <2>5 DEF TwoOK
  <2>7. TwoOK(t, h, g, request'[t], raised'[t], trouble'[t], err_msg')
    BY <1>1, <2>6
  <2> QED
    BY <1>4, <1>8, <1>9, <2>1, <2>7, StepToTwo
<1> QED
  BY <1>1, <1>7, <1>8, InCall

\* What is formatted fits into err_msg: texts have at most 767 characters.
LEMMA FormatFits ==
    ASSUME NEW t \in Thread, NEW r \in Request, Own(Top(t), r),
           NEW complaint \in {"class", "message", "initialize", "create", "throw"},
           Format(t, complaint)
    PROVE  /\ BufferOK(err_msg')
           /\ err_msg'.by = t /\ About(t, err_msg', r)
<1> DEFINE f == Top(t)
           m == f.message
<1>1. m = r.message /\ f.class = r.class
  BY DEF Own
<1>2. m \in 0..767 /\ m \in Message /\ m # ErrMsg /\ f.class \in Class
  BY <1>1, Requests
<1>3. Text(f) = Plain(m)
  BY <1>2 DEF Text
<1>4. Text(f).about = m /\ Text(f).size = m
  BY <1>3, PlainIs
<1> DEFINE size == Overhead[complaint] + NameLength(f.class) + m + CodeLength(complaint)
<1>5. /\ err_msg'.by = t /\ err_msg'.class = f.class /\ err_msg'.about = m
      /\ err_msg'.itself = FALSE /\ err_msg'.size = size
  BY <1>2, <1>4 DEF Format
<1>6. size \in 0..1023
  <2>1. Overhead[complaint] \in 62..84
    BY DEF Overhead
  <2>2. NameLength(f.class) \in {19, 46} /\ CodeLength(complaint) \in {0, 11}
    BY DEF NameLength, CodeLength
  <2> DEFINE a == Overhead[complaint]
             b == NameLength(f.class)
             c == CodeLength(complaint)
  <2>3. a \in 62..84 /\ b \in {19, 46} /\ c \in {0, 11} /\ m \in 0..767
    BY <1>2, <2>1, <2>2
  <2> HIDE DEF a, b, c, m
  <2>4. a + b + m + c \in 0..1023
    BY <2>3
  <2> QED
    BY <2>4 DEF a, b, c
<1> HIDE DEF m, size
<1>7. BufferOK(err_msg')
  BY <1>2, <1>5, <1>6 DEF BufferOK, ErrMsgSize
<1>8. About(t, err_msg', r)
  BY <1>1, <1>5 DEF About
<1> QED
  BY <1>5, <1>7, <1>8

\* A call that complains calls itself, with the complaint.
LEMMA ComplainKeeps ==
    ASSUME Inv, NEW t \in Thread, Step(t), NEW from, At(t, from),
           from \in {"message", "constructor", "create", "throw"},
           NEW complaint \in {"class", "message", "initialize", "create", "throw"},
           NEW then \in After, then = "return" => from = "message",
           Format(t, complaint), throwError(t, then), request' = request,
           trouble'[t] = TRUE, raised'[t] = raised[t] \/ Refused(t)
    PROVE  Inv'
<1> DEFINE f == Top(t)
           r == request[t]
           h == Frame("find class", LangException, FALSE, ErrMsg, 0)
           g == [f EXCEPT !.at = then]
<1>1. /\ r \in Request /\ f \in Frames /\ f.at = from /\ stack[t] = <<f>>
      /\ OneOK(t, f, r, raised[t], trouble[t], err_msg)
      /\ Own(f, r) /\ f.message # ErrMsg
  BY AtOuter
<1>2. then \in Place
  BY DEF Place, After
<1>3. /\ g \in Frames /\ g.at = then /\ g.errMsg = f.errMsg
      /\ g.class = f.class /\ g.foreign = f.foreign
      /\ g.message = f.message /\ g.error = f.error
  BY <1>1, <1>2, Moved
<1>4. /\ h \in Frames /\ h.at = "find class" /\ h.class = LangException /\ ~h.foreign
      /\ h.message = ErrMsg /\ h.error = 0 /\ ~h.errMsg
  BY DEF Frame, Frames, Place, Class
<1>5. stack'[t] = <<h, g>>
  <2>1. stack'[t] = <<h, [stack[t][1] EXCEPT !.at = then]>> \o Tail(stack[t])
    BY DEF throwError, Inv
  <2>2. stack[t][1] = f /\ Tail(stack[t]) = <<>>
    BY <1>1, Stacks
  <2>3. stack'[t] = <<h, g>> \o <<>>
    BY <2>1, <2>2
  <2> HIDE DEF g, h
  <2> QED
    BY <2>3, Stacks
<1>6. BufferOK(err_msg') /\ err_msg'.by = t /\ About(t, err_msg', r)
  BY <1>1, FormatFits
<1>7. RaisedOK(t, raised'[t], r) /\ raised'[t] # Wish(r)
  <2>1. raised[t] # Wish(r)
    BY <1>1 DEF OneOK, Before
  <2> QED
    BY <1>1, <2>1, NotWished, RaisedBefore, RaisedRefused
<1> HIDE DEF g, h
<1>8. OuterOK(g, r) /\ Own(g, r)
  BY <1>1, <1>3 DEF OneOK, OuterOK, Own, After
<1>9. InnerOK(h)
  BY <1>4 DEF InnerOK
<1>10. TwoOK(t, h, g, r, raised'[t], trouble'[t], err_msg')
  <2>1. err_msg'.by # "caller"
    BY <1>6, ThreadAssumption
  <2> QED
    BY <1>3, <1>4, <1>6, <1>7, <1>8, <1>9, <2>1 DEF TwoOK
<1>11. /\ request'[t] \in Request /\ RaisedOK(t, raised'[t], request'[t])
       /\ TwoOK(t, h, g, request'[t], raised'[t], trouble'[t], err_msg')
  BY <1>1, <1>7, <1>10
<1> QED
  BY <1>3, <1>4, <1>5, <1>6, <1>11, StepToTwo

LEMMA ComplaintsKeep ==
    ASSUME Inv, NEW t \in Thread,
           \/ MakeMessageFails(t) \/ FindConstructorFails(t)
           \/ CreateFails(t) \/ ThrowFails(t)
    PROVE  Inv'
<1>0. "exit1" \in After /\ "return" \in After
  BY DEF After
<1>1. Step(t)
  BY DEF Step
<1>2. ASSUME Refused(t) PROVE trouble'[t] = TRUE
  BY <1>2, Refusal
<1>3. CASE MakeMessageFails(t)
  <2>1. /\ At(t, "message") /\ Format(t, "message") /\ throwError(t, "return")
        /\ Refused(t) /\ request' = request
    BY <1>3 DEF MakeMessageFails
  <2> QED
    BY <1>1, <1>2, <2>1, <1>0, ComplainKeeps
<1>4. CASE FindConstructorFails(t)
  <2>1. /\ At(t, "constructor") /\ Format(t, "initialize") /\ throwError(t, "exit1")
        /\ Refused(t) /\ request' = request
    BY <1>4 DEF FindConstructorFails
  <2> QED
    BY <1>1, <1>2, <2>1, <1>0, ComplainKeeps
<1>5. CASE CreateFails(t)
  <2>1. /\ At(t, "create") /\ Format(t, "create") /\ throwError(t, "exit1")
        /\ Refused(t) /\ request' = request
    BY <1>5 DEF CreateFails
  <2> QED
    BY <1>1, <1>2, <2>1, <1>0, ComplainKeeps
<1>6. CASE ThrowFails(t)
  <2>1. /\ At(t, "throw") /\ Format(t, "throw") /\ throwError(t, "exit1")
        /\ raised' = raised /\ trouble'[t] = TRUE /\ request' = request
    BY <1>6 DEF ThrowFails, Inv
  <2> QED
    BY <1>1, <2>1, <1>0, ComplainKeeps
<1> QED
  BY <1>3, <1>4, <1>5, <1>6

\* The steps on the way of an outer call to its throw.
LEMMA OuterKeeps ==
    ASSUME Inv, NEW t \in Thread, FindConstructor(t) \/ Create(t) \/ FindFallbackFails(t)
    PROVE  Inv'
<1> DEFINE f == Top(t)
           r == request[t]
<1>1. Step(t) /\ UNCHANGED <<request, err_msg>>
  BY DEF Step, FindConstructor, Create, FindFallbackFails
<1>2. PICK from \in {"find fallback", "constructor", "create"},
           place \in {"return", "create", "throw"} :
        /\ At(t, from) /\ Goto(t, place)
        /\ \/ from = "constructor" /\ place = "create" /\ UNCHANGED <<raised, trouble>>
           \/ from = "create" /\ place = "throw" /\ UNCHANGED <<raised, trouble>>
           \/ from = "find fallback" /\ place = "return" /\ Refused(t)
  BY DEF FindConstructor, Create, FindFallbackFails
<1>3. /\ r \in Request /\ f \in Frames /\ f.at = from
      /\ OneOK(t, f, r, raised[t], trouble[t], err_msg)
      /\ Own(f, r) /\ f.message # ErrMsg
  BY <1>2, AtOuter
<1>4. place \in Place
  BY DEF Place
<1> DEFINE h == [f EXCEPT !.at = place]
<1>5. /\ h \in Frames /\ h.at = place /\ h.class = f.class /\ h.foreign = f.foreign
      /\ h.message = f.message /\ h.error = f.error /\ h.errMsg = f.errMsg
  BY <1>3, <1>4, Moved
<1>6. RaisedOK(t, raised'[t], r)
  BY <1>2, RaisedBefore, RaisedRefused
<1>7. raised[t] # Wish(r)
  BY <1>2, <1>3 DEF OneOK, Before
<1>8. /\ raised'[t] # Wish(r)
      /\ place = "return" => raised'[t] # Nothing /\ trouble'[t] = TRUE
  BY <1>2, <1>3, <1>7, NotWished, Refusal
<1> HIDE DEF h
<1>9. OneOK(t, h, r, raised'[t], trouble'[t], err_msg)
  <2>1. OuterOK(h, r)
    BY <1>2, <1>3, <1>5 DEF OneOK, OuterOK, Own
  <2> QED
    BY <1>2, <1>3, <1>5, <1>8, <2>1 DEF OneOK, Before, After
<1> QED
  BY <1>1, <1>2, <1>4, <1>6, <1>9, OuterMoves DEF h

\* The class is not there: the complaint about that becomes the message.
LEMMA FallbackKeeps ==
    ASSUME Inv, NEW t \in Thread, FindFallback(t)
    PROVE  Inv'
<1> DEFINE f == Top(t)
           r == request[t]
           h == [f EXCEPT !.at = "throw new", !.class = LangException, !.message = ErrMsg]
<1>1. At(t, "find fallback") /\ Format(t, "class") /\ Step(t)
  BY DEF FindFallback, Step
<1>2. /\ r \in Request /\ f \in Frames /\ f.at = "find fallback" /\ stack[t] = <<f>>
      /\ OneOK(t, f, r, raised[t], trouble[t], err_msg)
      /\ Own(f, r) /\ f.message # ErrMsg
  BY <1>1, AtOuter
<1>3. request' = request /\ raised' = raised /\ trouble' = trouble
  BY DEF FindFallback
<1>4. /\ h \in Frames /\ h.at = "throw new" /\ h.class = LangException
      /\ h.message = ErrMsg /\ h.errMsg = f.errMsg
  BY <1>2 DEF Frames, Place, Class
<1>5. stack'[t] = <<h>>
  <2>1. stack'[t] = <<[stack[t][1] EXCEPT !.at = "throw new", !.class = LangException,
                                          !.message = ErrMsg]>> \o Tail(stack[t])
    BY DEF FindFallback, Inv
  <2>2. stack[t][1] = f /\ Tail(stack[t]) = <<>>
    BY <1>2, Stacks
  <2>3. stack'[t] = <<h>> \o <<>>
    BY <2>1, <2>2
  <2> HIDE DEF h
  <2> QED
    BY <2>3, Stacks
<1>6. BufferOK(err_msg') /\ err_msg'.by = t /\ About(t, err_msg', r)
  BY <1>1, <1>2, FormatFits
<1> HIDE DEF h
<1>7. ~f.errMsg /\ trouble[t] /\ raised[t] # Wish(r)
  BY <1>2 DEF OneOK, OuterOK, Before
<1>8. OuterOK(h, r)
  BY <1>4, <1>7 DEF OuterOK
<1>9. err_msg'.by # "caller"
  BY <1>6, ThreadAssumption
<1>10. OneOK(t, h, r, raised[t], trouble[t], err_msg')
  BY <1>4, <1>6, <1>7, <1>8, <1>9 DEF OneOK, After
<1>11. /\ request'[t] \in Request /\ RaisedOK(t, raised'[t], request'[t])
       /\ OneOK(t, h, request'[t], raised'[t], trouble'[t], err_msg')
  BY <1>2, <1>3, <1>10, RaisedBefore
<1> QED
  BY <1>1, <1>4, <1>5, <1>6, <1>11, StepToOne

\* The string of the message is made, and released.
LEMMA MessageKeeps ==
    ASSUME Inv, NEW t \in Thread, MakeMessage(t) \/ Exit1(t)
    PROVE  Inv'
<1>1. PICK from \in {"message", "exit1"}, place \in {"constructor", "return"}, made \in BOOLEAN :
        /\ At(t, from)
        /\ from = "message" <=> place = "constructor"
        /\ place = "constructor" <=> made
        /\ stack' = [stack EXCEPT ![t] =
                       <<[@[1] EXCEPT !.at = place, !.errMsg = made]>> \o Tail(@)]
  BY DEF MakeMessage, Exit1
<1> DEFINE f == Top(t)
           r == request[t]
           h == [f EXCEPT !.at = place, !.errMsg = made]
<1>2. Step(t) /\ request' = request /\ raised' = raised /\ trouble' = trouble
      /\ err_msg' = err_msg
  BY DEF MakeMessage, Exit1, Step
<1>3. /\ r \in Request /\ f \in Frames /\ f.at = from /\ stack[t] = <<f>>
      /\ OneOK(t, f, r, raised[t], trouble[t], err_msg)
      /\ Own(f, r) /\ f.message # ErrMsg
  BY <1>1, AtOuter
<1>4. /\ h \in Frames /\ h.at = place /\ h.class = f.class /\ h.foreign = f.foreign
      /\ h.message = f.message /\ h.error = f.error /\ h.errMsg = made
  BY <1>3 DEF Frames, Place
<1>5. stack'[t] = <<h>>
  <2>1. stack'[t] = <<[stack[t][1] EXCEPT !.at = place, !.errMsg = made]>> \o Tail(stack[t])
    BY <1>1 DEF Inv
  <2>2. stack[t][1] = f /\ Tail(stack[t]) = <<>>
    BY <1>3, Stacks
  <2>3. stack'[t] = <<h>> \o <<>>
    BY <2>1, <2>2
  <2> HIDE DEF h
  <2> QED
    BY <2>3, Stacks
<1> HIDE DEF h
<1>6. OuterOK(h, r)
  BY <1>1, <1>3, <1>4 DEF OneOK, OuterOK, Own
<1>7. OneOK(t, h, r, raised[t], trouble[t], err_msg)
  BY <1>1, <1>3, <1>4, <1>6 DEF OneOK, Before, After
<1>8. /\ request'[t] \in Request /\ RaisedOK(t, raised'[t], request'[t])
      /\ OneOK(t, h, request'[t], raised'[t], trouble'[t], err_msg')
  BY <1>2, <1>3, <1>7, RaisedBefore
<1> QED
  BY <1>2, <1>4, <1>5, <1>8, StepToOne

\* What is thrown: what was asked for, or a complaint of this call.
LEMMA WishThrown ==
    ASSUME NEW t \in Thread, NEW r \in Request, NEW f, Own(f, r)
    PROVE  /\ Exception(f.class, Text(f), f.error) = Wish(r)
           /\ RaisedOK(t, Wish(r), r)
<1>1. Text(f) = Plain(r.message)
  BY OwnMessage DEF Own, Text
<1>2. Exception(f.class, Text(f), f.error) = Wish(r)
  BY <1>1 DEF Own, Wish
<1>3. RaisedOK(t, Wish(r), r)
  <2>1. Wish(r).class \in Class
    BY Requests
  <2>2. Wish(r).text.by = "caller" /\ t # "caller"
    BY Requests, ThreadAssumption
  <2> QED
    BY <2>1, <2>2 DEF RaisedOK
<1> QED
  BY <1>2, <1>3

LEMMA ComplaintThrown ==
    ASSUME NEW t \in Thread, NEW r \in Request, NEW f,
           f.class = LangException, f.message = ErrMsg,
           err_msg.by # "caller", About(t, err_msg, r),
           NEW x, x = Exception(f.class, Text(f), 0)
    PROVE  /\ x # Wish(r) /\ x # Nothing /\ RaisedOK(t, x, r)
<1>1. x.class = LangException /\ x.text = err_msg
  BY ExceptionIs DEF Text
<1>2. LangException \in Class /\ LangException # ""
  BY DEF Class, LangException
<1>3. x # Nothing
  BY <1>1, <1>2, OthersAre
<1>4. Wish(r).text.by = "caller"
  BY Requests
<1>5. x # Wish(r)
  BY <1>1, <1>4
<1>6. RaisedOK(t, x, r)
  BY <1>1, <1>2 DEF RaisedOK, About
<1> QED
  BY <1>3, <1>5, <1>6

LEMMA ThrowKeeps ==
    ASSUME Inv, NEW t \in Thread, Throw(t)
    PROVE  Inv' /\ raised'[t] = Wish(request[t])
<1> DEFINE f == Top(t)
           r == request[t]
           h == [f EXCEPT !.at = "exit1"]
<1>1. /\ At(t, "throw") /\ Step(t) /\ Goto(t, "exit1")
      /\ UNCHANGED <<request, err_msg>>
  BY DEF Throw, Step
<1>2. /\ r \in Request /\ f \in Frames /\ f.at = "throw"
      /\ OneOK(t, f, r, raised[t], trouble[t], err_msg)
      /\ Own(f, r) /\ f.message # ErrMsg
  BY <1>1, AtOuter
<1>3. raised'[t] = Exception(f.class, Text(f), f.error)
  BY DEF Throw, Inv
<1>4. raised'[t] = Wish(r) /\ RaisedOK(t, raised'[t], r)
  BY <1>2, <1>3, WishThrown
<1>5. "exit1" \in Place
  BY DEF Place
<1>6. /\ h.at = "exit1" /\ h \in Frames /\ h.class = f.class /\ h.foreign = f.foreign
      /\ h.message = f.message /\ h.error = f.error /\ h.errMsg = f.errMsg
  BY <1>2, <1>5, Moved
<1> HIDE DEF h
<1>7. OuterOK(h, r)
  BY <1>2, <1>6 DEF OneOK, OuterOK, Own
<1>8. Wish(r) # Nothing
  BY <1>2, Requests
<1>9. OneOK(t, h, r, raised'[t], trouble'[t], err_msg)
  BY <1>2, <1>4, <1>6, <1>7, <1>8 DEF OneOK, Before
<1> QED
  BY <1>1, <1>4, <1>5, <1>9, OuterMoves DEF h

LEMMA ThrowNewKeeps ==
    ASSUME Inv, NEW t \in Thread, ThrowNew(t) \/ ThrowNewFails(t)
    PROVE  Inv'
<1> DEFINE f == Top(t)
           r == request[t]
           h == [f EXCEPT !.at = "return"]
<1>1. /\ stack[t] # <<>> /\ f.at = "throw new" /\ Step(t) /\ Goto(t, "return")
      /\ request' = request /\ err_msg' = err_msg
  BY DEF ThrowNew, ThrowNewFails, At, Step
<1>2. r \in Request /\ f \in Frames
  BY <1>1, InCall
<1>3. \/ /\ raised'[t] = Exception(f.class, Text(f), 0)
         /\ trouble' = trouble
      \/ Refused(t)
  BY DEF ThrowNew, ThrowNewFails, Inv
<1>4. "return" \in Place
  BY DEF Place
<1>5. /\ h.at = "return" /\ h \in Frames /\ h.class = f.class /\ h.foreign = f.foreign
      /\ h.message = f.message /\ h.error = f.error /\ h.errMsg = f.errMsg
  BY <1>2, <1>4, Moved
<1>6. Wish(r) # Nothing
  BY <1>2, Requests
<1>7. ASSUME Refused(t)
      PROVE  /\ trouble'[t] = TRUE /\ raised'[t] # Nothing /\ RaisedOK(t, raised'[t], r)
             /\ raised[t] # Wish(r) => raised'[t] # Wish(r)
  BY <1>2, <1>7, Refusal, RaisedRefused, NotWished
<1>a. request'[t] \in Request /\ (err_msg' = err_msg)
  BY <1>1, <1>2
<1> HIDE DEF h
<1>8. ASSUME stack[t] = <<f>>, OneOK(t, f, r, raised[t], trouble[t], err_msg)
      PROVE  Inv'
  <2>1. stack'[t] = <<h>>
    BY <1>1, <1>8, GotoMoves DEF h
  <2>2. f.message = ErrMsg => trouble[t]
    BY <1>8 DEF OneOK
  <2>3. OuterOK(h, r)
    BY <1>1, <1>5, <1>8 DEF OneOK, OuterOK, Own
  <2>4. /\ RaisedOK(t, raised'[t], r) /\ raised'[t] # Nothing
        /\ raised'[t] = Wish(r) \/ trouble'[t]
        /\ h.message = ErrMsg => trouble'[t]
    <3>1. CASE Refused(t)
      BY <1>7, <3>1
    <3>2. CASE raised'[t] = Exception(f.class, Text(f), 0) /\ trouble' = trouble
      <4>1. CASE Own(f, r) /\ r.error = 0
        <5>1. f.error = 0 /\ f.message # ErrMsg
          BY <1>2, <4>1, OwnMessage DEF Own
        <5>2. raised'[t] = Wish(r) /\ RaisedOK(t, Wish(r), r)
          BY <1>2, <3>2, <4>1, <5>1, WishThrown
        <5> QED
          BY <1>5, <1>6, <5>1, <5>2
      <4>2. CASE f.class = LangException /\ f.message = ErrMsg
        <5>1. err_msg.by # "caller" /\ About(t, err_msg, r)
          BY <1>1, <1>8, <4>2 DEF OneOK
        <5>2. raised'[t] # Nothing /\ RaisedOK(t, raised'[t], r)
          BY <1>2, <3>2, <4>2, <5>1, ComplaintThrown
        <5> QED
          BY <2>2, <3>2, <4>2, <5>2
      <4> QED
        BY <1>1, <1>8, <4>1, <4>2 DEF OneOK, OuterOK
    <3> QED
      BY <1>3, <3>1, <3>2
  <2>5. OneOK(t, h, r, raised'[t], trouble'[t], err_msg)
    BY <1>5, <2>3, <2>4 DEF OneOK, Before
  <2>6. /\ RaisedOK(t, raised'[t], request'[t])
        /\ OneOK(t, h, request'[t], raised'[t], trouble'[t], err_msg')
    BY <1>1, <2>4, <2>5
  <2> QED
    BY <1>1, <1>5, <1>a, <2>1, <2>6, StepToOne
<1>9. ASSUME NEW g \in Frames, stack[t] = <<f, g>>,
             TwoOK(t, f, g, r, raised[t], trouble[t], err_msg)
      PROVE  Inv'
  <2>1. stack'[t] = <<h, g>>
    <3>1. \A a, c : stack[t] = <<a, c>> => stack'[t] = <<[a EXCEPT !.at = "return"], c>>
      BY <1>1, GotoMoves
    <3>2. stack'[t] = <<[f EXCEPT !.at = "return"], g>>
      <4> HIDE DEF f
      <4> QED
        BY <1>9, <3>1
    <3> QED
      BY <3>2 DEF h
  <2>2. /\ raised[t] # Wish(r) /\ trouble[t]
        /\ f.class = LangException /\ f.message = ErrMsg
        /\ err_msg.by # "caller" /\ About(t, err_msg, r)
    BY <1>9 DEF TwoOK, InnerOK
  <2>3. /\ RaisedOK(t, raised'[t], r) /\ raised'[t] # Nothing /\ raised'[t] # Wish(r)
        /\ trouble'[t]
    <3>1. CASE Refused(t)
      BY <1>7, <2>2, <3>1
    <3>2. CASE raised'[t] = Exception(f.class, Text(f), 0) /\ trouble' = trouble
      BY <1>2, <2>2, <3>2, ComplaintThrown
    <3> QED
      BY <1>3, <3>1, <3>2
  <2>4. InnerOK(h)
    BY <1>5, <1>9 DEF TwoOK, InnerOK
  <2>5. TwoOK(t, h, g, r, raised'[t], trouble'[t], err_msg)
    BY <1>5, <1>9, <2>3, <2>4 DEF TwoOK
  <2>6. /\ RaisedOK(t, raised'[t], request'[t])
        /\ TwoOK(t, h, g, request'[t], raised'[t], trouble'[t], err_msg')
    BY <1>1, <2>3, <2>5
  <2> QED
    BY <1>1, <1>5, <1>9, <1>a, <2>1, <2>6, StepToTwo
<1> QED
  BY <1>1, <1>8, <1>9, InCall

\* The inner call returns: t is in throwNewException once.
LEMMA ReturnInsideKeeps ==
    ASSUME Inv, NEW t \in Thread, ReturnInside(t)
    PROVE  Inv'
<1> DEFINE f == Top(t)
           r == request[t]
<1>1. /\ stack[t] # <<>> /\ f.at = "return" /\ Tail(stack[t]) # <<>> /\ Step(t)
      /\ request' = request /\ raised' = raised /\ trouble' = trouble
      /\ err_msg' = err_msg
  BY DEF ReturnInside, At, Step
<1>2. r \in Request /\ stack[t] # <<f>>
  BY <1>1, InCall, Stacks
<1>3. PICK g \in Frames :
        stack[t] = <<f, g>> /\ TwoOK(t, f, g, r, raised[t], trouble[t], err_msg)
  BY <1>1, <1>2, InCall
<1>4. stack'[t] = <<g>>
  <2>1. stack'[t] = Tail(stack[t])
    BY DEF ReturnInside, Inv
  <2> QED
    BY <1>3, <2>1, Stacks
<1>5. OneOK(t, g, r, raised[t], trouble[t], err_msg)
  <2>1. g.message # ErrMsg
    BY <1>2, <1>3, OwnMessage DEF TwoOK
  <2> QED
    BY <1>1, <1>3, <2>1 DEF TwoOK, OneOK, Before, After
<1>6. /\ request'[t] \in Request /\ RaisedOK(t, raised'[t], request'[t])
      /\ OneOK(t, g, request'[t], raised'[t], trouble'[t], err_msg')
  BY <1>1, <1>2, <1>5, RaisedBefore
<1> QED
  BY <1>1, <1>4, <1>6, StepToOne

LEMMA ReturnKeeps ==
    ASSUME Inv, NEW t \in Thread, Return(t)
    PROVE  Inv'
<1>1. /\ stack'[t] = <<>> /\ request'[t] = NoRequest /\ raised'[t] = Nothing
      /\ trouble'[t] = FALSE
  BY DEF Return, Inv
<1>2. err_msg' = err_msg /\ Step(t)
  BY DEF Return, Step
<1>3. ThreadOK(t, stack'[t], request'[t], raised'[t], trouble'[t], err_msg')
  BY <1>1, OthersAre, ThreadAssumption DEF ThreadOK
<1> QED
  BY <1>2, <1>3, Alone, MoveKeeps

\* The native is answered: something is pending when its call returns.
LEMMA ReturnsRaised ==
    ASSUME Inv, NEW t \in Thread, At(t, "return"), Tail(stack[t]) = <<>>
    PROVE  /\ raised[t] # Nothing
           /\ raised[t] = Wish(request[t]) \/ trouble[t]
<1> DEFINE f == Top(t)
<1>1. stack[t] # <<>> /\ f.at = "return" /\ Tail(stack[t]) = <<>>
  BY DEF At
<1>2. ASSUME NEW g, stack[t] = <<f, g>> PROVE FALSE
  <2>1. \A a, c : Tail(<<a, c>>) = <<c>> /\ <<c>> # <<>>
    BY Stacks
  <2> HIDE DEF f
  <2> QED
    BY <1>1, <1>2, <2>1
<1>3. OneOK(t, f, request[t], raised[t], trouble[t], err_msg)
  BY <1>1, <1>2, InCall
<1> QED
  BY <1>1, <1>3 DEF OneOK, After

LEMMA ReturnRaised ==
    ASSUME Inv, NEW t \in Thread, Return(t)
    PROVE  /\ raised[t] # Nothing
           /\ raised[t] = Wish(request[t]) \/ trouble[t]
  BY ReturnsRaised DEF Return

LEMMA InvStep ==
    Inv /\ [Next]_vars => Inv'
<1> SUFFICES ASSUME Inv, [Next]_vars PROVE Inv'
  OBVIOUS
<1>1. CASE UNCHANGED vars
  BY <1>1 DEF vars, Inv
<1>2. ASSUME NEW t \in Thread, Call(t) \/ Step(t) PROVE Inv'
  <2>1. CASE Call(t)
    BY <2>1, CallKeeps
  <2>2. CASE Step(t)
    BY <2>2, FindClassKeeps, FallbackKeeps, OuterKeeps, MessageKeeps, ComplaintsKeep,
       ThrowKeeps, ThrowNewKeeps, ReturnInsideKeeps, ReturnKeeps DEF Step
  <2> QED
    BY <1>2, <2>1, <2>2
<1> QED
  BY <1>1, <1>2 DEF Next

LEMMA InvAlways ==
    Spec => []Inv
  BY InvInit, InvStep, PTL DEF Spec

----------------------------------------------------------------------------
(* Theorems.                                                               *)

\* throwNewException is in itself at most once, whatever the JVM refuses: the
\* complaint it throws has no code, so that the inner call makes no string and
\* no object that could fail and be complained about again.
THEOREM ThrowTypeCorrect == Spec => []TypeOK
<1>1. ASSUME Inv PROVE TypeOK
  <2>1. ASSUME NEW t \in Thread
        PROVE  /\ stack[t] \in Seq(Frames) /\ Len(stack[t]) <= 2
               /\ request[t] \in Request \union {NoRequest}
               /\ raised[t].class \in Class \union {"JVM", ""}
    <3>1. ThreadOK(t, stack[t], request[t], raised[t], trouble[t], err_msg)
      BY <1>1 DEF Inv
    <3>2. stack[t] \in Seq(Frames) /\ Len(stack[t]) <= 2
      <4>1. CASE stack[t] = <<>>
        BY <4>1
      <4>2. CASE \E f \in Frames : stack[t] = <<f>>
        BY <4>2, StackTypes
      <4>3. CASE \E f, g \in Frames : stack[t] = <<f, g>>
        BY <4>3, StackTypes
      <4> QED
        BY <3>1, <4>1, <4>2, <4>3 DEF ThreadOK
    <3> QED
      BY <3>1, <3>2 DEF ThreadOK
  <2> QED
    BY <1>1, <2>1 DEF TypeOK, Inv, BufferOK, Frames
<1> QED
  BY <1>1, InvAlways, PTL

\* Every complaint fits into err_msg and none is formatted from err_msg itself,
\* for every text natives can throw.
THEOREM ComplaintAlwaysFits == Spec => []ComplaintFits
<1>1. ASSUME Inv PROVE ComplaintFits
  BY <1>1 DEF Inv, BufferOK, ComplaintFits, ErrMsgSize
<1> QED
  BY <1>1, InvAlways, PTL

\* What a thread formats and then throws is about its own request, although any
\* number of threads format into the one buffer.
THEOREM ComplaintStaysMine == Spec => []ComplaintIsMine
<1>1. ASSUME Inv PROVE ComplaintIsMine
  BY <1>1 DEF Inv, ThreadOK, ComplaintIsMine
<1> QED
  BY <1>1, InvAlways, PTL

\* No path returns with the Java string of the message still held.
THEOREM MessageIsReleased == Spec => []MessageReleased
<1>1. ASSUME Inv PROVE MessageReleased
  <2>1. ASSUME NEW t \in Thread, At(t, "return") PROVE ~Top(t).errMsg
    <3>1. stack[t] # <<>> /\ Top(t).at = "return"
      BY <2>1 DEF At
    <3> QED
      BY <1>1, <3>1, InCall DEF OneOK, TwoOK, OuterOK, InnerOK
  <2> QED
    BY <2>1 DEF MessageReleased
<1> QED
  BY <1>1, InvAlways, PTL

----------------------------------------------------------------------------
(* An exception, soon.                                                     *)

\* When the call of a native returns an exception is pending, whatever the JVM
\* refused, and it is the one asked for if the JVM refused nothing.
THEOREM AlwaysRaises ==
    Spec => [](\A t \in Thread :
                 At(t, "return") /\ Tail(stack[t]) = <<>> =>
                   /\ raised[t] # Nothing
                   /\ ~trouble[t] => raised[t] = Wish(request[t]))
<1>1. Inv => \A t \in Thread :
                At(t, "return") /\ Tail(stack[t]) = <<>> =>
                  /\ raised[t] # Nothing
                  /\ ~trouble[t] => raised[t] = Wish(request[t])
  BY ReturnsRaised
<1> QED
  BY <1>1, InvAlways, PTL

\* How many statements a call of a native at a place has still to execute, with
\* those of the call of itself it may make, and how many the inner call has.
Statements == [place \in Place |->
    IF place = "find class" THEN 10
    ELSE IF place = "message" THEN 9
    ELSE IF place = "constructor" THEN 8
    ELSE IF place = "create" THEN 7
    ELSE IF place = "throw" THEN 6
    ELSE IF place = "find fallback" THEN 3
    ELSE IF place \in {"throw new", "exit1"} THEN 2
    ELSE 1]

Inside == [place \in Place |->
    IF place = "find class" THEN 3 ELSE IF place = "throw new" THEN 2 ELSE 1]

Ahead(t) ==
    IF stack[t] = <<>> THEN 0
    ELSE IF Tail(stack[t]) = <<>> THEN Statements[Top(t).at]
    ELSE Inside[Top(t).at] + Statements[Head(Tail(stack[t])).at]

\* The numbers are numbers.
LEMMA Counts ==
    ASSUME NEW place \in Place
    PROVE  Statements[place] \in 1..10 /\ Inside[place] \in 1..3
<1>1. Inside[place] \in 1..3
  BY DEF Inside
<1>2. Statements[place] \in 1..10
  BY DEF Statements
<1> QED
  BY <1>1, <1>2

\* A place is passed after another, in the outer call or in either.
Passes(from, place) ==
    /\ Statements[place] < Statements[from]
    /\ from \in {"find class", "throw new"} => Inside[place] < Inside[from]

LEMMA AheadIs ==
    ASSUME NEW t \in Thread
    PROVE  /\ stack[t] = <<>> => Ahead(t) = 0
           /\ \A f : stack[t] = <<f>> => Ahead(t) = Statements[f.at]
           /\ \A f, g : stack[t] = <<f, g>> => Ahead(t) = Inside[f.at] + Statements[g.at]
<1>1. ASSUME NEW f, stack[t] = <<f>> PROVE Ahead(t) = Statements[f.at]
  BY <1>1, Stacks DEF Ahead, Top
<1>2. ASSUME NEW f, NEW g, stack[t] = <<f, g>>
      PROVE  Ahead(t) = Inside[f.at] + Statements[g.at]
  BY <1>2, Stacks DEF Ahead, Top
<1> QED
  BY <1>1, <1>2 DEF Ahead

LEMMA AheadNext ==
    ASSUME NEW t \in Thread
    PROVE  /\ stack'[t] = <<>> => Ahead(t)' = 0
           /\ \A f : stack'[t] = <<f>> => Ahead(t)' = Statements[f.at]
           /\ \A f, g : stack'[t] = <<f, g>> => Ahead(t)' = Inside[f.at] + Statements[g.at]
<1>1. ASSUME NEW f, stack'[t] = <<f>> PROVE Ahead(t)' = Statements[f.at]
  BY <1>1, Stacks DEF Ahead, Top
<1>2. ASSUME NEW f, NEW g, stack'[t] = <<f, g>>
      PROVE  Ahead(t)' = Inside[f.at] + Statements[g.at]
  BY <1>2, Stacks DEF Ahead, Top
<1> QED
  BY <1>1, <1>2 DEF Ahead

\* A step that goes on to a later place, in the inner call or in the outer one.
LEMMA GotoNearer ==
    ASSUME Inv, NEW t \in Thread, NEW from \in Place, NEW place \in Place,
           At(t, from), Goto(t, place), Passes(from, place)
    PROVE  Ahead(t)' < Ahead(t)
<1> DEFINE f == Top(t)
<1>1. stack[t] # <<>> /\ f.at = from
  BY DEF At
<1>2. f \in Frames
  BY <1>1, InCall
<1>3. [f EXCEPT !.at = place].at = place
  BY <1>2, Moved
<1>4. CASE stack[t] = <<f>>
  <2>1. stack'[t] = <<[f EXCEPT !.at = place]>>
    BY <1>4, GotoMoves
  <2>2. Ahead(t)' = Statements[place]
    BY <1>3, <2>1, AheadNext
  <2>3. Ahead(t) = Statements[from]
    BY <1>1, <1>4, AheadIs
  <2> QED
    BY <2>2, <2>3 DEF Passes
<1>5. CASE \E g \in Frames :
             /\ stack[t] = <<f, g>>
             /\ TwoOK(t, f, g, request[t], raised[t], trouble[t], err_msg)
  <2>1. PICK g \in Frames :
          /\ stack[t] = <<f, g>>
          /\ TwoOK(t, f, g, request[t], raised[t], trouble[t], err_msg)
    BY <1>5
  <2>2. from \in {"find class", "throw new", "return"} /\ g.at \in Place
    <3>1. f.at \in {"find class", "throw new", "return"}
      BY <2>1 DEF TwoOK, InnerOK
    <3>2. g.at \in Place
      BY DEF Frames
    <3> QED
      BY <1>1, <3>1, <3>2
  <2>3. from # "return"
    <3>1. \A k \in 1..10 : ~(k < 1)
      OBVIOUS
    <3>2. Statements[place] \in 1..10
      BY Counts
    <3>3. Statements["return"] = 1
      BY DEF Statements, Place
    <3>4. from = "return" => Statements[place] < 1
      BY <3>3 DEF Passes
    <3> QED
      BY <3>1, <3>2, <3>4
  <2>4. stack'[t] = <<[f EXCEPT !.at = place], g>>
    <3>1. \A a, c : stack[t] = <<a, c>> => stack'[t] = <<[a EXCEPT !.at = place], c>>
      BY GotoMoves
    <3> HIDE DEF f
    <3> QED
      BY <2>1, <3>1
  <2>5. Ahead(t)' = Inside[place] + Statements[g.at]
    <3> DEFINE h == [f EXCEPT !.at = place]
    <3>1. \A a, c : stack'[t] = <<a, c>> => Ahead(t)' = Inside[a.at] + Statements[c.at]
      BY AheadNext
    <3>2. stack'[t] = <<h, g>> /\ h.at = place
      BY <1>3, <2>4
    <3> HIDE DEF h
    <3> QED
      BY <3>1, <3>2
  <2>6. Ahead(t) = Inside[from] + Statements[g.at]
    <3>1. \A a, c : stack[t] = <<a, c>> => Ahead(t) = Inside[a.at] + Statements[c.at]
      BY AheadIs
    <3> HIDE DEF f
    <3> QED
      BY <1>1, <2>1, <3>1
  <2>7. Inside[place] < Inside[from]
    BY <2>2, <2>3 DEF Passes
  <2>8. Inside[place] \in 1..3 /\ Inside[from] \in 1..3 /\ Statements[g.at] \in 1..10
    BY <2>2, Counts
  <2>9. \A i, j \in 1..3, k \in 1..10 : i < j => i + k < j + k
    OBVIOUS
  <2> QED
    BY <2>5, <2>6, <2>7, <2>8, <2>9
<1> QED
  BY <1>1, <1>4, <1>5, InCall

LEMMA Values ==
    /\ Statements["find class"] = 10 /\ Statements["message"] = 9
    /\ Statements["constructor"] = 8 /\ Statements["create"] = 7
    /\ Statements["throw"] = 6 /\ Statements["find fallback"] = 3
    /\ Statements["throw new"] = 2 /\ Statements["exit1"] = 2
    /\ Statements["return"] = 1
    /\ Inside["find class"] = 3 /\ Inside["throw new"] = 2
    /\ \A place \in {"message", "return", "find fallback"} : Inside[place] = 1
<1>1. \A place \in {"find class", "message", "constructor", "create", "throw",
                   "find fallback", "throw new", "exit1", "return"} : place \in Place
  BY DEF Place
<1>2. /\ Statements["find class"] = 10 /\ Statements["message"] = 9
      /\ Statements["constructor"] = 8 /\ Statements["create"] = 7
      /\ Statements["throw"] = 6 /\ Statements["find fallback"] = 3
      /\ Statements["throw new"] = 2 /\ Statements["exit1"] = 2
      /\ Statements["return"] = 1
  BY <1>1 DEF Statements
<1>3. /\ Inside["find class"] = 3 /\ Inside["throw new"] = 2
      /\ \A place \in {"message", "return", "find fallback"} : Inside[place] = 1
  BY <1>1 DEF Inside
<1> QED
  BY <1>2, <1>3

\* The ways from one place to another.
LEMMA Ways ==
    /\ \A place \in {"throw new", "message", "return", "find fallback"} :
         Passes("find class", place)
    /\ \A place \in {"throw new", "return"} : Passes("find fallback", place)
    /\ Passes("message", "constructor")
    /\ Passes("constructor", "create")
    /\ Passes("create", "throw")
    /\ Passes("throw", "exit1")
    /\ Passes("exit1", "return")
    /\ Passes("throw new", "return")
<1>0. /\ 1 < 2 /\ 1 < 3 /\ 2 < 3 /\ 2 < 6 /\ 6 < 7 /\ 7 < 8 /\ 8 < 9
      /\ 1 < 10 /\ 2 < 10 /\ 3 < 10 /\ 9 < 10
  OBVIOUS
<1>1. /\ Statements["throw new"] < Statements["find class"]
      /\ Statements["message"] < Statements["find class"]
      /\ Statements["return"] < Statements["find class"]
      /\ Statements["find fallback"] < Statements["find class"]
      /\ Statements["throw new"] < Statements["find fallback"]
      /\ Statements["return"] < Statements["find fallback"]
      /\ Statements["constructor"] < Statements["message"]
      /\ Statements["create"] < Statements["constructor"]
      /\ Statements["throw"] < Statements["create"]
      /\ Statements["exit1"] < Statements["throw"]
      /\ Statements["return"] < Statements["exit1"]
      /\ Statements["return"] < Statements["throw new"]
  BY <1>0, Values, Zenon
<1>2. /\ \A place \in {"throw new", "message", "return", "find fallback"} :
           Inside[place] < Inside["find class"]
      /\ Inside["return"] < Inside["throw new"]
  <2>1. /\ Inside["find class"] = 3 /\ Inside["throw new"] = 2 /\ Inside["message"] = 1
        /\ Inside["return"] = 1 /\ Inside["find fallback"] = 1
    BY Values, Zenon
  <2> QED
    BY <1>0, <2>1, Zenon
<1>3. \A from \in {"find fallback", "message", "constructor", "create", "throw", "exit1"} :
        from \notin {"find class", "throw new"}
  OBVIOUS
<1>4. \A place \in {"throw new", "message", "return", "find fallback"} :
        Passes("find class", place)
  BY <1>1, <1>2, Zenon DEF Passes
<1>5. \A place \in {"throw new", "return"} : Passes("find fallback", place)
  BY <1>1, <1>3, Zenon DEF Passes
<1>6. /\ Passes("message", "constructor") /\ Passes("constructor", "create")
      /\ Passes("create", "throw") /\ Passes("throw", "exit1")
      /\ Passes("exit1", "return")
  BY <1>1, <1>3, Zenon DEF Passes
<1>7. Passes("throw new", "return")
  BY <1>1, <1>2, Zenon DEF Passes
<1> QED
  BY <1>4, <1>5, <1>6, <1>7

\* A step of the outer call, in a place that the inner one never reaches.
LEMMA OuterNearer ==
    ASSUME Inv, NEW t \in Thread, NEW from, At(t, from),
           from \in {"find fallback", "message", "constructor", "create", "throw", "exit1"},
           NEW h, stack'[t] = <<h>> \o Tail(stack[t]), Passes(from, h.at)
    PROVE  Ahead(t)' < Ahead(t)
<1> DEFINE f == Top(t)
<1>1. stack[t] = <<f>> /\ f.at = from
  BY AtOuter
<1>2. stack'[t] = <<h>>
  <2>1. Tail(<<f>>) = <<>> /\ <<h>> \o <<>> = <<h>>
    BY Stacks
  <2> HIDE DEF f
  <2> QED
    BY <1>1, <2>1
<1>3. Ahead(t)' = Statements[h.at]
  BY <1>2, AheadNext
<1>4. Ahead(t) = Statements[from]
  BY <1>1, AheadIs
<1> QED
  BY <1>3, <1>4 DEF Passes

\* The outer call calls itself to complain.
LEMMA ComplaintNearer ==
    ASSUME Inv, NEW t \in Thread, NEW from, At(t, from),
           from \in {"message", "constructor", "create", "throw"},
           NEW then \in After, throwError(t, then)
    PROVE  Ahead(t)' < Ahead(t)
<1> DEFINE f == Top(t)
           h == Frame("find class", LangException, FALSE, ErrMsg, 0)
           g == [f EXCEPT !.at = then]
<1>1. stack[t] = <<f>> /\ f \in Frames /\ f.at = from
  BY AtOuter
<1>2. g.at = then
  BY <1>1 DEF Frames
<1>3. h.at = "find class"
  BY DEF Frame
<1>4. stack'[t] = <<h, g>>
  <2>1. stack'[t] = <<h, [stack[t][1] EXCEPT !.at = then]>> \o Tail(stack[t])
    BY DEF throwError, Inv
  <2>2. stack[t][1] = f /\ Tail(stack[t]) = <<>>
    BY <1>1, Stacks
  <2>3. stack'[t] = <<h, g>> \o <<>>
    BY <2>1, <2>2
  <2> HIDE DEF g, h
  <2> QED
    BY <2>3, Stacks
<1>5. Ahead(t)' = Inside["find class"] + Statements[then]
  <2> HIDE DEF g, h
  <2>1. \A a, c : stack'[t] = <<a, c>> => Ahead(t)' = Inside[a.at] + Statements[c.at]
    BY AheadNext
  <2> QED
    BY <1>2, <1>3, <1>4, <2>1
<1>6. Ahead(t) = Statements[from]
  BY <1>1, AheadIs
<1>7. Inside["find class"] = 3 /\ Statements[then] \in {1, 2}
  BY DEF Inside, Statements, Place, After
<1>8. Statements[from] \in {6, 7, 8, 9}
  BY DEF Statements, Place
<1>9. \A i \in {1, 2}, j \in {6, 7, 8, 9} : 3 + i < j
  OBVIOUS
<1> QED
  BY <1>5, <1>6, <1>7, <1>8, <1>9

\* Every statement of a call brings it nearer to its return.
LEMMA StepNearer ==
    ASSUME Inv, NEW t \in Thread, Step(t)
    PROVE  Ahead(t)' < Ahead(t)
<1> DEFINE f == Top(t)
<1>1. CASE FindClass(t) \/ FindClassFails(t)
  <2>1. At(t, "find class") /\ "find class" \in Place
    BY <1>1 DEF FindClass, FindClassFails, Place
  <2>2. \E place \in {"throw new", "message", "return", "find fallback"} : Goto(t, place)
    BY <1>1 DEF FindClass, FindClassFails
  <2>3. PICK place \in {"throw new", "message", "return", "find fallback"} : Goto(t, place)
    BY <2>2
  <2>4. place \in Place /\ Passes("find class", place)
    BY Ways DEF Place
  <2> QED
    BY <2>1, <2>3, <2>4, GotoNearer
<1>2. CASE FindFallback(t)
  <2> DEFINE h == [stack[t][1] EXCEPT !.at = "throw new", !.class = LangException,
                                      !.message = ErrMsg]
  <2>1. At(t, "find fallback") /\ stack'[t] = <<h>> \o Tail(stack[t])
    BY <1>2 DEF FindFallback, Inv
  <2>2. h.at = "throw new"
    <3>1. stack[t] = <<f>> /\ f \in Frames
      BY <2>1, AtOuter
    <3>2. stack[t][1] \in Frames
      <4> HIDE DEF f
      <4> QED
        BY <3>1, Stacks
    <3> QED
      BY <3>2 DEF Frames
  <2>3. Passes("find fallback", h.at)
    BY <2>2, Ways
  <2> HIDE DEF h
  <2> QED
    BY <2>1, <2>3, OuterNearer
<1>3. CASE FindFallbackFails(t)
  <2>1. /\ At(t, "find fallback") /\ Goto(t, "return") /\ Passes("find fallback", "return")
        /\ "find fallback" \in Place /\ "return" \in Place
    BY <1>3, Ways DEF FindFallbackFails, Place
  <2> QED
    BY <2>1, GotoNearer
<1>4. CASE MakeMessage(t)
  <2> DEFINE h == [stack[t][1] EXCEPT !.at = "constructor", !.errMsg = TRUE]
  <2>1. At(t, "message") /\ stack'[t] = <<h>> \o Tail(stack[t])
    BY <1>4 DEF MakeMessage, Inv
  <2>2. h.at = "constructor"
    <3>1. stack[t] = <<f>> /\ f \in Frames
      BY <2>1, AtOuter
    <3>2. stack[t][1] \in Frames
      <4> HIDE DEF f
      <4> QED
        BY <3>1, Stacks
    <3> QED
      BY <3>2 DEF Frames
  <2>3. Passes("message", h.at)
    BY <2>2, Ways
  <2> HIDE DEF h
  <2> QED
    BY <2>1, <2>3, OuterNearer
<1>5. CASE \/ MakeMessageFails(t) \/ FindConstructorFails(t)
           \/ CreateFails(t) \/ ThrowFails(t)
  <2>1. \E from \in {"message", "constructor", "create", "throw"} :
          At(t, from) /\ \E then \in {"return", "exit1"} : throwError(t, then)
    BY <1>5 DEF MakeMessageFails, FindConstructorFails, CreateFails, ThrowFails
  <2>2. PICK from \in {"message", "constructor", "create", "throw"} :
          At(t, from) /\ \E then \in {"return", "exit1"} : throwError(t, then)
    BY <2>1
  <2>3. PICK then \in After : throwError(t, then)
    BY <2>2 DEF After
  <2> QED
    BY <2>2, <2>3, ComplaintNearer
<1>6. CASE FindConstructor(t) \/ Create(t) \/ Throw(t) \/ ThrowNew(t) \/ ThrowNewFails(t)
  <2>1. \/ At(t, "constructor") /\ Goto(t, "create")
        \/ At(t, "create") /\ Goto(t, "throw")
        \/ At(t, "throw") /\ Goto(t, "exit1")
        \/ At(t, "throw new") /\ Goto(t, "return")
    BY <1>6 DEF FindConstructor, Create, Throw, ThrowNew, ThrowNewFails
  <2>2. \A place \in {"constructor", "create", "throw", "exit1", "throw new", "return"} :
          place \in Place
    BY DEF Place
  <2>3. /\ Passes("constructor", "create") /\ Passes("create", "throw")
        /\ Passes("throw", "exit1") /\ Passes("throw new", "return")
    BY Ways
  <2> QED
    BY <2>1, <2>2, <2>3, GotoNearer
<1>7. CASE Exit1(t)
  <2> DEFINE h == [stack[t][1] EXCEPT !.at = "return", !.errMsg = FALSE]
  <2>1. At(t, "exit1") /\ stack'[t] = <<h>> \o Tail(stack[t])
    BY <1>7 DEF Exit1, Inv
  <2>2. h.at = "return"
    <3>1. stack[t] = <<f>> /\ f \in Frames
      BY <2>1, AtOuter
    <3>2. stack[t][1] \in Frames
      <4> HIDE DEF f
      <4> QED
        BY <3>1, Stacks
    <3> QED
      BY <3>2 DEF Frames
  <2>3. Passes("exit1", h.at)
    BY <2>2, Ways
  <2> HIDE DEF h
  <2> QED
    BY <2>1, <2>3, OuterNearer
<1>8. CASE ReturnInside(t)
  <2>1. /\ stack[t] # <<>> /\ f.at = "return" /\ Tail(stack[t]) # <<>>
        /\ stack'[t] = Tail(stack[t])
    BY <1>8 DEF ReturnInside, At, Inv
  <2>2. stack[t] # <<f>>
    BY <2>1, Stacks
  <2>3. PICK g \in Frames : stack[t] = <<f, g>>
    BY <2>1, <2>2, InCall
  <2>4. stack'[t] = <<g>>
    <3> HIDE DEF f
    <3> QED
      BY <2>1, <2>3, Stacks
  <2>5. Ahead(t)' = Statements[g.at]
    BY <2>4, AheadNext
  <2>6. Ahead(t) = Inside["return"] + Statements[g.at]
    <3> HIDE DEF f
    <3>1. Ahead(t) = Inside[f.at] + Statements[g.at]
      BY <2>3, AheadIs
    <3> QED
      BY <2>1, <3>1
  <2>7. Inside["return"] = 1 /\ Statements[g.at] \in 1..10
    BY Values, Counts DEF Frames
  <2> QED
    BY <2>5, <2>6, <2>7
<1>9. CASE Return(t)
  <2>1. /\ stack[t] # <<>> /\ f.at = "return" /\ Tail(stack[t]) = <<>>
        /\ stack'[t] = <<>>
    BY <1>9 DEF Return, At, Inv
  <2>2. Ahead(t)' = 0
    BY <2>1, AheadNext
  <2>3. Ahead(t) = 1
    BY <2>1, Values DEF Ahead
  <2> QED
    BY <2>2, <2>3
<1> QED
  BY <1>1, <1>2, <1>3, <1>4, <1>5, <1>6, <1>7, <1>8, <1>9 DEF Step

\* throwNewException returns after at most ten statements, those of the call it
\* makes of itself among them: each statement a thread executes brings it nearer,
\* whatever the JVM refuses, and no other thread can set it back.  At every
\* place it has a statement to execute.
THEOREM ThrowComesNearer ==
    Spec => /\ [](\A t \in Thread :
                    /\ Ahead(t) \in 0..10
                    /\ Ahead(t) = 0 <=> stack[t] = <<>>
                    /\ stack[t] # <<>> => \E place \in Place : At(t, place))
            /\ [][\A t \in Thread : stack[t] # <<>> =>
                    IF Step(t) THEN Ahead(t)' < Ahead(t) ELSE stack'[t] = stack[t]]_vars
<1> DEFINE Bound == \A t \in Thread :
                      /\ Ahead(t) \in 0..10
                      /\ Ahead(t) = 0 <=> stack[t] = <<>>
                      /\ stack[t] # <<>> => \E place \in Place : At(t, place)
           Nearer == \A t \in Thread : stack[t] # <<>> =>
                       IF Step(t) THEN Ahead(t)' < Ahead(t) ELSE stack'[t] = stack[t]
<1>1. Inv => Bound
  <2> SUFFICES ASSUME Inv, NEW t \in Thread
               PROVE  /\ Ahead(t) \in 0..10
                      /\ Ahead(t) = 0 <=> stack[t] = <<>>
                      /\ stack[t] # <<>> => \E place \in Place : At(t, place)
    OBVIOUS
  <2> DEFINE f == Top(t)
  <2>1. CASE stack[t] = <<>>
    BY <2>1, AheadIs
  <2>2. CASE stack[t] # <<>>
    <3>1. f \in Frames /\ At(t, f.at) /\ f.at \in Place
      BY <2>2, InCall DEF At, Frames
    <3>2. CASE stack[t] = <<f>>
      <4>1. Ahead(t) = Statements[f.at]
        BY <3>2, AheadIs
      <4> QED
        BY <2>2, <3>1, <4>1, Counts
    <3>3. CASE \E g \in Frames :
                 /\ stack[t] = <<f, g>>
                 /\ TwoOK(t, f, g, request[t], raised[t], trouble[t], err_msg)
      <4>1. PICK g \in Frames :
              /\ stack[t] = <<f, g>>
              /\ TwoOK(t, f, g, request[t], raised[t], trouble[t], err_msg)
        BY <3>3
      <4>2. Ahead(t) = Inside[f.at] + Statements[g.at]
        <5> HIDE DEF f
        <5> QED
          BY <4>1, AheadIs
      <4>3. g.at \in After /\ Inside[f.at] \in 1..3
        BY <3>1, <4>1, Counts DEF TwoOK
      <4>4. Statements[g.at] \in {1, 2}
        BY <4>3, Values DEF After
      <4>5. Ahead(t) \in 1..10
        BY <4>2, <4>3, <4>4
      <4> QED
        BY <2>2, <3>1, <4>5
    <3> QED
      BY <2>2, <3>2, <3>3, InCall
  <2> QED
    BY <2>1, <2>2
<1>2. Inv /\ [Next]_vars => [Nearer]_vars
  <2> SUFFICES ASSUME Inv, Next, NEW t \in Thread, stack[t] # <<>>
               PROVE  IF Step(t) THEN Ahead(t)' < Ahead(t) ELSE stack'[t] = stack[t]
    BY DEF vars
  <2>1. CASE Step(t)
    BY <2>1, StepNearer
  <2>2. CASE ~Step(t)
    <3>1. PICK u \in Thread : Call(u) \/ Step(u)
      BY DEF Next
    <3>2. u # t
      BY <2>2, <3>1 DEF Call
    <3> QED
      BY <2>2, <3>1, <3>2, Alone
  <2> QED
    BY <2>1, <2>2
<1> QED
  BY InvAlways, <1>1, <1>2, PTL DEF Spec

----------------------------------------------------------------------------
(* The contract.                                                           *)

\* What the contract sees of a thread.
LEMMA KindIs ==
    ASSUME NEW t \in Thread
    PROVE  /\ Kind(t) = IF raised[t] = Nothing THEN "nothing"
                        ELSE IF raised[t] = Wanted(t) THEN "asked" ELSE "other"
           /\ Kind(t)' = IF raised'[t] = Nothing THEN "nothing"
                         ELSE IF raised'[t] = Wanted(t)' THEN "asked" ELSE "other"
<1>1. Kind(t) = IF raised[t] = Nothing THEN "nothing"
                ELSE IF raised[t] = Wanted(t) THEN "asked" ELSE "other"
  BY DEF Kind
<1>2. Kind(t)' = IF raised'[t] = Nothing THEN "nothing"
                 ELSE IF raised'[t] = Wanted(t)' THEN "asked" ELSE "other"
  BY DEF Kind
<1> QED
  BY <1>1, <1>2

LEMMA WantedIs ==
    ASSUME NEW t \in Thread
    PROVE  /\ request[t] \in Request => Wanted(t) = Wish(request[t])
           /\ request'[t] \in Request => Wanted(t)' = Wish(request'[t])
<1>1. request[t] \in Request => Wanted(t) = Wish(request[t])
  BY Requests DEF Wanted, Wish
<1>2. request'[t] \in Request => Wanted(t)' = Wish(request'[t])
  BY Requests DEF Wanted, Wish
<1> QED
  BY <1>1, <1>2

\* As long as there is a request, the thread is in a call.
LEMMA StillIn ==
    ASSUME Inv, Inv', NEW t \in Thread, stack[t] # <<>>, request'[t] = request[t]
    PROVE  stack'[t] # <<>>
<1>1. request[t] \in Request /\ request[t] # NoRequest
  BY InCall, Requests
<1>2. ThreadOK(t, stack'[t], request'[t], raised'[t], trouble'[t], err_msg')
  BY DEF Inv
<1>3. \A f, g : <<f>> # <<>> /\ <<f, g>> # <<>>
  BY Stacks
<1> QED
  BY <1>1, <1>2, <1>3 DEF ThreadOK

\* A step of t changes the contract's state at t only.
LEMMA Seen ==
    ASSUME Inv, NEW t \in Thread, Call(t) \/ Step(t)
    PROVE  /\ \A u \in Thread \ {t} :
                (stack[u] # <<>>)' = (stack[u] # <<>>) /\ Kind(u)' = Kind(u)
           /\ trouble' = [trouble EXCEPT ![t] = trouble'[t]]
<1>1. ASSUME NEW u \in Thread \ {t}
      PROVE  (stack[u] # <<>>)' = (stack[u] # <<>>) /\ Kind(u)' = Kind(u)
  <2>1. stack'[u] = stack[u] /\ request'[u] = request[u] /\ raised'[u] = raised[u]
    BY Alone
  <2> QED
    BY <2>1 DEF Kind, Wanted
<1>2. trouble' = [trouble EXCEPT ![t] = trouble'[t]]
  <2>1. /\ trouble' \in [Thread -> BOOLEAN] /\ trouble \in [Thread -> BOOLEAN]
        /\ \A u \in Thread \ {t} : trouble'[u] = trouble[u]
    BY Alone DEF Inv
  <2> QED
    BY <2>1
<1> QED
  BY <1>1, <1>2

\* The three kinds of steps inside a call.
LEMMA Stutters ==
    ASSUME Inv, Inv', NEW t \in Thread, Step(t), stack[t] # <<>>,
           UNCHANGED <<request, raised, trouble>>
    PROVE  UNCHANGED Contract!vars
<1>1. stack'[t] # <<>>
  BY StillIn
<1>2. \A u \in Thread : Kind(u)' = Kind(u)
  BY DEF Kind, Wanted
<1>3. \A u \in Thread : (stack[u] # <<>>)' = (stack[u] # <<>>)
  BY <1>1, Seen
<1> QED
  BY <1>2, <1>3 DEF Contract!vars

LEMMA Refuses ==
    ASSUME Inv, Inv', NEW t \in Thread, Step(t), stack[t] # <<>>,
           raised[t] # Wish(request[t]), request' = request,
           trouble'[t] = TRUE, raised'[t] = raised[t] \/ Refused(t)
    PROVE  Contract!Refuse(t)
<1>1. stack'[t] # <<>> /\ request[t] \in Request
  BY StillIn, InCall
<1>2. raised'[t] # Wish(request'[t])
  BY <1>1, NotWished
<1>3. Kind(t) # "asked" /\ (Kind(t)' = Kind(t) \/ Kind(t)' = "other")
  <2>1. raised'[t] = raised[t] \/ raised'[t] # Nothing
    BY Refusal
  <2> QED
    BY <1>1, <1>2, <2>1, KindIs, WantedIs
<1> QED
  BY <1>1, <1>3, Seen DEF Contract!Refuse

LEMMA Throws ==
    ASSUME Inv, Inv', NEW t \in Thread, Step(t), stack[t] # <<>>,
           UNCHANGED <<request, trouble>>, raised'[t] # Nothing,
           \/ raised'[t] = Wish(request[t])
           \/ trouble[t] /\ raised[t] # Wish(request[t])
    PROVE  Contract!Deliver(t) \/ Contract!Substitute(t)
<1>1. stack'[t] # <<>> /\ request[t] \in Request
  BY StillIn, InCall
<1>2. CASE raised'[t] = Wish(request[t])
  <2>1. Kind(t)' = "asked"
    BY <1>1, <1>2, KindIs, WantedIs
  <2> QED
    BY <1>1, <2>1, Seen DEF Contract!Deliver
<1>3. CASE raised'[t] # Wish(request[t])
  <2>1. Kind(t)' = "other" /\ Kind(t) # "asked"
    BY <1>1, <1>3, KindIs, WantedIs
  <2> QED
    BY <1>1, <1>3, <2>1, Seen DEF Contract!Substitute
<1> QED
  BY <1>2, <1>3

\* Before the throw of the outer call, and in the inner one, what was asked for is not
\* pending.
LEMMA NotYet ==
    ASSUME Inv, NEW t \in Thread, stack[t] # <<>>, Top(t).at \in Before
    PROVE  raised[t] # Wish(request[t])
  BY InCall DEF OneOK, TwoOK

LEMMA RefusedSteps ==
    ASSUME Inv, Inv', NEW t \in Thread,
           \/ FindClassFails(t) \/ FindFallbackFails(t) \/ MakeMessageFails(t)
           \/ FindConstructorFails(t) \/ CreateFails(t) \/ ThrowFails(t)
           \/ ThrowNewFails(t)
    PROVE  Contract!Refuse(t)
<1>1. /\ stack[t] # <<>> /\ Step(t) /\ request' = request
      /\ Top(t).at \in Before
  BY DEF Step, At, Before, FindClassFails, FindFallbackFails, MakeMessageFails,
         FindConstructorFails, CreateFails, ThrowFails, ThrowNewFails
<1>2. trouble'[t] = TRUE /\ (raised'[t] = raised[t] \/ Refused(t))
  <2>1. Refused(t) \/ (raised' = raised /\ trouble' = [trouble EXCEPT ![t] = TRUE])
    BY DEF FindClassFails, FindFallbackFails, MakeMessageFails,
           FindConstructorFails, CreateFails, ThrowFails, ThrowNewFails
  <2> QED
    BY <2>1, Refusal DEF Inv
<1> QED
  BY <1>1, <1>2, NotYet, Refuses

LEMMA ThrowingSteps ==
    ASSUME Inv, Inv', NEW t \in Thread, Throw(t) \/ ThrowNew(t)
    PROVE  Contract!Deliver(t) \/ Contract!Substitute(t)
<1> DEFINE f == Top(t)
           r == request[t]
<1>1. /\ stack[t] # <<>> /\ Step(t) /\ f.at \in Before
      /\ UNCHANGED <<request, trouble>>
  BY DEF Throw, ThrowNew, At, Step, Before
<1>2. raised[t] # Wish(r) /\ r \in Request
  BY <1>1, NotYet, InCall
<1>3. CASE Throw(t)
  <2>1. raised'[t] = Wish(r) /\ Wish(r) # Nothing
    BY <1>2, <1>3, ThrowKeeps, Requests
  <2> QED
    BY <1>1, <2>1, Throws
<1>4. CASE ThrowNew(t)
  <2>1. f.at = "throw new" /\ raised'[t] = Exception(f.class, Text(f), 0)
    BY <1>4 DEF ThrowNew, At, Inv
  <2>2. CASE Own(f, r) /\ r.error = 0
    <3>1. f.error = 0
      BY <2>2 DEF Own
    <3>2. raised'[t] = Exception(f.class, Text(f), f.error)
      BY <2>1, <3>1
    <3>3. raised'[t] = Wish(r) /\ Wish(r) # Nothing
      <4> HIDE DEF f, r
      <4> QED
        BY <1>2, <2>2, <3>2, WishThrown, Requests
    <3> QED
      BY <1>1, <3>3, Throws
  <2>3. CASE trouble[t] /\ f.class = LangException
    <3>1. LangException # ""
      BY DEF LangException
    <3>2. raised'[t].class = LangException
      <4>1. \A c, x, e : Exception(c, x, e).class = c
        BY ExceptionIs
      <4>2. raised'[t].class = f.class
        <5>1. raised'[t] = Exception(f.class, Text(f), 0)
          BY <2>1
        <5>2. Exception(f.class, Text(f), 0).class = f.class
          BY <4>1
        <5> QED
          BY <5>1, <5>2
      <4>3. f.class = LangException
        BY <2>3
      <4> QED
        BY <4>2, <4>3
    <3>3. raised'[t] # Nothing
      BY <3>1, <3>2, OthersAre
    <3> QED
      BY <1>1, <1>2, <2>3, <3>3, Throws
  <2>4. \/ Own(f, r) /\ r.error = 0
        \/ trouble[t] /\ f.class = LangException
    <3>1. CASE OneOK(t, f, r, raised[t], trouble[t], err_msg)
      BY <2>1, <3>1 DEF OneOK, OuterOK
    <3>2. CASE \E g \in Frames : TwoOK(t, f, g, r, raised[t], trouble[t], err_msg)
      BY <3>2 DEF TwoOK, InnerOK
    <3> QED
      BY <1>1, <3>1, <3>2, InCall
  <2> QED
    BY <2>2, <2>3, <2>4
<1> QED
  BY <1>3, <1>4

LEMMA QuietSteps ==
    ASSUME Inv, Inv', NEW t \in Thread,
           \/ FindClass(t) \/ FindFallback(t) \/ MakeMessage(t) \/ FindConstructor(t)
           \/ Create(t) \/ Exit1(t) \/ ReturnInside(t)
    PROVE  UNCHANGED Contract!vars
<1>1. /\ stack[t] # <<>> /\ Step(t)
      /\ UNCHANGED <<request, raised, trouble>>
  BY DEF Step, At, FindClass, FindFallback, MakeMessage, FindConstructor, Create, Exit1,
         ReturnInside
<1> QED
  BY <1>1, Stutters

LEMMA Asks ==
    ASSUME Inv, Inv', NEW t \in Thread, Call(t)
    PROVE  Contract!Ask(t)
<1>1. /\ stack[t] = <<>> /\ request'[t] \in Request /\ stack'[t] # <<>>
      /\ UNCHANGED <<raised, trouble>> \/ Refused(t)
  <2>1. PICK r \in Request :
          /\ request' = [request EXCEPT ![t] = r]
          /\ stack' = [stack EXCEPT ![t] =
                         <<Frame("find class", r.class, r.foreign, r.message, r.error)>>]
    BY DEF Call
  <2> DEFINE f == Frame("find class", r.class, r.foreign, r.message, r.error)
  <2>2. request'[t] = r /\ stack'[t] = <<f>>
    BY <2>1 DEF Inv
  <2> HIDE DEF f
  <2>3. stack'[t] # <<>>
    BY <2>2, Stacks
  <2> QED
    BY <2>2, <2>3 DEF Call
<1>2. raised[t] = Nothing
  <2>1. ThreadOK(t, <<>>, request[t], raised[t], trouble[t], err_msg)
    BY <1>1 DEF Inv
  <2>2. \A a, c : <<>> # <<a>> /\ <<>> # <<a, c>>
    BY Stacks
  <2> QED
    BY <2>1, <2>2 DEF ThreadOK
<1>3. CASE UNCHANGED <<raised, trouble>>
  <2>1. Kind(t)' = Kind(t)
    BY <1>2, <1>3, KindIs
  <2> QED
    BY <1>1, <1>3, <2>1, Seen DEF Contract!Ask
<1>4. CASE Refused(t)
  <2>1. raised'[t] = OfJVM /\ trouble'[t] = TRUE
    BY <1>2, <1>4 DEF Refused, Inv
  <2>2. Wish(request'[t]) # OfJVM
    BY <1>1, Requests
  <2>3. Kind(t)' = "other"
    BY <1>1, <2>1, <2>2, KindIs, WantedIs, OthersAre
  <2> QED
    BY <1>1, <2>1, <2>3, Seen DEF Contract!Ask
<1> QED
  BY <1>1, <1>3, <1>4

LEMMA Answers ==
    ASSUME Inv, Inv', NEW t \in Thread, Return(t)
    PROVE  Contract!Return(t)
<1>1. /\ stack[t] # <<>> /\ Step(t)
      /\ stack'[t] = <<>> /\ raised'[t] = Nothing /\ trouble'[t] = FALSE
  BY DEF Return, At, Step, Inv
<1>2. raised[t] # Nothing /\ (raised[t] = Wish(request[t]) \/ trouble[t])
  BY ReturnRaised
<1>3. request[t] \in Request
  BY <1>1, InCall
<1>4. Kind(t) = "asked" \/ (Kind(t) = "other" /\ trouble[t])
  BY <1>2, <1>3, KindIs, WantedIs
<1>5. Kind(t)' = "nothing"
  BY <1>1, KindIs
<1> QED
  BY <1>1, <1>4, <1>5, Seen DEF Contract!Return

\* Whatever the JVM refuses, throwNewException returns with an exception
\* pending: the one asked for once it was thrown or if nothing was refused,
\* otherwise one that stands in for it.
THEOREM ThrowKeepsContract == Spec => KeepsContract
<1>1. Init => Contract!Init
  <2> SUFFICES ASSUME Init PROVE Contract!Init
    OBVIOUS
  <2>1. ASSUME NEW t \in Thread PROVE (stack[t] # <<>>) = FALSE /\ Kind(t) = "nothing"
    BY KindIs DEF Init
  <2> QED
    BY <2>1 DEF Init, Contract!Init
<1>2. Inv /\ Inv' /\ [Next]_vars => [Contract!Next]_(Contract!vars)
  <2> SUFFICES ASSUME Inv, Inv', [Next]_vars PROVE [Contract!Next]_(Contract!vars)
    OBVIOUS
  <2>1. CASE UNCHANGED vars
    BY <2>1 DEF vars, Contract!vars, Kind, Wanted
  <2>2. ASSUME NEW t \in Thread, Call(t) PROVE Contract!Next
    BY <2>2, Asks DEF Contract!Next
  <2>3. ASSUME NEW t \in Thread, Step(t) PROVE Contract!Next \/ UNCHANGED Contract!vars
    <3>1. CASE Return(t)
      BY <3>1, Answers DEF Contract!Next
    <3>2. CASE Throw(t) \/ ThrowNew(t)
      BY <3>2, ThrowingSteps DEF Contract!Next
    <3>3. CASE \/ FindClassFails(t) \/ FindFallbackFails(t) \/ MakeMessageFails(t)
               \/ FindConstructorFails(t) \/ CreateFails(t) \/ ThrowFails(t)
               \/ ThrowNewFails(t)
      BY <3>3, RefusedSteps DEF Contract!Next
    <3>4. CASE \/ FindClass(t) \/ FindFallback(t) \/ MakeMessage(t)
               \/ FindConstructor(t) \/ Create(t) \/ Exit1(t) \/ ReturnInside(t)
      BY <3>4, QuietSteps
    <3> QED
      BY <2>3, <3>1, <3>2, <3>3, <3>4 DEF Step
  <2> QED
    BY <2>1, <2>2, <2>3 DEF Next
<1>3. Spec => Contract!Spec
  BY <1>1, <1>2, InvAlways, PTL DEF Spec, Contract!Spec
<1> QED
  BY <1>3 DEF KeepsContract

===============================================================================
