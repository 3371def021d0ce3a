----------------------------- MODULE TaskProofs -----------------------------
(***************************************************************************)
(* Proofs about Task, for a stack of any depth, any set of signals and any *)
(* length of the period.                                                   *)
(***************************************************************************)
EXTENDS Task, TLAPS

\* Zenon is tried on every leaf that names no other prover.
USE Zenon

Places == {"body", "handler", "mode", "swap", "check", "test", "reset", "post",
           "enter", "call"} \cup InDirective
CallType == [pc : Places, set : SUBSET Signals, flag : BOOLEAN]

-----------------------------------------------------------------------------
(* The stack. *)

\* The body is at the bottom; a directive is nobody's caller, so only the
\* innermost call can be one.
Shape ==
  /\ stack \in Seq(CallType) /\ Len(stack) > 0
  /\ stack[1].pc = "body"
  /\ \A i \in 1..(Len(stack) - 1) : stack[i].pc \notin InDirective

\* A task that waits is in the directive that made it wait, or leaving it.
StackInv ==
  /\ Shape
  /\ waiting \in BOOLEAN
  /\ waiting => Top.pc \in InDirective \cup {"test"}

LEMMA TopType == ASSUME Shape PROVE Top \in CallType /\ Len(stack) \in Nat
BY SMT DEF Shape, Top

LEMMA OneCall ==
  ASSUME NEW p \in Places, NEW s \in SUBSET Signals, NEW b \in BOOLEAN
  PROVE  Call(p, s, b) \in CallType
BY DEF Call, CallType

LEMMA PushShape ==
  ASSUME Shape, NEW c \in CallType, Push(c), Top.pc \notin InDirective
  PROVE  /\ Shape' /\ Top' = c
         /\ Len(stack') = Len(stack) + 1
         /\ \A i \in 1..Len(stack) : stack'[i] = stack[i]
<1>1. stack \in Seq(CallType) /\ Len(stack) \in Nat /\ Len(stack) > 0 BY SMT DEF Shape
<1>2. stack' = Append(stack, c) BY DEF Push
<1>3. stack' \in Seq(CallType) /\ Len(stack') = Len(stack) + 1
      /\ stack'[Len(stack) + 1] = c
      /\ \A i \in 1..Len(stack) : stack'[i] = stack[i]
  BY <1>1, <1>2, SMT
<1>4. Top' = c BY <1>3 DEF Top
<1>5. \A i \in 1..Len(stack) : stack[i].pc \notin InDirective BY <1>1, SMT DEF Shape, Top
<1> QED BY <1>1, <1>3, <1>4, <1>5, SMT DEF Shape

LEMMA BelowShape ==
  ASSUME Shape, Top.pc # "body"
  PROVE  /\ Below \in Seq(CallType) /\ Len(Below) = Len(stack) - 1 /\ Len(stack) > 1
         /\ \A i \in 1..(Len(stack) - 1) : Below[i] = stack[i]
BY SMT DEF Shape, Top, Below

LEMMA BecomeShape ==
  ASSUME Shape, Top.pc # "body", NEW c \in CallType, Become(c)
  PROVE  /\ Shape' /\ Top' = c
         /\ Len(stack') = Len(stack)
         /\ \A i \in 1..(Len(stack) - 1) : stack'[i] = stack[i]
<1>1. /\ Below \in Seq(CallType) /\ Len(Below) = Len(stack) - 1 /\ Len(stack) > 1
      /\ \A i \in 1..(Len(stack) - 1) : Below[i] = stack[i]
  BY BelowShape
<1>2. Len(stack) \in Nat BY TopType
<1>3. stack' = Append(Below, c) BY DEF Become
<1>4. stack' \in Seq(CallType) /\ Len(stack') = Len(stack)
      /\ stack'[Len(stack)] = c
      /\ \A i \in 1..(Len(stack) - 1) : stack'[i] = Below[i]
  BY <1>1, <1>2, <1>3, SMT
<1>5. \A i \in 1..(Len(stack) - 1) : stack'[i] = stack[i] BY <1>1, <1>4
<1>6. Top' = c BY <1>4 DEF Top
<1>7. stack'[1] = stack[1] BY <1>1, <1>2, <1>5, SMT
<1> QED BY <1>1, <1>2, <1>4, <1>5, <1>6, <1>7 DEF Shape

LEMMA GotoShape ==
  ASSUME Shape, Top.pc # "body", NEW p \in Places, Goto(p)
  PROVE  /\ Shape' /\ Top' = [Top EXCEPT !.pc = p]
         /\ Len(stack') = Len(stack)
         /\ \A i \in 1..(Len(stack) - 1) : stack'[i] = stack[i]
<1>1. [Top EXCEPT !.pc = p] \in CallType BY TopType DEF CallType
<1>2. Become([Top EXCEPT !.pc = p]) BY DEF Goto
<1> QED BY <1>1, <1>2, BecomeShape

LEMMA ReturnShape ==
  ASSUME Shape, Top.pc # "body", Return
  PROVE  /\ Shape' /\ Top'.pc \notin InDirective
         /\ Len(stack') = Len(stack) - 1
         /\ \A i \in 1..(Len(stack) - 1) : stack'[i] = stack[i]
<1>1. /\ Below \in Seq(CallType) /\ Len(Below) = Len(stack) - 1 /\ Len(stack) > 1
      /\ \A i \in 1..(Len(stack) - 1) : Below[i] = stack[i]
  BY BelowShape
<1>2. Len(stack) \in Nat /\ stack' = Below BY TopType DEF Return
<1> QED BY <1>1, <1>2, SMT DEF Shape, Top

-----------------------------------------------------------------------------
(* The signals. *)

\* The n outermost calls stay as they are.
Keeps(n) == n <= Len(stack') /\ \A i \in 1..n : stack'[i] = stack[i]

SignalTypes ==
  /\ handler \in BOOLEAN /\ mode_set \in BOOLEAN /\ is_enabled \in BOOLEAN
  /\ do_post \in BOOLEAN
  /\ signals_posted \in SUBSET Signals /\ signals_pending \in SUBSET Signals
  /\ owed \in SUBSET Signals

\* The innermost call is about to look at signals_posted.
Looks(pc) ==
  pc \in {"check", "reset", "post"} \/ (do_post /\ pc \in InDirective \cup {"test"})

\* x is posted, pending, or in the hands of a call.
Somewhere(x) ==
  \/ x \in signals_posted \cup signals_pending
  \/ \E i \in 1..Len(stack) : stack[i].pc \in {"enter", "call"} /\ x \in stack[i].set

\* Posted signals are seen by the call that runs, pending ones wait until the
\* ASR is enabled, or for the swap that follows.
SignalInv ==
  /\ SignalTypes
  /\ \A x \in owed : Somewhere(x)
  /\ signals_posted # {} => Looks(Top.pc)
  /\ signals_pending # {} /\ is_enabled => \E i \in 1..Len(stack) : stack[i].pc = "swap"

LEMMA HeldKept ==
  ASSUME Shape, Keeps(Len(stack) - 1), NEW x,
         Keeps(Len(stack)) \/ Top.pc \notin {"enter", "call"},
         \E i \in 1..Len(stack) : stack[i].pc \in {"enter", "call"} /\ x \in stack[i].set
  PROVE  \E i \in 1..Len(stack') :
           stack'[i].pc \in {"enter", "call"} /\ x \in stack'[i].set
<1>1. PICK i \in 1..Len(stack) : stack[i].pc \in {"enter", "call"} /\ x \in stack[i].set
  OBVIOUS
<1>2. Len(stack) \in Nat /\ Len(stack) > 0 BY TopType DEF Shape
<1>3. CASE Keeps(Len(stack)) BY <1>1, <1>2, <1>3, SMT DEF Keeps
<1>4. CASE Top.pc \notin {"enter", "call"}
  <2>1. i \in 1..(Len(stack) - 1) BY <1>1, <1>2, <1>4, SMT DEF Top
  <2> QED BY <1>1, <1>2, <2>1, SMT DEF Keeps
<1> QED BY <1>3, <1>4

LEMMA SwapKept ==
  ASSUME Shape, Keeps(Len(stack) - 1), Keeps(Len(stack)) \/ Top.pc # "swap",
         \E i \in 1..Len(stack) : stack[i].pc = "swap"
  PROVE  \E i \in 1..Len(stack') : stack'[i].pc = "swap"
<1>1. PICK i \in 1..Len(stack) : stack[i].pc = "swap" OBVIOUS
<1>2. Len(stack) \in Nat /\ Len(stack) > 0 BY TopType DEF Shape
<1>3. CASE Keeps(Len(stack)) BY <1>1, <1>2, <1>3, SMT DEF Keeps
<1>4. CASE Top.pc # "swap"
  <2>1. i \in 1..(Len(stack) - 1) BY <1>1, <1>2, <1>4, SMT DEF Top
  <2> QED BY <1>1, <1>2, <2>1, SMTT(30) DEF Keeps
<1> QED BY <1>3, <1>4

\* A step that leaves the sets alone and the calls that hold signals
LEMMA SetsKept ==
  ASSUME Shape, SignalInv, SignalTypes', Keeps(Len(stack) - 1),
         Keeps(Len(stack)) \/ Top.pc \notin {"enter", "call", "swap"},
         owed' \subseteq owed,
         UNCHANGED <<signals_posted, signals_pending, is_enabled>>,
         signals_posted # {} => Looks(Top.pc)'
  PROVE  SignalInv'
<1>1. \A x \in owed' : Somewhere(x)'
  BY HeldKept DEF SignalInv, Somewhere
<1>2. signals_pending' # {} /\ is_enabled' => \E i \in 1..Len(stack') : stack'[i].pc = "swap"
  BY SwapKept DEF SignalInv
<1> QED BY <1>1, <1>2 DEF SignalInv

LEMMA SignalStepKeeps ==
  ASSUME StackInv, SignalInv, SignalStep
  PROVE  /\ StackInv' /\ SignalInv'
         /\ ~ waiting /\ ~ waiting'
         /\ Top.pc \notin InDirective /\ Top'.pc \notin InDirective
<1> DEFINE n == Len(stack)
           Goal == Shape' /\ SignalInv' /\ Top'.pc \notin InDirective
<1>1. Shape /\ SignalTypes /\ Top \in CallType /\ n \in Nat /\ n > 0
  BY TopType DEF StackInv, SignalInv, Shape
<1>2. /\ UNCHANGED waiting
      /\ \E pc \in {"mode", "swap", "check", "test", "reset", "post", "enter", "call",
                    "handler"} : At(pc)
  BY DEF SignalStep, ModeStore, ModeSwap, ModeCheck, DispatchTest, DispatchReset, SwitchTake,
     SwitchEnter, SwitchCall, SwitchLeave
<1>3. /\ Top.pc # "body" /\ Top.pc \notin InDirective
      /\ ~ waiting /\ ~ waiting'
  BY <1>2 DEF At, InDirective
<1> SUFFICES Goal BY <1>2, <1>3 DEF StackInv
<1>4. ASSUME NEW c \in CallType, Become(c)
      PROVE  Shape' /\ Top' = c /\ Len(stack') = n /\ Keeps(n - 1)
  BY <1>1, <1>3, <1>4, BecomeShape, SMT DEF Keeps
<1>5. ASSUME NEW q \in Places \ InDirective, Goto(q)
      PROVE  Shape' /\ Top' = [Top EXCEPT !.pc = q] /\ Top'.pc = q /\ Top'.set = Top.set
             /\ Len(stack') = n /\ Keeps(n - 1)
  <2>1. Shape' /\ Top' = [Top EXCEPT !.pc = q] /\ Len(stack') = n /\ Keeps(n - 1)
    BY <1>1, <1>3, <1>5, GotoShape, SMT DEF Keeps
  <2> QED BY <1>1, <2>1 DEF CallType
<1>6. ASSUME Return PROVE Shape' /\ Top'.pc \notin InDirective /\ Keeps(n - 1)
  BY <1>1, <1>3, <1>6, ReturnShape, SMT DEF Keeps
<1>7. CASE ModeStore
  <2>1. Top.pc = "mode" /\ UNCHANGED setVars /\ is_enabled' = Top.flag
        /\ UNCHANGED <<handler, mode_set>>
    BY <1>7 DEF ModeStore, At
  <2>2. signals_posted = {} BY <2>1 DEF SignalInv, Looks, InDirective
  <2>3. SignalTypes' BY <1>1, <2>1 DEF SignalTypes, setVars, CallType
  <2>4. CASE Top.flag # is_enabled
    <3>1. Goto("swap") BY <1>7, <2>4 DEF ModeStore
    <3>2. Shape' /\ Top'.pc = "swap" /\ Len(stack') = n /\ Keeps(n - 1)
      BY <1>5, <3>1 DEF Places, InDirective
    <3>3. \A x \in owed' : Somewhere(x)'
      BY <1>1, <2>1, <3>2, HeldKept DEF SignalInv, Somewhere, setVars
    <3>4. n \in 1..Len(stack') /\ stack'[n].pc = "swap" BY <1>1, <3>2, SMT DEF Top
    <3>5. SignalInv' BY <2>1, <2>2, <2>3, <3>3, <3>4 DEF SignalInv, setVars
    <3> QED BY <3>2, <3>5 DEF InDirective
  <2>5. CASE Top.flag = is_enabled
    <3>1. Return BY <1>7, <2>5 DEF ModeStore
    <3>2. SignalInv' BY <1>1, <1>6, <2>1, <2>2, <2>3, <2>5, <3>1, SetsKept DEF setVars
    <3> QED BY <1>6, <3>1, <3>2
  <2> QED BY <2>4, <2>5
<1>8. CASE ModeSwap
  <2>1. Top.pc = "swap" /\ Swap /\ Goto("check") /\ UNCHANGED <<asrVars, do_post, owed>>
    BY <1>8 DEF ModeSwap, At
  <2>2. signals_posted = {} BY <2>1 DEF SignalInv, Looks, InDirective
  <2>3. SignalTypes' BY <1>1, <2>1 DEF SignalTypes, Swap, asrVars
  <2>4. Shape' /\ Top'.pc = "check" /\ Keeps(n - 1)
    BY <1>5, <2>1 DEF Places, InDirective
  <2>5. \A x \in owed' : Somewhere(x)'
    BY <1>1, <2>1, <2>4, HeldKept DEF SignalInv, Somewhere, Swap
  <2>6. Looks(Top.pc)' BY <2>4 DEF Looks
  <2>7. SignalInv' BY <2>1, <2>2, <2>3, <2>5, <2>6 DEF SignalInv, Swap
  <2> QED BY <2>4, <2>7 DEF InDirective
<1>9. CASE ModeCheck
  <2>1. Top.pc = "check" /\ UNCHANGED <<asrVars, signals_posted, signals_pending, owed>>
    BY <1>9 DEF ModeCheck, At
  <2>2. CASE signals_posted # {}
    <3>1. do_post' = TRUE /\ Become(Dispatch) BY <1>9, <2>2 DEF ModeCheck
    <3>2. Dispatch \in CallType /\ Dispatch.pc = "test"
      BY OneCall DEF Dispatch, Places, Call
    <3>3. Shape' /\ Top' = Dispatch /\ Keeps(n - 1) BY <1>4, <3>1, <3>2
    <3>4. SignalTypes' BY <1>1, <2>1, <3>1 DEF SignalTypes, asrVars
    <3>5. Looks(Top.pc)' BY <3>1, <3>2, <3>3 DEF Looks
    <3>6. SignalInv' BY <1>1, <2>1, <3>3, <3>4, <3>5, SetsKept DEF asrVars
    <3> QED BY <3>2, <3>3, <3>6 DEF InDirective
  <2>3. CASE signals_posted = {}
    <3>1. Return /\ UNCHANGED do_post BY <1>9, <2>3 DEF ModeCheck
    <3>2. SignalTypes' BY <1>1, <2>1, <3>1 DEF SignalTypes, asrVars
    <3>3. SignalInv' BY <1>1, <1>6, <2>1, <2>3, <3>1, <3>2, SetsKept DEF asrVars
    <3> QED BY <1>6, <3>1, <3>3
  <2> QED BY <2>2, <2>3
<1>10. CASE DispatchTest
  <2>1. Top.pc = "test" /\ UNCHANGED signalVars BY <1>10 DEF DispatchTest, At
  <2>2. SignalTypes' BY <1>1, <2>1 DEF SignalTypes, signalVars, asrVars, setVars
  <2>3. CASE do_post
    <3>1. Goto("reset") BY <1>10, <2>3 DEF DispatchTest
    <3>2. Shape' /\ Top'.pc = "reset" /\ Keeps(n - 1)
      BY <1>5, <3>1 DEF Places, InDirective
    <3>3. Looks(Top.pc)' BY <3>2 DEF Looks
    <3>4. SignalInv'
      BY <1>1, <2>1, <2>2, <3>2, <3>3, SetsKept DEF signalVars, asrVars, setVars
    <3> QED BY <3>2, <3>4 DEF InDirective
  <2>4. CASE ~ do_post
    <3>1. Return BY <1>10, <2>4 DEF DispatchTest
    <3>2. signals_posted = {} BY <2>1, <2>4 DEF SignalInv, Looks
    <3>3. SignalInv'
      BY <1>1, <1>6, <2>1, <2>2, <3>1, <3>2, SetsKept DEF signalVars, asrVars, setVars
    <3> QED BY <1>6, <3>1, <3>3
  <2> QED BY <2>3, <2>4
<1>11. CASE DispatchReset
  <2>1. /\ Top.pc = "reset" /\ Goto("post") /\ do_post' = FALSE
        /\ UNCHANGED <<asrVars, signals_posted, signals_pending, owed>>
    BY <1>11 DEF DispatchReset, At
  <2>2. SignalTypes' BY <1>1, <2>1 DEF SignalTypes, asrVars
  <2>3. Shape' /\ Top'.pc = "post" /\ Keeps(n - 1)
    BY <1>5, <2>1 DEF Places, InDirective
  <2>4. Looks(Top.pc)' BY <2>3 DEF Looks
  <2>5. SignalInv' BY <1>1, <2>1, <2>2, <2>3, <2>4, SetsKept DEF asrVars
  <2> QED BY <2>3, <2>5 DEF InDirective
<1>12. CASE SwitchTake
  <2>1. /\ Top.pc = "post" /\ signals_posted' = {}
        /\ UNCHANGED <<asrVars, signals_pending, do_post, owed>>
    BY <1>12 DEF SwitchTake, At
  <2>2. SignalTypes' BY <1>1, <2>1 DEF SignalTypes, asrVars
  <2>3. CASE signals_posted = {}
    <3>1. Return BY <1>12, <2>3 DEF SwitchTake
    <3>2. SignalInv' BY <1>1, <1>6, <2>1, <2>2, <2>3, <3>1, SetsKept DEF asrVars
    <3> QED BY <1>6, <3>1, <3>2
  <2>4. CASE signals_posted # {}
    <3> DEFINE c == Call("enter", signals_posted, FALSE)
    <3>1. Become(c) BY <1>12, <2>4 DEF SwitchTake
    <3>2. c \in CallType /\ c.pc = "enter" /\ c.set = signals_posted
      BY <1>1, OneCall DEF Places, Call, SignalTypes
    <3> HIDE DEF c
    <3>3. Shape' /\ Top' = c /\ Len(stack') = n /\ Keeps(n - 1) BY <1>4, <3>1, <3>2
    <3>4. stack'[n] = c /\ n \in 1..Len(stack') BY <1>1, <3>3, SMT DEF Top
    <3>5. \A x \in owed' : Somewhere(x)'
      <4> SUFFICES ASSUME NEW x \in owed PROVE Somewhere(x)' BY <2>1
      <4>1. CASE x \in signals_posted BY <3>2, <3>4, <4>1 DEF Somewhere
      <4>2. CASE x \in signals_pending BY <2>1, <4>2 DEF Somewhere
      <4>3. CASE \E i \in 1..Len(stack) : stack[i].pc \in {"enter", "call"} /\ x \in stack[i].set
        BY <1>1, <2>1, <3>3, <4>3, HeldKept DEF Somewhere
      <4> QED BY <4>1, <4>2, <4>3 DEF SignalInv, Somewhere
    <3>6. signals_pending' # {} /\ is_enabled' =>
            \E i \in 1..Len(stack') : stack'[i].pc = "swap"
      BY <1>1, <2>1, <3>3, SwapKept DEF SignalInv, asrVars
    <3>7. SignalInv' BY <2>1, <2>2, <3>5, <3>6 DEF SignalInv
    <3> QED BY <3>2, <3>3, <3>7 DEF InDirective
  <2> QED BY <2>3, <2>4
<1>13. CASE SwitchEnter
  <2> DEFINE c == [Top EXCEPT !.pc = "call", !.flag = is_enabled]
             d == Mode(mode_set)
  <2>1. Top.pc = "enter" /\ UNCHANGED signalVars /\ stack' = Below \o <<c, d>>
    BY <1>13 DEF SwitchEnter, At
  <2>2. SignalTypes' BY <1>1, <2>1 DEF SignalTypes, signalVars, asrVars, setVars
  <2>3. signals_posted = {} BY <2>1 DEF SignalInv, Looks, InDirective
  <2>4. c \in CallType /\ c.pc = "call" /\ c.set = Top.set
    BY <1>1 DEF CallType, Places, SignalTypes
  <2>5. d \in CallType /\ d.pc = "mode"
    BY <1>1, OneCall DEF Mode, Call, Places, SignalTypes
  <2> HIDE DEF c, d
  <2>6. /\ Below \in Seq(CallType) /\ Len(Below) = n - 1 /\ n > 1
        /\ \A i \in 1..(n - 1) : Below[i] = stack[i]
    BY <1>1, <1>3, BelowShape
  <2>7. stack' \in Seq(CallType) /\ Len(stack') = n + 1
        /\ stack'[n] = c /\ stack'[n + 1] = d
        /\ \A i \in 1..(n - 1) : stack'[i] = Below[i]
    BY <1>1, <2>1, <2>4, <2>5, <2>6, SMT
  <2>8. Keeps(n - 1) BY <1>1, <2>6, <2>7, SMT DEF Keeps
  <2>9. Top' = d BY <2>7 DEF Top
  <2>10. Shape'
    <3>1. stack'[1].pc = "body" BY <1>1, <2>6, <2>7, SMT DEF Shape
    <3>2. \A i \in 1..n : stack'[i].pc \notin InDirective
      <4>1. \A i \in 1..(n - 1) : stack'[i].pc \notin InDirective
        BY <1>1, <2>6, <2>7 DEF Shape
      <4>2. stack'[n].pc \notin InDirective BY <2>4, <2>7 DEF InDirective
      <4> QED BY <1>1, <4>1, <4>2, SMT
    <3> QED BY <1>1, <2>7, <3>1, <3>2, SMT DEF Shape
  <2>11. \A x \in owed' : Somewhere(x)'
    <3> SUFFICES ASSUME NEW x \in owed PROVE Somewhere(x)'
      BY <2>1 DEF signalVars, setVars
    <3>1. CASE x \in signals_posted \cup signals_pending
      BY <2>1, <3>1 DEF Somewhere, signalVars, setVars
    <3>2. CASE \E i \in 1..n : stack[i].pc \in {"enter", "call"} /\ x \in stack[i].set
      <4>1. PICK i \in 1..n : stack[i].pc \in {"enter", "call"} /\ x \in stack[i].set
        BY <3>2
      <4>2. CASE i = n
        <5>1. x \in c.set /\ n \in 1..Len(stack') BY <1>1, <2>4, <2>7, <4>1, <4>2, SMT DEF Top
        <5> QED BY <2>4, <2>7, <5>1 DEF Somewhere
      <4>3. CASE i # n
        <5>1. i \in 1..(n - 1) /\ i \in 1..Len(stack') BY <1>1, <2>7, <4>3, SMT
        <5>2. stack'[i] = stack[i] BY <2>6, <2>7, <5>1
        <5> QED BY <4>1, <5>1, <5>2 DEF Somewhere
      <4> QED BY <4>2, <4>3
    <3> QED BY <3>1, <3>2 DEF SignalInv, Somewhere
  <2>12. signals_pending' # {} /\ is_enabled' =>
           \E i \in 1..Len(stack') : stack'[i].pc = "swap"
    BY <1>1, <2>1, <2>8, SwapKept, SMTT(30) DEF SignalInv, signalVars, setVars, asrVars
  <2>13. SignalInv' BY <2>1, <2>2, <2>3, <2>11, <2>12 DEF SignalInv, signalVars, setVars
  <2> QED BY <2>5, <2>9, <2>10, <2>13 DEF InDirective
<1>14. CASE SwitchCall
  <2>1. /\ Top.pc = "call" /\ Goto("handler") /\ owed' = owed \ Top.set
        /\ UNCHANGED <<asrVars, signals_posted, signals_pending, do_post>>
    BY <1>14 DEF SwitchCall, At
  <2>2. SignalTypes' BY <1>1, <2>1 DEF SignalTypes, asrVars
  <2>3. signals_posted = {} BY <2>1 DEF SignalInv, Looks, InDirective
  <2>4. Shape' /\ Top'.pc = "handler" /\ Len(stack') = n /\ Keeps(n - 1)
    BY <1>5, <2>1 DEF Places, InDirective
  <2>5. \A x \in owed' : Somewhere(x)'
    <3> SUFFICES ASSUME NEW x \in owed, x \notin Top.set PROVE Somewhere(x)' BY <2>1
    <3>1. CASE x \in signals_posted \cup signals_pending BY <2>1, <3>1 DEF Somewhere
    <3>2. CASE \E i \in 1..n : stack[i].pc \in {"enter", "call"} /\ x \in stack[i].set
      <4>1. PICK i \in 1..n : stack[i].pc \in {"enter", "call"} /\ x \in stack[i].set
        BY <3>2
      <4>2. i \in 1..(n - 1) /\ i \in 1..Len(stack') BY <1>1, <2>4, <4>1, SMT DEF Top
      <4> QED BY <2>4, <4>1, <4>2 DEF Keeps, Somewhere
    <3> QED BY <3>1, <3>2 DEF SignalInv, Somewhere
  <2>6. signals_pending' # {} /\ is_enabled' =>
          \E i \in 1..Len(stack') : stack'[i].pc = "swap"
    BY <1>1, <2>1, <2>4, SwapKept DEF SignalInv, asrVars
  <2>7. SignalInv' BY <2>1, <2>2, <2>3, <2>5, <2>6 DEF SignalInv
  <2> QED BY <2>4, <2>7 DEF InDirective
<1>15. CASE SwitchLeave
  <2> DEFINE c == Mode(Top.flag)
  <2>1. Top.pc = "handler" /\ Become(c) /\ UNCHANGED signalVars
    BY <1>15 DEF SwitchLeave, At
  <2>2. SignalTypes' BY <1>1, <2>1 DEF SignalTypes, signalVars, asrVars, setVars
  <2>3. signals_posted = {} BY <2>1 DEF SignalInv, Looks, InDirective
  <2>4. c \in CallType /\ c.pc = "mode"
    BY <1>1, OneCall DEF Mode, Call, Places, CallType
  <2> HIDE DEF c
  <2>5. Shape' /\ Top' = c /\ Keeps(n - 1) BY <1>4, <2>1, <2>4
  <2>6. SignalInv'
    BY <1>1, <2>1, <2>2, <2>3, <2>5, SetsKept DEF signalVars, asrVars, setVars
  <2> QED BY <2>4, <2>5, <2>6 DEF InDirective
<1> QED
  BY <1>7, <1>8, <1>9, <1>10, <1>11, <1>12, <1>13, <1>14, <1>15 DEF SignalStep

\* A call that is entered outside all directives
LEMMA PushKeeps ==
  ASSUME StackInv, SignalInv, NEW c \in CallType, Push(c), Top.pc \notin InDirective,
         UNCHANGED <<waiting, signalVars>>,
         waiting => c.pc = "test",
         signals_posted # {} => c.pc = "test" /\ do_post
  PROVE  StackInv' /\ SignalInv' /\ Top' = c
<1>1. Shape /\ Len(stack) \in Nat BY TopType DEF StackInv
<1>2. /\ Shape' /\ Top' = c
      /\ Len(stack') = Len(stack) + 1 /\ \A i \in 1..Len(stack) : stack'[i] = stack[i]
  BY <1>1, PushShape
<1>3. Keeps(Len(stack)) /\ Keeps(Len(stack) - 1) BY <1>1, <1>2, SMT DEF Keeps
<1>4. SignalTypes' BY DEF SignalInv, SignalTypes, signalVars, asrVars, setVars
<1>5. signals_posted # {} => Looks(Top.pc)'
  BY <1>2 DEF Looks, signalVars, setVars
<1>6. SignalInv' BY <1>1, <1>3, <1>4, <1>5, SetsKept DEF signalVars, asrVars, setVars
<1>7. StackInv' BY <1>2 DEF StackInv
<1> QED BY <1>2, <1>6, <1>7

LEMMA SignalCallsKeep ==
  ASSUME StackInv, SignalInv, SignalCalls
  PROVE  /\ StackInv' /\ SignalInv' /\ UNCHANGED waiting
         /\ \/ UNCHANGED stack
            \/ Top.pc \notin InDirective /\ Top'.pc \notin InDirective
<1>1. Shape /\ SignalTypes /\ Len(stack) \in Nat /\ Len(stack) > 0
  BY TopType DEF StackInv, SignalInv, Shape
<1>2. ASSUME UNCHANGED stack PROVE Shape' /\ Keeps(Len(stack)) /\ Keeps(Len(stack) - 1)
  BY <1>1, <1>2, SMT DEF Shape, Keeps
<1>3. ASSUME UNCHANGED <<stack, waiting>> PROVE StackInv'
  BY <1>3 DEF StackInv, Shape, Top
<1>4. Dispatch \in CallType /\ Dispatch.pc = "test" /\ Dispatch.pc \notin InDirective
  BY OneCall DEF Dispatch, Call, Places, InDirective
<1>5. ASSUME Application PROVE signals_posted = {} /\ ~ waiting /\ Top.pc \notin InDirective
  BY <1>5 DEF Application, SignalInv, Looks, InDirective
<1>6. ASSUME NEW present \in BOOLEAN, NEW enabled \in BOOLEAN, Catch(present, enabled)
      PROVE  StackInv' /\ SignalInv' /\ UNCHANGED <<stack, waiting>>
  <2>1. UNCHANGED <<stack, waiting, do_post>> /\ signals_posted = {}
        /\ handler' = present /\ mode_set' = (present => enabled)
        /\ is_enabled' = (present => is_enabled)
    BY <1>5, <1>6 DEF Catch, taskVars
  <2>2. CASE present
    <3>1. UNCHANGED <<signals_posted, signals_pending, owed, is_enabled>>
      BY <1>1, <1>6, <2>1, <2>2 DEF Catch, SignalTypes
    <3>2. SignalTypes' BY <1>1, <2>1, <3>1 DEF SignalTypes
    <3>3. SignalInv' BY <1>1, <1>2, <2>1, <3>1, <3>2, SetsKept
    <3> QED BY <1>3, <2>1, <3>3
  <2>3. CASE ~ present
    <3>1. signals_posted' = {} /\ signals_pending' = {} /\ owed' = {}
      BY <1>6, <2>3 DEF Catch
    <3>2. SignalTypes' BY <1>1, <2>1, <3>1 DEF SignalTypes
    <3>3. SignalInv' BY <3>1, <3>2 DEF SignalInv
    <3> QED BY <1>3, <2>1, <3>3
  <2> QED BY <2>2, <2>3
<1>7. ASSUME NEW enabled \in BOOLEAN, TaskMode(enabled)
      PROVE  StackInv' /\ SignalInv' /\ UNCHANGED waiting
             /\ Top.pc \notin InDirective /\ Top'.pc \notin InDirective
  <2> DEFINE c == Mode(enabled)
  <2>1. Push(c) /\ UNCHANGED <<waiting, signalVars>> /\ Application
    BY <1>7 DEF TaskMode
  <2>2. c \in CallType /\ c.pc = "mode" BY OneCall DEF Mode, Call, Places
  <2> HIDE DEF c
  <2>3. StackInv' /\ SignalInv' /\ Top' = c BY <1>5, <2>1, <2>2, PushKeeps
  <2> QED BY <1>5, <2>1, <2>2, <2>3 DEF InDirective
<1>8. ASSUME Preempt
      PROVE  StackInv' /\ SignalInv' /\ UNCHANGED waiting
             /\ Top.pc \notin InDirective /\ Top'.pc \notin InDirective
  <2>1. /\ Push(Dispatch) /\ UNCHANGED <<waiting, signalVars>>
        /\ do_post /\ ~ waiting /\ Top.pc \notin InDirective
    BY <1>8 DEF Preempt
  <2>2. StackInv' /\ SignalInv' /\ Top' = Dispatch BY <1>4, <2>1, PushKeeps
  <2> QED BY <1>4, <2>1, <2>2
<1>9. ASSUME NEW s \in SUBSET Signals, Send(s)
      PROVE  /\ StackInv' /\ SignalInv' /\ UNCHANGED waiting
             /\ \/ UNCHANGED stack
                \/ Top.pc \notin InDirective /\ Top'.pc \notin InDirective
  <2>1. UNCHANGED <<asrVars, waiting>> /\ owed' = owed \cup s BY <1>9 DEF Send
  <2>2. CASE ~ is_enabled
    <3>1. signals_pending' = signals_pending \cup s
          /\ UNCHANGED <<signals_posted, do_post, stack>>
      BY <1>9, <2>2 DEF Send
    <3>2. SignalTypes' BY <1>1, <2>1, <3>1 DEF SignalTypes, asrVars
    <3>3. \A x \in owed' : Somewhere(x)' BY <2>1, <3>1 DEF SignalInv, Somewhere
    <3>4. Looks(Top.pc)' = Looks(Top.pc) BY <3>1 DEF Looks, Top
    <3>5. SignalInv' BY <2>1, <2>2, <3>1, <3>2, <3>3, <3>4 DEF SignalInv, asrVars
    <3> QED BY <1>3, <2>1, <3>1, <3>5
  <2>3. CASE is_enabled
    <3>1. /\ signals_posted' = signals_posted \cup s /\ do_post' = TRUE
          /\ UNCHANGED signals_pending
          /\ IF waiting \/ Top.pc \in InDirective THEN UNCHANGED stack ELSE Push(Dispatch)
      BY <1>9, <2>3 DEF Send
    <3>2. SignalTypes' BY <1>1, <2>1, <3>1 DEF SignalTypes, asrVars
    <3>3. /\ StackInv' /\ Keeps(Len(stack)) /\ Keeps(Len(stack) - 1)
          /\ Top'.pc \in InDirective \cup {"test"}
          /\ \/ UNCHANGED stack
             \/ Top.pc \notin InDirective /\ Top'.pc \notin InDirective
      <4>1. CASE waiting \/ Top.pc \in InDirective
        <5>1. UNCHANGED stack /\ Top.pc \in InDirective \cup {"test"}
          BY <3>1, <4>1 DEF StackInv
        <5>2. Top' = Top BY <5>1 DEF Top
        <5> QED BY <1>2, <1>3, <2>1, <5>1, <5>2
      <4>2. CASE ~ (waiting \/ Top.pc \in InDirective)
        <5>1. Push(Dispatch) /\ ~ waiting /\ Top.pc \notin InDirective BY <3>1, <4>2
        <5>2. /\ Shape' /\ Top' = Dispatch /\ Len(stack') = Len(stack) + 1
              /\ \A i \in 1..Len(stack) : stack'[i] = stack[i]
          BY <1>1, <1>4, <5>1, PushShape
        <5>3. Keeps(Len(stack)) /\ Keeps(Len(stack) - 1) BY <1>1, <5>2, SMT DEF Keeps
        <5>4. StackInv' BY <2>1, <5>1, <5>2 DEF StackInv
        <5> QED BY <1>4, <5>1, <5>2, <5>3, <5>4
      <4> QED BY <4>1, <4>2
    <3>4. \A x \in owed' : Somewhere(x)'
      <4>1. ASSUME NEW x \in s PROVE Somewhere(x)' BY <3>1, <4>1 DEF Somewhere
      <4>2. ASSUME NEW x \in owed PROVE Somewhere(x)'
        BY <1>1, <3>1, <3>3, HeldKept DEF SignalInv, Somewhere
      <4> QED BY <2>1, <4>1, <4>2
    <3>5. Looks(Top.pc)' BY <3>1, <3>3 DEF Looks
    <3>6. signals_pending' # {} /\ is_enabled' =>
            \E i \in 1..Len(stack') : stack'[i].pc = "swap"
      BY <1>1, <2>1, <3>1, <3>3, SwapKept DEF SignalInv, asrVars
    <3>7. SignalInv' BY <3>2, <3>4, <3>5, <3>6 DEF SignalInv
    <3> QED BY <2>1, <3>3, <3>7
  <2> QED BY <2>2, <2>3
<1> QED BY <1>6, <1>7, <1>8, <1>9 DEF SignalCalls

-----------------------------------------------------------------------------
(* The period. *)

States == {"INACTIVE", "ACTIVE", "EXPIRED"} \cup Blocking

\* What each place of rtems_rate_monotonic_period knows; everywhere else the
\* last case applies.
AtPlace(pc) ==
  CASE pc = "begin" -> ~waiting /\ period \notin Blocking
    [] pc = "wait" -> /\ ~waiting
                      /\ \/ period = "OWNER_IS_BLOCKING" /\ ended = 0
                         \/ period = "EXPIRED_WHILE_BLOCKING" /\ ended > 0
    [] pc = "look" -> \/ waiting /\ period = "OWNER_IS_BLOCKING" /\ ended = 0
                      \/ waiting /\ period = "EXPIRED_WHILE_BLOCKING" /\ ended > 0
                      \/ ~waiting /\ period = "OWNER_IS_BLOCKING" /\ ended > 0
    [] pc = "clear" -> waiting /\ period = "ACTIVE" /\ ended > 0
    [] OTHER -> /\ period \notin Blocking
                /\ waiting => period = "ACTIVE" /\ ended = 0

PeriodInv ==
  /\ period \in States /\ left \in Nat /\ ended \in 0..2
  /\ period \in {"ACTIVE"} \cup Blocking => left > 0
  /\ AtPlace(Top.pc)

\* Outside rtems_rate_monotonic_period nothing depends on where the task is.
LEMMA Elsewhere ==
  ASSUME NEW pc, pc \notin InDirective
  PROVE  AtPlace(pc) <=> /\ period \notin Blocking
                         /\ waiting => period = "ACTIVE" /\ ended = 0
BY DEF AtPlace, InDirective

LEMMA ElsewhereNext ==
  ASSUME NEW pc, pc \notin InDirective
  PROVE  AtPlace(pc)' <=> /\ period' \notin Blocking
                          /\ waiting' => period' = "ACTIVE" /\ ended' = 0
BY DEF AtPlace, InDirective

\* The steps of others, and of the signal code
LEMMA PeriodUntouched ==
  ASSUME PeriodInv, UNCHANGED <<waiting, periodVars>>,
         UNCHANGED stack \/ (Top.pc \notin InDirective /\ Top'.pc \notin InDirective)
  PROVE  PeriodInv'
<1>1. UNCHANGED <<waiting, period, left, ended>> BY DEF periodVars
<1>2. AtPlace(Top.pc)'
  <2>1. CASE UNCHANGED stack BY <1>1, <2>1, SMT DEF PeriodInv, AtPlace, Top
  <2>2. CASE Top.pc \notin InDirective /\ Top'.pc \notin InDirective
    <3>1. period \notin Blocking /\ (waiting => period = "ACTIVE" /\ ended = 0)
      BY <2>2, Elsewhere DEF PeriodInv
    <3> QED BY <1>1, <2>2, <3>1, ElsewhereNext, SMT
  <2> QED BY <2>1, <2>2
<1> QED BY <1>1, <1>2 DEF PeriodInv

LEMMA DirectiveMoves ==
  ASSUME StackInv, SignalInv, Top.pc \in InDirective, NEW c \in CallType, Become(c),
         c.pc \in InDirective \cup {"test"}, UNCHANGED signalVars, waiting' \in BOOLEAN
  PROVE  StackInv' /\ SignalInv' /\ Top' = c
<1>1. Shape /\ Len(stack) \in Nat /\ Len(stack) > 0 BY TopType DEF StackInv, Shape
<1>2. /\ Top.pc # "body" /\ Top.pc \notin {"enter", "call", "swap"}
      /\ Top.pc \notin {"check", "reset", "post"}
  BY DEF InDirective
<1>3. Shape' /\ Top' = c /\ Len(stack') = Len(stack) /\ Keeps(Len(stack) - 1)
  BY <1>1, <1>2, BecomeShape, SMT DEF Keeps
<1>4. SignalTypes' BY DEF SignalInv, SignalTypes, signalVars, asrVars, setVars
<1>5. signals_posted # {} => Looks(Top.pc)'
  BY <1>2, <1>3 DEF SignalInv, Looks, signalVars, setVars
<1>6. SignalInv' BY <1>1, <1>2, <1>3, <1>4, <1>5, SetsKept DEF signalVars, asrVars, setVars
<1> QED BY <1>3, <1>6 DEF StackInv

LEMMA PeriodStepKeeps ==
  ASSUME StackInv, SignalInv, PeriodInv, PeriodStep, UNCHANGED signalVars
  PROVE  StackInv' /\ SignalInv' /\ PeriodInv'
<1> USE RateMonotonicAssumption
<1> DEFINE t == Call("test", {}, FALSE)
<1>1. Shape /\ Top \in CallType BY TopType DEF StackInv
<1>2. t \in CallType /\ t.pc = "test" BY OneCall DEF Places, Call
<1>3. ASSUME NEW q \in InDirective
      PROVE  [Top EXCEPT !.pc = q] \in CallType /\ [Top EXCEPT !.pc = q].pc = q
  BY <1>1 DEF CallType, Places
<1>4. Leave = Become(t) BY DEF Leave
<1> HIDE DEF t
<1>5. CASE PeriodBegin
  <2>1. Top.pc = "begin" /\ UNCHANGED <<waiting, exists>> BY <1>5 DEF PeriodBegin, At
  <2>2. ~ waiting /\ period \notin Blocking /\ waiting' \in BOOLEAN
    BY <2>1 DEF PeriodInv, AtPlace, StackInv
  <2>3. CASE period \in {"INACTIVE", "EXPIRED"}
    <3>1. period' = "ACTIVE" /\ left' = Length /\ ended' = 0 /\ Leave
      BY <1>5, <2>3 DEF PeriodBegin
    <3>2. StackInv' /\ SignalInv' /\ Top' = t
      BY <1>2, <1>4, <2>1, <2>2, <3>1, DirectiveMoves DEF InDirective
    <3>3. Top'.pc \notin InDirective BY <1>2, <3>2 DEF InDirective
    <3>4. AtPlace(Top.pc)' BY <2>1, <2>2, <3>1, <3>3, ElsewhereNext DEF Blocking
    <3> QED BY <3>1, <3>2, <3>4, SMT DEF PeriodInv, States
  <2>4. CASE period = "ACTIVE"
    <3> DEFINE c == [Top EXCEPT !.pc = "wait"]
    <3>1. period' = "OWNER_IS_BLOCKING" /\ UNCHANGED left /\ ended' = 0 /\ Become(c)
      BY <1>5, <2>4 DEF PeriodBegin, Goto
    <3>2. c \in CallType /\ c.pc = "wait" BY <1>3 DEF InDirective
    <3> HIDE DEF c
    <3>3. StackInv' /\ SignalInv' /\ Top' = c
      BY <2>1, <2>2, <3>1, <3>2, DirectiveMoves DEF InDirective
    <3>4. AtPlace(Top.pc)' BY <2>1, <2>2, <3>1, <3>2, <3>3 DEF AtPlace
    <3> QED BY <2>4, <3>1, <3>3, <3>4, SMT DEF PeriodInv, States, Blocking
  <2> QED BY <1>5, <2>3, <2>4 DEF PeriodBegin
<1>6. CASE PeriodWait
  <2> DEFINE c == [Top EXCEPT !.pc = "look"]
  <2>1. Top.pc = "wait" /\ UNCHANGED periodVars /\ waiting' = TRUE /\ Become(c)
    BY <1>6 DEF PeriodWait, At, Goto
  <2>2. c \in CallType /\ c.pc = "look" BY <1>3 DEF InDirective
  <2> HIDE DEF c
  <2>3. StackInv' /\ SignalInv' /\ Top' = c
    BY <2>1, <2>2, DirectiveMoves DEF InDirective
  <2>4. \/ period = "OWNER_IS_BLOCKING" /\ ended = 0
        \/ period = "EXPIRED_WHILE_BLOCKING" /\ ended > 0
    BY <2>1 DEF PeriodInv, AtPlace
  <2>5. AtPlace(Top.pc)' BY <2>1, <2>2, <2>3, <2>4 DEF AtPlace, periodVars
  <2> QED BY <2>1, <2>3, <2>5 DEF PeriodInv, periodVars
<1>7. CASE PeriodLook
  <2>1. /\ Top.pc = "look" /\ UNCHANGED <<waiting, exists, left, ended>>
        /\ period' = "ACTIVE" /\ (IF HasExpired THEN Goto("clear") ELSE Leave)
    BY <1>7 DEF PeriodLook, At
  <2>2. \/ waiting /\ period = "OWNER_IS_BLOCKING" /\ ended = 0
        \/ waiting /\ period = "EXPIRED_WHILE_BLOCKING" /\ ended > 0
        \/ ~waiting /\ period = "OWNER_IS_BLOCKING" /\ ended > 0
    BY <2>1 DEF PeriodInv, AtPlace
  <2>3. left > 0 /\ waiting \in BOOLEAN BY <2>2 DEF PeriodInv, Blocking, StackInv
  <2>4. CASE HasExpired
    <3> DEFINE c == [Top EXCEPT !.pc = "clear"]
    <3>1. Become(c) BY <2>1, <2>4 DEF Goto
    <3>2. c \in CallType /\ c.pc = "clear" BY <1>3 DEF InDirective
    <3> HIDE DEF c
    <3>3. StackInv' /\ SignalInv' /\ Top' = c
      BY <2>1, <2>3, <3>1, <3>2, DirectiveMoves DEF InDirective
    <3>4. AtPlace(Top.pc)' BY <2>1, <2>2, <2>4, <3>2, <3>3 DEF AtPlace, HasExpired
    <3> QED BY <2>1, <2>3, <3>3, <3>4 DEF PeriodInv, States
  <2>5. CASE ~ HasExpired
    <3>1. Become(t) BY <1>4, <2>1, <2>5
    <3>2. StackInv' /\ SignalInv' /\ Top' = t
      BY <1>2, <2>1, <2>3, <3>1, DirectiveMoves DEF InDirective
    <3>3. Top'.pc \notin InDirective BY <1>2, <3>2 DEF InDirective
    <3>4. AtPlace(Top.pc)'
      BY <2>1, <2>2, <2>5, <3>3, ElsewhereNext DEF Blocking, HasExpired
    <3> QED BY <2>1, <2>3, <3>2, <3>4 DEF PeriodInv, States
  <2> QED BY <2>4, <2>5
<1>8. CASE PeriodClear
  <2>1. Top.pc = "clear" /\ UNCHANGED periodVars /\ waiting' = FALSE /\ Leave
    BY <1>8 DEF PeriodClear, At
  <2>2. StackInv' /\ SignalInv' /\ Top' = t
    BY <1>2, <1>4, <2>1, DirectiveMoves DEF InDirective
  <2>3. Top'.pc \notin InDirective BY <1>2, <2>2 DEF InDirective
  <2>4. period = "ACTIVE" BY <2>1 DEF PeriodInv, AtPlace
  <2>5. AtPlace(Top.pc)' BY <2>1, <2>3, <2>4, ElsewhereNext DEF Blocking, periodVars
  <2> QED BY <2>1, <2>2, <2>5 DEF PeriodInv, periodVars
<1> QED BY <1>5, <1>6, <1>7, <1>8 DEF PeriodStep

LEMMA PeriodCallsKeep ==
  ASSUME ~ DeleteWaited, StackInv, SignalInv, PeriodInv, PeriodCalls, UNCHANGED signalVars
  PROVE  StackInv' /\ SignalInv' /\ PeriodInv'
<1>1. ASSUME UNCHANGED taskVars PROVE StackInv' /\ SignalInv' /\ UNCHANGED Top
  BY <1>1 DEF taskVars, StackInv, Shape, Top, SignalInv, SignalTypes, Somewhere, Looks,
     signalVars, asrVars, setVars
<1>2. CASE Create \/ Cancel \/ Delete
  <2>1. /\ UNCHANGED <<taskVars, ended>> /\ period' = "INACTIVE" /\ left' = 0
        /\ ~ waiting /\ Top.pc \notin InDirective
    BY <1>2 DEF Create, Cancel, Delete, Application, InDirective
  <2>2. ~ waiting' /\ Top'.pc \notin InDirective BY <1>1, <2>1 DEF taskVars
  <2>3. AtPlace(Top.pc)' BY <2>1, <2>2, ElsewhereNext DEF Blocking
  <2> QED BY <1>1, <2>1, <2>3 DEF PeriodInv, States, Blocking
<1>3. CASE PeriodCall
  <2> DEFINE c == Call("begin", {}, FALSE)
  <2>1. /\ Push(c) /\ UNCHANGED <<waiting, periodVars>>
        /\ ~ waiting /\ Top.pc \in {"body", "handler"}
    BY <1>3 DEF PeriodCall, Application
  <2>2. c \in CallType /\ c.pc = "begin" BY OneCall DEF Call, Places, InDirective
  <2> HIDE DEF c
  <2>3. Top.pc \notin InDirective /\ signals_posted = {}
    BY <2>1 DEF InDirective, SignalInv, Looks
  <2>4. StackInv' /\ SignalInv' /\ Top' = c BY <2>1, <2>2, <2>3, PushKeeps
  <2>5. period \notin Blocking BY <2>3, Elsewhere DEF PeriodInv
  <2>6. AtPlace(Top.pc)' BY <2>1, <2>2, <2>4, <2>5 DEF AtPlace, periodVars
  <2> QED BY <2>1, <2>4, <2>6 DEF PeriodInv, periodVars
<1> QED BY <1>2, <1>3 DEF PeriodCalls

\* A tick finds the task anywhere; the cases are those of the timer's routine.
LEMMA TickKeeps ==
  ASSUME ~ LongCall, StackInv, SignalInv, PeriodInv, Tick, UNCHANGED signalVars
  PROVE  /\ StackInv' /\ SignalInv' /\ PeriodInv'
         /\ waiting /\ ~ waiting' => ended' > 0
         /\ ended > 0 => ended' > 0
<1> USE RateMonotonicAssumption
<1>1. UNCHANGED <<stack, exists>> /\ left > 0 BY DEF Tick
<1>2. UNCHANGED Top BY <1>1 DEF Top
<1>3. ended \in 0..2 /\ left \in Nat /\ period \in States /\ waiting \in BOOLEAN
      /\ AtPlace(Top.pc) /\ (period \in {"ACTIVE"} \cup Blocking => left > 0)
  BY DEF PeriodInv, StackInv
<1>4. SignalInv'
  BY <1>1, <1>2 DEF SignalInv, SignalTypes, Somewhere, Looks, signalVars, asrVars, setVars
<1>5. CASE left > 1
  <2>1. left' = left - 1 /\ UNCHANGED <<waiting, period, ended>> BY <1>5 DEF Tick
  <2>2. AtPlace(Top.pc)' BY <1>2, <1>3, <2>1 DEF AtPlace
  <2>3. PeriodInv' BY <1>3, <1>5, <2>1, <2>2, SMT DEF PeriodInv
  <2>4. StackInv' BY <1>1, <1>2, <2>1 DEF StackInv, Shape
  <2> QED BY <1>4, <2>1, <2>3, <2>4
<1>6. CASE left = 1
  <2>1. /\ ended' = IF ended < 2 THEN ended + 1 ELSE ended
        /\ \/ waiting /\ waiting' = FALSE /\ left' = Length /\ UNCHANGED period
           \/ /\ ~ waiting /\ period = "OWNER_IS_BLOCKING"
              /\ period' = "EXPIRED_WHILE_BLOCKING" /\ left' = Length /\ UNCHANGED waiting
           \/ /\ ~ waiting /\ period # "OWNER_IS_BLOCKING"
              /\ period' = "EXPIRED" /\ left' = 0 /\ UNCHANGED waiting
        /\ ended > 0 => Top.pc \notin InDirective
    BY <1>6, SMT DEF Tick, Unblock, Reset
  <2>2. ended' \in 0..2 /\ ended' > 0 BY <1>3, <2>1, SMT
  <2>3. waiting' \in BOOLEAN /\ (waiting' => waiting)
    <3>1. waiting' = FALSE \/ waiting' = waiting BY <2>1
    <3>2. waiting \in BOOLEAN BY <1>3
    <3>3. CASE waiting' = FALSE BY <3>3
    <3>4. CASE waiting' = waiting BY <3>2, <3>4
    <3> QED BY <3>1, <3>3, <3>4
  <2>4. StackInv' BY <1>1, <1>2, <2>3 DEF StackInv, Shape
  <2>5. AtPlace(Top.pc)'
    <3>1. CASE Top.pc \notin InDirective
      <4>1. period \notin Blocking BY <1>3, <3>1, Elsewhere
      <4>2. ~ waiting' /\ period' \notin Blocking BY <2>1, <4>1, SMT DEF Blocking
      <4> QED BY <1>2, <3>1, <4>2, ElsewhereNext
    <3>2. CASE Top.pc \in InDirective
      <4>1. ended = 0 BY <1>3, <2>1, <3>2, SMT
      <4>2. CASE Top.pc = "begin"
        <5>1. ~ waiting /\ period \notin Blocking BY <1>3, <4>2 DEF AtPlace
        <5> QED BY <1>2, <2>1, <4>2, <5>1, SMT DEF AtPlace, Blocking
      <4>3. CASE Top.pc = "wait"
        <5>1. ~ waiting /\ period = "OWNER_IS_BLOCKING" BY <1>3, <4>1, <4>3, SMT DEF AtPlace
        <5> QED BY <1>2, <2>1, <2>2, <4>3, <5>1, SMT DEF AtPlace
      <4>4. CASE Top.pc = "look"
        <5>1. waiting /\ period = "OWNER_IS_BLOCKING" BY <1>3, <4>1, <4>4, SMT DEF AtPlace
        <5> QED BY <1>2, <2>1, <2>2, <4>4, <5>1 DEF AtPlace
      <4>5. Top.pc # "clear" BY <1>3, <4>1, SMT DEF AtPlace
      <4> QED BY <3>2, <4>2, <4>3, <4>4, <4>5 DEF InDirective
    <3> QED BY <3>1, <3>2
  <2>6. PeriodInv' BY <1>3, <2>1, <2>2, <2>5, SMT DEF PeriodInv, States, Blocking
  <2> QED BY <1>4, <2>2, <2>4, <2>6
<1> QED BY <1>1, <1>3, <1>5, <1>6, SMT

-----------------------------------------------------------------------------
(* The task as a whole. *)

Inv == StackInv /\ SignalInv /\ PeriodInv

\* What the directives on the period and the ticks do to the stack
LEMMA PeriodKeepsSignals ==
  ASSUME StackInv, SignalInv, PeriodStep \/ PeriodCalls \/ Tick, UNCHANGED signalVars
  PROVE  StackInv' /\ SignalInv'
<1> DEFINE t == Call("test", {}, FALSE)
<1>1. Shape /\ Top \in CallType /\ waiting \in BOOLEAN BY TopType DEF StackInv
<1>2. t \in CallType /\ t.pc = "test" BY OneCall DEF Places, Call
<1>3. ASSUME NEW q \in InDirective
      PROVE  [Top EXCEPT !.pc = q] \in CallType /\ [Top EXCEPT !.pc = q].pc = q
  BY <1>1 DEF CallType, Places
<1>4. ASSUME Top.pc \in InDirective, waiting' \in BOOLEAN,
             Leave \/ \E q \in InDirective : Goto(q)
      PROVE  StackInv' /\ SignalInv'
  <2>1. \E c \in CallType : Become(c) /\ c.pc \in InDirective \cup {"test"}
    BY <1>2, <1>3, <1>4 DEF Leave, Goto
  <2> QED BY <1>4, <2>1, DirectiveMoves
<1>5. CASE PeriodBegin
  BY <1>1, <1>4, <1>5 DEF PeriodBegin, At, InDirective
<1>6. CASE PeriodWait BY <1>4, <1>6 DEF PeriodWait, At, InDirective
<1>7. CASE PeriodLook BY <1>1, <1>4, <1>7 DEF PeriodLook, At, InDirective
<1>8. CASE PeriodClear BY <1>4, <1>8 DEF PeriodClear, At, InDirective
<1>9. ASSUME UNCHANGED stack, waiting' \in BOOLEAN, waiting' => waiting
      PROVE  StackInv' /\ SignalInv'
  <2>1. UNCHANGED Top BY <1>9 DEF Top
  <2>2. StackInv' BY <1>9, <2>1 DEF StackInv, Shape
  <2>3. SignalInv'
    BY <1>9, <2>1 DEF SignalInv, SignalTypes, Somewhere, Looks, signalVars, asrVars, setVars
  <2> QED BY <2>2, <2>3
<1>10. CASE Create \/ Cancel \/ Delete
  BY <1>1, <1>9, <1>10 DEF Create, Cancel, Delete, taskVars
<1>11. CASE PeriodCall
  <2> DEFINE c == Call("begin", {}, FALSE)
  <2>1. /\ Push(c) /\ UNCHANGED waiting
        /\ ~ waiting /\ Top.pc \in {"body", "handler"}
    BY <1>11 DEF PeriodCall, Application
  <2>2. c \in CallType /\ c.pc = "begin" BY OneCall DEF Call, Places, InDirective
  <2> HIDE DEF c
  <2>3. Top.pc \notin InDirective /\ signals_posted = {}
    BY <2>1 DEF InDirective, SignalInv, Looks
  <2> QED BY <2>1, <2>2, <2>3, PushKeeps
<1>12. CASE Tick
  <2>1. UNCHANGED stack /\ (waiting' = FALSE \/ waiting' = waiting) BY <1>12 DEF Tick, Unblock
  <2> QED BY <1>1, <1>9, <2>1
<1> QED BY <1>5, <1>6, <1>7, <1>8, <1>10, <1>11, <1>12 DEF PeriodStep, PeriodCalls

LEMMA SignalInvKept ==
  ASSUME StackInv, SignalInv, [Next]_vars
  PROVE  StackInv' /\ SignalInv'
<1>1. CASE SignalStep BY <1>1, SignalStepKeeps
<1>2. CASE SignalCalls BY <1>2, SignalCallsKeep
<1>3. CASE (PeriodStep \/ PeriodCalls \/ Tick) /\ UNCHANGED signalVars
  BY <1>3, PeriodKeepsSignals
<1>4. CASE UNCHANGED vars
  BY <1>4 DEF vars, taskVars, signalVars, asrVars, setVars, StackInv, Shape, Top,
     SignalInv, SignalTypes, Somewhere, Looks
<1> QED BY <1>1, <1>2, <1>3, <1>4 DEF Next, Step, TickStep

LEMMA InvAtStart == ASSUME Init PROVE Inv
<1>1. stack = <<Body>> /\ ~ waiting /\ waiting \in BOOLEAN BY DEF Init, TaskInit
<1>2. Body \in CallType /\ Body.pc = "body" BY OneCall DEF Body, Call, Places
<1> HIDE DEF Body
<1>3. stack \in Seq(CallType) /\ Len(stack) = 1 /\ stack[1] = Body /\ Top = Body
  BY <1>1, <1>2, SMT DEF Top
<1>4. StackInv BY <1>1, <1>2, <1>3, SMT DEF StackInv, Shape
<1>5. SignalInv BY DEF Init, SignalInit, SignalInv, SignalTypes
<1>6. PeriodInv
  BY <1>1, <1>2, <1>3, Elsewhere, SMT DEF Init, PeriodInit, PeriodInv, States, Blocking, InDirective
<1> QED BY <1>4, <1>5, <1>6 DEF Inv

LEMMA InvKept ==
  ASSUME ~ LongCall, ~ DeleteWaited, Inv, [Next]_vars
  PROVE  Inv'
<1>1. CASE SignalStep /\ UNCHANGED periodVars
  <2>1. StackInv' /\ SignalInv' /\ ~ waiting /\ ~ waiting'
        /\ Top.pc \notin InDirective /\ Top'.pc \notin InDirective
    BY <1>1, SignalStepKeeps DEF Inv
  <2>2. UNCHANGED waiting BY <2>1 DEF Inv, StackInv
  <2> QED BY <1>1, <2>1, <2>2, PeriodUntouched DEF Inv
<1>2. CASE SignalCalls /\ UNCHANGED periodVars
  BY <1>2, SignalCallsKeep, PeriodUntouched DEF Inv
<1>3. CASE PeriodStep /\ UNCHANGED signalVars BY <1>3, PeriodStepKeeps DEF Inv
<1>4. CASE PeriodCalls /\ UNCHANGED signalVars BY <1>4, PeriodCallsKeep DEF Inv
<1>5. CASE TickStep BY <1>5, TickKeeps DEF Inv, TickStep
<1>6. CASE UNCHANGED vars
  BY <1>6, SMT DEF vars, taskVars, signalVars, asrVars, setVars, periodVars, Inv, StackInv, Shape, Top,
     SignalInv, SignalTypes, Somewhere, Looks, PeriodInv, AtPlace
<1> QED BY <1>1, <1>2, <1>3, <1>4, <1>5, <1>6 DEF Next, Step

LEMMA SignalInvKeeps == ASSUME StackInv, SignalInv PROVE SignalsKept
<1>1. owed \subseteq signals_posted \cup signals_pending \cup InHand
  <2> SUFFICES ASSUME NEW x \in owed
               PROVE  x \in signals_posted \cup signals_pending \cup InHand
    OBVIOUS
  <2>1. CASE \E i \in 1..Len(stack) : stack[i].pc \in {"enter", "call"} /\ x \in stack[i].set
    <3>1. DOMAIN stack = 1..Len(stack) BY SMT DEF StackInv, Shape
    <3>2. x \in InHand BY <2>1, <3>1 DEF InHand
    <3> QED BY <3>2
  <2> QED BY <2>1 DEF SignalInv, Somewhere
<1>2. ASSUME stack = <<Body>>
      PROVE  signals_posted = {} /\ (is_enabled => signals_pending = {})
  <2>1. Body.pc = "body" BY DEF Body, Call
  <2> HIDE DEF Body
  <2>2. Len(stack) = 1 /\ stack[1] = Body /\ Top = Body BY <1>2 DEF Top
  <2>3. ~ Looks(Top.pc) BY <2>1, <2>2 DEF Looks, InDirective
  <2>4. ~ \E i \in 1..Len(stack) : stack[i].pc = "swap" BY <2>1, <2>2, SMT
  <2> QED BY <2>3, <2>4 DEF SignalInv
<1> QED BY <1>1, <1>2 DEF SignalsKept

\* No signal that rtems_signal_send accepted is lost on its way to the ASR, and
\* none is left behind when the task is back in its body, however sends, mode
\* changes, dispatches and handlers nest.
THEOREM NoSignalLost == Spec => []SignalsKept
<1>1. Init => StackInv /\ SignalInv BY InvAtStart DEF Inv
<1>2. StackInv /\ SignalInv /\ [Next]_vars => StackInv' /\ SignalInv' BY SignalInvKept
<1>3. StackInv /\ SignalInv => SignalsKept BY SignalInvKeeps
<1> QED BY <1>1, <1>2, <1>3, PTL DEF Spec

\* The owner of a period sleeps only while its timer runs to an end that has
\* not passed, and the states of which the directive says that they never happen
\* do not.
THEOREM PeriodNotSleptThrough ==
  ASSUME ~ LongCall, ~ DeleteWaited
  PROVE  Spec => []PeriodWakes
<1>1. Init => Inv BY InvAtStart
<1>2. Inv /\ [Next]_vars => Inv' BY InvKept
<1>3. Inv => PeriodWakes
  <2> SUFFICES ASSUME Inv PROVE PeriodWakes OBVIOUS
  <2>1. ASSUME waiting, Top.pc \notin InDirective
        PROVE  ended = 0 /\ left > 0 /\ period = "ACTIVE"
    BY <2>1, Elsewhere DEF Inv, PeriodInv
  <2>2. ASSUME At("begin") PROVE period \notin Blocking
    BY <2>2 DEF Inv, PeriodInv, AtPlace, At
  <2> QED BY <2>1, <2>2 DEF PeriodWakes
<1> QED BY <1>1, <1>2, <1>3, PTL DEF Spec

\* A call that waits for the end of the period does not return before it.
THEOREM PeriodNotCutShort ==
  ASSUME ~ LongCall, ~ DeleteWaited
  PROVE  Spec => NotBeforeTheEnd
<1> DEFINE Honest == (waiting \/ Top.pc = "look") /\ ~waiting' => ended' > 0
<1>1. Init => Inv BY InvAtStart
<1>2. Inv /\ [Next]_vars => Inv' BY InvKept
<1>3. Inv /\ [Next]_vars => [Honest]_<<taskVars, periodVars>>
  <2> SUFFICES ASSUME Inv, [Next]_vars, waiting \/ Top.pc = "look", ~ waiting'
               PROVE  ended' > 0 \/ UNCHANGED <<taskVars, periodVars>>
    OBVIOUS
  <2>1. waiting => Top.pc \in InDirective \cup {"test"} BY DEF Inv, StackInv
  <2>2. Top.pc = "look" /\ ~ waiting => ended > 0 BY DEF Inv, PeriodInv, AtPlace
  <2>3. Top.pc = "clear" => ended > 0 BY DEF Inv, PeriodInv, AtPlace
  <2>4. CASE TickStep
    BY <2>2, <2>4, TickKeeps DEF Inv, TickStep
  <2>5. CASE SignalStep
    BY <2>1, <2>5, SignalStepKeeps DEF Inv, InDirective
  <2>6. CASE SignalCalls /\ UNCHANGED periodVars
    <3>1. UNCHANGED waiting BY <2>6, SignalCallsKeep DEF Inv
    <3> QED BY <2>2, <2>6, <3>1 DEF periodVars
  <2>7. CASE PeriodStep
    BY <2>2, <2>3, <2>7 DEF PeriodStep, PeriodBegin, PeriodWait, PeriodLook, PeriodClear, At,
       periodVars, Inv, PeriodInv, AtPlace
  <2>8. CASE PeriodCalls
    BY <2>1, <2>2, <2>8 DEF PeriodCalls, Create, Cancel, Delete, PeriodCall, Application,
       InDirective, taskVars, periodVars
  <2>9. CASE UNCHANGED vars BY <2>9 DEF vars
  <2> QED BY <2>4, <2>5, <2>6, <2>7, <2>8, <2>9 DEF Next, Step
<1>4. Spec => [][Honest]_<<taskVars, periodVars>>
  <2> HIDE DEF Honest
  <2> QED BY <1>1, <1>2, <1>3, PTL DEF Spec
<1> QED BY <1>4 DEF NotBeforeTheEnd
=============================================================================
