-------------------------- MODULE ExitHooksProofs --------------------------
(***************************************************************************)
(* Proofs about ExitHooks, for any commands: any number of hooks, which    *)
(* may call one another.                                                   *)
(*                                                                         *)
(* The argument: a hook whose function is under way is its goroutine's     *)
(* (Frames), so nobody else can end it, and it has left exitHooks once it  *)
(* is past "delete" (Listed).  A hook the exit found is to be called, in   *)
(* the stack, or done (Finds).  exitGate is the command's in a step and    *)
(* the signal's from TakeGate on, and the command stops the signals only   *)
(* once it takes no step any more (Gates).  Until then it is in no hook but *)
(* the download's (Cleaning), so nobody has touched the lock (LockKept).   *)
(* That nobody waits in vain has an argument of its own, below.            *)
(***************************************************************************)
EXTENDS ExitHooks, SequenceTheorems, TLAPS

AFrame == [hook : Hook \cup {NoHook}, at : Stage, left : Seq(Hook)]

\* Its sync.Once has let this frame through.
Through(f) == f.at # "enter" /\ f.hook # NoHook

FrameOK(t, f) ==
    /\ f.hook \in Made \cup {NoHook}
    /\ Through(f) => once[f.hook] = t
    /\ f.hook = NoHook => f.at \in {"stop", "caught", "stuck", "done"}
    /\ f.at \in {"stop", "caught", "stuck"} => f.hook \in {NoHook, Stopper}
    /\ t = "main" /\ f.hook \in {NoHook, Stopper} => pc["main"] \in {"defers", "hooks"}
    /\ \A k \in 1 .. Len(f.left) : f.left[k] # Stopper

Apart(s) == \A i, j \in 1 .. Len(s) :
    i # j /\ Through(s[i]) /\ Through(s[j]) => s[i].hook # s[j].hook

Frames == \A t \in Thread :
    /\ \A i \in 1 .. Len(stack[t]) : FrameOK(t, stack[t][i])
    /\ Apart(stack[t])

\* Goroutine t is about to take h out of exitHooks.
Deleting(t, h) == stack[t] # <<>> /\ stack[t][1].hook = h /\ stack[t][1].at = "delete"

Listed ==
    /\ \A h \in listed : once[h] = "ready" \/ \E t \in Thread : once[h] = t /\ Deleting(t, h)
    /\ \A h \in Hook \ Made : once[h] = "ready"

Gates ==
    /\ pc["signal"] \in {"exitnow", "hooks"} <=> gate = "signal"
    /\ pc["main"] = "step" <=> gate = "main"
    /\ stack["signal"] # <<>> => pc["signal"] = "hooks"
    /\ stopped => pc["main"] \in {"defers", "hooks"} \/ pc["signal"] = "hooks"

Finds == \A t \in Thread : pc[t] = "hooks" =>
    \A h \in found[t] :
       h \in todo[t] \/ once[h] = "done" \/ \E i \in 1 .. Len(stack[t]) : stack[t][i].hook = h

\* Until its deferred calls the command is in no hook but the download's.
Cleaning == pc["main"] \notin {"defers", "hooks"} =>
    \A i \in 1 .. Len(stack["main"]) :
       stack["main"][i].hook = Hooks[Len(Hooks)] /\ stack["main"][i].left = <<>>

LockKept == once[Hooks[1]] # "ready" =>
    pc["main"] \in {"defers", "hooks"} \/ pc["signal"] = "hooks"

IInv ==
    /\ TypeOK /\ Frames /\ Listed /\ Gates /\ Finds /\ Cleaning /\ LockKept
    /\ StepsAreWhole /\ FoundHooksFinish

-----------------------------------------------------------------------------
(***************************************************************************)
(* Stacks.                                                                 *)
(***************************************************************************)

\* A frame on top of a stack (Push).
LEMMA PushFacts ==
    ASSUME NEW S, NEW s \in Seq(S), NEW f \in S
    PROVE  LET n == <<f>> \o s
           IN  /\ n \in Seq(S) /\ n # <<>> /\ Len(n) = Len(s) + 1
               /\ n[1] = f
               /\ \A i \in 2 .. Len(n) : i - 1 \in 1 .. Len(s) /\ n[i] = s[i - 1]
               /\ \A i \in 1 .. Len(s) : i + 1 \in 1 .. Len(n) /\ n[i + 1] = s[i]
<1>1. <<f>> \in Seq(S) /\ Len(<<f>>) = 1 /\ <<f>>[1] = f
  OBVIOUS
<1>2. Len(s) \in Nat
  OBVIOUS
<1> QED BY <1>1, <1>2, ConcatProperties

\* The stack without its innermost frame (Pop).
LEMMA PopFacts ==
    ASSUME NEW S, NEW s \in Seq(S), s # <<>>
    PROVE  /\ Tail(s) \in Seq(S) /\ Len(s) \in Nat \ {0} /\ Len(Tail(s)) = Len(s) - 1
           /\ s[1] \in S /\ Head(s) = s[1]
           /\ \A i \in 1 .. Len(Tail(s)) : i + 1 \in 2 .. Len(s) /\ Tail(s)[i] = s[i + 1]
           /\ \A i \in 2 .. Len(s) : i - 1 \in 1 .. Len(Tail(s)) /\ Tail(s)[i - 1] = s[i]
<1>1. Len(s) \in Nat \ {0}
  BY EmptySeq
<1>2. /\ Tail(s) \in Seq(S) /\ Len(Tail(s)) = Len(s) - 1
      /\ \A i \in 1 .. Len(Tail(s)) : Tail(s)[i] = s[i + 1]
  BY HeadTailProperties
<1>3. s[1] \in S /\ Head(s) = s[1]
  BY <1>1
<1>4. \A i \in 1 .. Len(Tail(s)) : i + 1 \in 2 .. Len(s)
  BY <1>1, <1>2
<1>5. \A i \in 2 .. Len(s) : i - 1 \in 1 .. Len(Tail(s)) /\ (i - 1) + 1 = i
  BY <1>1, <1>2
<1> QED BY <1>1, <1>2, <1>3, <1>4, <1>5

\* The innermost frame changed (Replace).
LEMMA ReplaceFacts ==
    ASSUME NEW S, NEW s \in Seq(S), s # <<>>, NEW f \in S
    PROVE  LET n == <<f>> \o Tail(s)
           IN  /\ n \in Seq(S) /\ n # <<>> /\ Len(n) = Len(s)
               /\ Len(s) \in Nat \ {0} /\ s[1] \in S /\ Head(s) = s[1]
               /\ n[1] = f
               /\ \A i \in 2 .. Len(s) : n[i] = s[i]
<1> DEFINE n == <<f>> \o Tail(s)
<1>1. /\ Tail(s) \in Seq(S) /\ Len(s) \in Nat \ {0} /\ Len(Tail(s)) = Len(s) - 1
      /\ s[1] \in S /\ Head(s) = s[1]
      /\ \A i \in 2 .. Len(s) : i - 1 \in 1 .. Len(Tail(s)) /\ Tail(s)[i - 1] = s[i]
  BY PopFacts
<1>2. /\ n \in Seq(S) /\ n # <<>> /\ Len(n) = Len(Tail(s)) + 1
      /\ n[1] = f
      /\ \A i \in 2 .. Len(n) : n[i] = Tail(s)[i - 1]
  BY <1>1, PushFacts
<1> HIDE DEF n
<1>3. Len(n) = Len(s)
  BY <1>1, <1>2
<1>4. \A i \in 2 .. Len(s) : n[i] = s[i]
  BY <1>1, <1>2, <1>3
<1> QED BY <1>1, <1>2, <1>3, <1>4 DEF n

-----------------------------------------------------------------------------
(***************************************************************************)
(* The command, and the kinds of steps.                                    *)
(***************************************************************************)

\* The hooks of the command are hooks, and no two the same.
LEMMA CommandFacts ==
    ASSUME TypeOK
    PROVE  /\ Hooks \in Seq(Hook) /\ Len(Hooks) \in Nat \ {0} /\ made \in 1 .. Len(Hooks)
           /\ \A i \in 1 .. Len(Hooks) : Hooks[i] \in Hook
           /\ \A i, j \in 1 .. Len(Hooks) : Hooks[i] = Hooks[j] => i = j
           /\ Made \subseteq Hook /\ NoHook \notin Hook
           /\ command.calls \in [Hook -> Seq(Hook)]
           /\ \A h \in Hook : \A k \in 1 .. Len(command.calls[h]) : command.calls[h][k] # Stopper
           /\ stack \in [Thread -> Seq(AFrame)]
<1>1. command \in Commands /\ command \in Command
  BY HookConstants DEF TypeOK
<1>2. Hooks \in Seq(Hook) /\ Hooks # <<>> /\ command.calls \in [Hook -> Seq(Hook)]
  BY <1>1 DEF Command, Hooks
<1>3. Len(Hooks) \in Nat \ {0}
  BY <1>2, EmptySeq
<1>4. \A i \in 1 .. Len(Hooks) : Hooks[i] \in Hook
  BY <1>2
<1>5. made \in 1 .. Len(Hooks)
  BY DEF TypeOK
<1>6. Made \subseteq Hook
  BY <1>3, <1>4, <1>5 DEF Made
<1>7. \A i, j \in 1 .. Len(Hooks) : Hooks[i] = Hooks[j] => i = j
  BY <1>1, HookConstants DEF Hooks
<1>8. \A h \in Hook : \A k \in 1 .. Len(command.calls[h]) : command.calls[h][k] # Stopper
  BY <1>1, HookConstants DEF Stopper
<1>9. stack \in [Thread -> Seq(AFrame)]
  BY DEF TypeOK, AFrame
<1> QED BY <1>2, <1>3, <1>4, <1>5, <1>6, <1>7, <1>8, <1>9, HookConstants

\* A step that leaves the stacks, the hooks and the command alone.
Quiet == UNCHANGED <<command, made, listed, once, stack>>

Signals == Signal \/ Kill \/ Catch \/ Dismiss \/ TakeGate

QuietMain == StepIn \/ StepOut \/ Returned \/ Prompt

QuietExit(t) == SetExiting(t) \/ Clone(t) \/ OsExit(t)

QuietStep == UNCHANGED command /\ (Signals \/ QuietMain \/ \E t \in Thread : QuietExit(t))

\* The steps, those that leave the stacks alone together.
LEMMA StepKinds ==
    ASSUME TypeOK, Next
    PROVE  \/ QuietStep
           \/ Register /\ UNCHANGED command
           \/ Finish /\ UNCHANGED command
           \/ \E h \in Hook : Call(h) /\ UNCHANGED command
           \/ \E t \in Thread : NextHook(t) /\ UNCHANGED command
           \/ \E t \in Thread : InHook(t) /\ UNCHANGED command
BY DEF Next, Main, ExitNow, QuietStep, Signals, QuietMain, QuietExit

\* What a quiet step changes.
LEMMA QuietFacts ==
    ASSUME TypeOK, QuietStep
    PROVE  /\ Quiet
           /\ pc["main"] \in {"defers", "hooks"} => pc'["main"] = pc["main"]
<1> USE DEF TypeOK, Idle, Goto, Thread, hooks, exit, signals
<1>1. CASE Signals
  BY <1>1 DEF QuietStep, Quiet, Signals, Signal, Kill, Catch, Dismiss, TakeGate
<1>2. CASE QuietMain
  BY <1>2 DEF QuietStep, Quiet, QuietMain, StepIn, StepOut, Returned, Prompt
<1>3. CASE \E t \in Thread : QuietExit(t)
  BY <1>3 DEF QuietStep, Quiet, QuietExit, SetExiting, Clone, OsExit
<1> QED BY <1>1, <1>2, <1>3 DEF QuietStep

-----------------------------------------------------------------------------
(***************************************************************************)
(* The frames.                                                             *)
(***************************************************************************)

\* The frame a goroutine is in, and what its stack may change to.
LEMMA TopFacts ==
    ASSUME TypeOK, Frames, NEW t \in Thread, stack[t] # <<>>
    PROVE  /\ stack[t] \in Seq(AFrame) /\ Len(stack[t]) \in Nat \ {0}
           /\ Top(t) = stack[t][1] /\ Top(t) \in AFrame
           /\ FrameOK(t, Top(t))
<1>1. stack[t] \in Seq(AFrame)
  BY CommandFacts
<1>2. Len(stack[t]) \in Nat \ {0} /\ stack[t][1] \in AFrame /\ Head(stack[t]) = stack[t][1]
  BY <1>1, PopFacts, Zenon
<1>3. FrameOK(t, stack[t][1])
  BY <1>2 DEF Frames
<1> QED BY <1>1, <1>2, <1>3 DEF Top

\* A step of goroutine t disturbs no frame of the other one.
LEMMA FramesOf ==
    ASSUME TypeOK, Frames, NEW t \in Thread, NEW n \in Seq(AFrame),
           stack' = [stack EXCEPT ![t] = n],
           UNCHANGED <<command, made, pc>>,
           \A u \in Thread \ {t} : \A h \in Hook : once[h] = u => once'[h] = u,
           \A i \in 1 .. Len(n) : FrameOK(t, n[i])',
           Apart(n)
    PROVE  Frames'
<1> SUFFICES ASSUME NEW u \in Thread
             PROVE  (/\ \A i \in 1 .. Len(stack[u]) : FrameOK(u, stack[u][i])
                     /\ Apart(stack[u]))'
  BY DEF Frames
<1>1. stack \in [Thread -> Seq(AFrame)]
  BY CommandFacts
<1>2. CASE u = t
  <2>1. stack'[u] = n
    BY <1>1, <1>2
  <2> QED BY <2>1, <1>2 DEF Apart, Through
<1>3. CASE u # t
  <2> PICK m : m = stack[u]
    OBVIOUS
  <2>1. stack'[u] = m
    BY <1>1, <1>3
  <2>2. ASSUME NEW i \in 1 .. Len(m) PROVE FrameOK(u, m[i])'
    <3>1. FrameOK(u, m[i])
      BY DEF Frames
    <3>2. m[i].hook \in Hook \cup {NoHook}
      BY <3>1, CommandFacts DEF FrameOK
    <3>3. Through(m[i]) => once'[m[i].hook] = u
      BY <3>1, <3>2, <1>3 DEF FrameOK, Through
    <3> QED BY <3>1, <3>3 DEF FrameOK, Made, Hooks, Stopper
  <2>3. Apart(m)
    BY DEF Frames
  <2> QED BY <2>1, <2>2, <2>3 DEF Apart, Through
<1> QED BY <1>2, <1>3

\* The innermost hook of t goes on, in its function.
LEMMA FramesReplace ==
    ASSUME TypeOK, Frames, NEW t \in Thread, stack[t] # <<>>, NEW g \in AFrame,
           Replace(t, g),
           UNCHANGED <<command, made, once, pc>>,
           g.hook = Top(t).hook, Top(t).at # "enter",
           g.hook = NoHook => g.at \in {"stop", "caught", "stuck", "done"},
           g.at \in {"stop", "caught", "stuck"} => g.hook \in {NoHook, Stopper},
           \A k \in 1 .. Len(g.left) : g.left[k] # Stopper
    PROVE  Frames'
<1> PICK s : s = stack[t]
  OBVIOUS
<1> PICK n : n = <<g>> \o Tail(s)
  OBVIOUS
<1>1. /\ s \in Seq(AFrame) /\ Len(s) \in Nat \ {0} /\ Top(t) = s[1] /\ FrameOK(t, s[1])
  BY TopFacts
<1>2. /\ n \in Seq(AFrame) /\ Len(n) = Len(s) /\ n[1] = g
      /\ \A i \in 2 .. Len(s) : n[i] = s[i]
  BY <1>1, ReplaceFacts
<1>3. stack' = [stack EXCEPT ![t] = n]
  BY DEF Replace
<1>4. FrameOK(t, g)'
  BY <1>1 DEF FrameOK, Through, Made, Hooks, Stopper
<1>5. ASSUME NEW i \in 1 .. Len(n) PROVE FrameOK(t, n[i])'
  <2>1. CASE i = 1
    BY <2>1, <1>2, <1>4
  <2>2. CASE i # 1
    <3>1. i \in 1 .. Len(s) /\ n[i] = s[i]
      BY <2>2, <1>1, <1>2
    <3>2. FrameOK(t, s[i])
      BY <3>1 DEF Frames
    <3>3. FrameOK(t, s[i])'
      BY <3>2 DEF FrameOK, Through, Made, Hooks, Stopper
    <3> QED BY <3>1, <3>3
  <2> QED BY <2>1, <2>2
<1>6. Apart(n)
  <2>1. Apart(s)
    BY DEF Frames
  <2>2. \A i \in 1 .. Len(n) : n[i].hook = s[i].hook /\ (Through(n[i]) => Through(s[i]))
    BY <1>1, <1>2 DEF Through
  <2> SUFFICES ASSUME NEW i \in 1 .. Len(n), NEW j \in 1 .. Len(n), i # j,
                      Through(n[i]), Through(n[j])
               PROVE  n[i].hook # n[j].hook
    BY DEF Apart
  <2>3. i \in 1 .. Len(s) /\ j \in 1 .. Len(s)
    BY <1>2
  <2>4. Through(s[i]) /\ Through(s[j]) /\ n[i].hook = s[i].hook /\ n[j].hook = s[j].hook
    BY <2>2
  <2> QED BY <2>1, <2>3, <2>4 DEF Apart
<1> QED BY <1>2, <1>3, <1>5, <1>6, FramesOf

\* A hook that is called and not through its Once yet is apart from all others.
LEMMA ApartPush ==
    ASSUME NEW s, NEW n, Len(s) \in Nat, Len(n) = Len(s) + 1, Apart(s), ~ Through(n[1]),
           \A i \in 2 .. Len(n) : i - 1 \in 1 .. Len(s) /\ n[i] = s[i - 1]
    PROVE  Apart(n)
<1> SUFFICES ASSUME NEW i \in 1 .. Len(n), NEW j \in 1 .. Len(n), i # j,
                    n[i].at # "enter", n[i].hook # NoHook,
                    n[j].at # "enter", n[j].hook # NoHook
             PROVE  n[i].hook # n[j].hook
  BY DEF Apart, Through
<1>1. i # 1 /\ j # 1
  BY DEF Through
<1>2. i - 1 \in 1 .. Len(s) /\ j - 1 \in 1 .. Len(s) /\ i - 1 # j - 1
      /\ n[i] = s[i - 1] /\ n[j] = s[j - 1]
  BY <1>1
<1> QED BY <1>2 DEF Apart, Through

\* So is the innermost one, if it is not that of a frame below.
LEMMA ApartReplace ==
    ASSUME NEW s, NEW n, Len(s) \in Nat, Len(n) = Len(s), Apart(s),
           \A i \in 2 .. Len(n) : n[i] = s[i] /\ (Through(n[i]) => n[i].hook # n[1].hook)
    PROVE  Apart(n)
<1> SUFFICES ASSUME NEW i \in 1 .. Len(n), NEW j \in 1 .. Len(n), i # j,
                    n[i].at # "enter", n[i].hook # NoHook,
                    n[j].at # "enter", n[j].hook # NoHook
             PROVE  n[i].hook # n[j].hook
  BY DEF Apart, Through
<1>1. CASE i = 1 \/ j = 1
  BY <1>1 DEF Through
<1>2. CASE i # 1 /\ j # 1
  <2>1. n[i] = s[i] /\ n[j] = s[j] /\ i \in 1 .. Len(s) /\ j \in 1 .. Len(s)
    BY <1>2
  <2> QED BY <2>1 DEF Apart, Through
<1> QED BY <1>1, <1>2

\* A hook is called: its frame waits at its Once, or is stop() (Push).
LEMMA FramesPush ==
    ASSUME TypeOK, Frames, NEW t \in Thread, NEW g \in AFrame,
           Push(t, g), UNCHANGED <<command, made, once>>,
           \A f \in AFrame : FrameOK(t, f) => FrameOK(t, f)',
           \A u \in Thread \ {t} : \A f \in AFrame : FrameOK(u, f) => FrameOK(u, f)',
           FrameOK(t, g)', ~ Through(g)
    PROVE  Frames'
<1> PICK s : s = stack[t]
  OBVIOUS
<1> PICK n : n = <<g>> \o s
  OBVIOUS
<1>1. s \in Seq(AFrame) /\ Apart(s) /\ stack \in [Thread -> Seq(AFrame)] /\ Len(s) \in Nat
  BY CommandFacts DEF Frames
<1>2. /\ n \in Seq(AFrame) /\ Len(n) = Len(s) + 1 /\ n[1] = g
      /\ \A i \in 2 .. Len(n) : i - 1 \in 1 .. Len(s) /\ n[i] = s[i - 1]
  BY <1>1, PushFacts
<1>3. stack'[t] = n /\ \A u \in Thread \ {t} : stack'[u] = stack[u]
  BY <1>1 DEF Push
<1>4. ASSUME NEW i \in 1 .. Len(n) PROVE FrameOK(t, n[i])'
  <2>1. CASE i = 1
    BY <2>1, <1>2
  <2>2. CASE i # 1
    <3>1. i - 1 \in 1 .. Len(s) /\ n[i] = s[i - 1] /\ s[i - 1] \in AFrame
      BY <2>2, <1>1, <1>2
    <3>2. FrameOK(t, s[i - 1])
      BY <3>1 DEF Frames
    <3> QED BY <3>1, <3>2
  <2> QED BY <2>1, <2>2
<1>5. Apart(n)
  BY <1>1, <1>2, ApartPush
<1> SUFFICES ASSUME NEW u \in Thread
             PROVE  (/\ \A i \in 1 .. Len(stack[u]) : FrameOK(u, stack[u][i])
                     /\ Apart(stack[u]))'
  BY DEF Frames
<1>6. CASE u = t
  <2>1. stack'[u] = n
    BY <1>3, <1>6
  <2> QED BY <2>1, <1>4, <1>5, <1>6 DEF Apart, Through
<1>7. CASE u # t
  <2> PICK m : m = stack[u]
    OBVIOUS
  <2>1. \A i \in 1 .. Len(m) : m[i] \in AFrame /\ FrameOK(u, m[i])
    BY <1>1 DEF Frames
  <2>2. \A i \in 1 .. Len(m) : FrameOK(u, m[i])'
    BY <2>1, <1>7
  <2>3. Apart(m) /\ stack'[u] = m
    BY <1>3, <1>7 DEF Frames
  <2> QED BY <2>2, <2>3 DEF Apart, Through
<1> QED BY <1>6, <1>7

\* The innermost hook returns, done by now or not t's to begin (Pop).
LEMMA FramesPop ==
    ASSUME TypeOK, Frames, NEW t \in Thread, stack[t] # <<>>,
           Pop(t), UNCHANGED <<command, made, pc>>,
           \A h \in Hook \ {Top(t).hook} : once'[h] = once[h],
           once'[Top(t).hook] = once[Top(t).hook] \/ Through(Top(t)) \/ Top(t).hook = NoHook
    PROVE  Frames'
<1> PICK s : s = stack[t]
  OBVIOUS
<1> PICK n : n = Tail(s)
  OBVIOUS
<1> PICK f : f = Top(t)
  OBVIOUS
<1>1. /\ s \in Seq(AFrame) /\ Len(s) \in Nat \ {0} /\ f = s[1] /\ f \in AFrame
      /\ FrameOK(t, f) /\ Apart(s)
  BY TopFacts DEF Frames
<1>2. /\ n \in Seq(AFrame) /\ Len(n) = Len(s) - 1
      /\ \A i \in 1 .. Len(n) : i + 1 \in 2 .. Len(s) /\ n[i] = s[i + 1]
  BY <1>1, PopFacts
<1>3. stack' = [stack EXCEPT ![t] = n]
  BY DEF Pop
<1>4. ASSUME NEW i \in 1 .. Len(n) PROVE FrameOK(t, n[i])'
  <2> PICK g : g = n[i]
    OBVIOUS
  <2>1. i + 1 \in 1 .. Len(s) /\ i + 1 # 1 /\ g = s[i + 1]
    BY <1>1, <1>2
  <2>2. FrameOK(t, g)
    BY <2>1 DEF Frames
  <2>3. Through(g) => once'[g.hook] = t
    <3> SUFFICES ASSUME Through(g) PROVE once'[g.hook] = t
      OBVIOUS
    <3>1. once[g.hook] = t /\ g.hook \in Hook
      BY <2>2, CommandFacts DEF FrameOK, Through
    <3>2. CASE Through(f)
      <4>1. g.hook # f.hook
        BY <3>2, <2>1, <1>1 DEF Apart, Through
      <4> QED BY <4>1, <3>1
    <3>3. CASE ~ Through(f)
      BY <3>1, <3>3, HookConstants
    <3> QED BY <3>2, <3>3
  <2> QED BY <2>2, <2>3 DEF FrameOK, Made, Hooks, Stopper
<1>5. Apart(n)
  <2> SUFFICES ASSUME NEW i \in 1 .. Len(n), NEW j \in 1 .. Len(n), i # j,
                      n[i].at # "enter", n[i].hook # NoHook,
                      n[j].at # "enter", n[j].hook # NoHook
               PROVE  n[i].hook # n[j].hook
    BY DEF Apart, Through
  <2>1. i + 1 \in 1 .. Len(s) /\ j + 1 \in 1 .. Len(s) /\ i + 1 # j + 1
        /\ n[i] = s[i + 1] /\ n[j] = s[j + 1]
    BY <1>1, <1>2
  <2> QED BY <2>1, <1>1 DEF Apart, Through
<1>6. \A u \in Thread \ {t} : \A h \in Hook : once[h] = u => once'[h] = u
  BY <1>1, HookConstants DEF FrameOK
<1> QED BY <1>2, <1>3, <1>4, <1>5, <1>6, FramesOf

-----------------------------------------------------------------------------
(***************************************************************************)
(* The steps within a hook: the types, the frames and exitHooks.           *)
(***************************************************************************)

Whole == TypeOK /\ Frames /\ Listed

\* What a step within a hook leaves alone.
LEMMA RestType ==
    ASSUME TypeOK, NEW t \in Thread, NEW n \in Seq(AFrame),
           stack' = [stack EXCEPT ![t] = n],
           UNCHANGED <<command, made, pc, todo, found, gate, pending, caught, exiting, ended>>,
           stopped' \in BOOLEAN,
           once' \in [Hook -> {"ready", "done"} \cup Thread],
           listed' \subseteq {h \in Made : once'[h] # "done"}
    PROVE  TypeOK'
<1>1. stack' \in [Thread -> Seq(AFrame)]
  BY CommandFacts
<1>2. <<pending, caught, stopped, exiting>>' \in BOOLEAN \X BOOLEAN \X BOOLEAN \X BOOLEAN
  <2>1. pending \in BOOLEAN /\ caught \in BOOLEAN /\ exiting \in BOOLEAN
    BY DEF TypeOK
  <2> QED BY <2>1
<1>3. Made' = Made /\ Len(Hooks)' = Len(Hooks)
  BY DEF Made, Hooks
<1> QED BY <1>1, <1>2, <1>3 DEF TypeOK, AFrame

\* A hook in exitHooks is ready, or deleted from it next by the goroutine
\* that is in its Once: a step that moves neither keeps it so.
LEMMA ListedKept ==
    ASSUME TypeOK, Listed, NEW t \in Thread, NEW n \in Seq(AFrame),
           stack' = [stack EXCEPT ![t] = n],
           UNCHANGED <<command, made, once>>, listed' \subseteq listed,
           \A h \in listed' : ~ Deleting(t, h)
    PROVE  Listed'
<1>1. \A u \in Thread \ {t} : stack'[u] = stack[u]
  BY CommandFacts
<1>2. \A h \in listed' : once[h] = "ready" \/ \E u \in Thread \ {t} : once[h] = u /\ Deleting(u, h)
  BY DEF Listed
<1>3. \A u \in Thread \ {t} : \A h \in listed' : Deleting(u, h) => Deleting(u, h)'
  BY <1>1 DEF Deleting
<1> QED BY <1>2, <1>3 DEF Listed, Made, Hooks

\* A hook that is past "enter" goes on in its function; exitHooks may lose it.
LEMMA MoveWhole ==
    ASSUME Whole, NEW t \in Thread, stack[t] # <<>>, NEW g \in AFrame,
           Replace(t, g),
           UNCHANGED <<command, made, once, pc>>,
           UNCHANGED <<todo, found, gate, pending, caught, exiting, ended>>,
           stopped' \in BOOLEAN, listed' \subseteq listed,
           g.hook = Top(t).hook, Top(t).at # "enter",
           Top(t).at = "delete" => g.hook \notin listed',
           g.hook = NoHook => g.at \in {"stop", "caught", "stuck", "done"},
           g.at \in {"stop", "caught", "stuck"} => g.hook \in {NoHook, Stopper},
           \A k \in 1 .. Len(g.left) : g.left[k] # Stopper
    PROVE  Whole'
<1> USE DEF Whole
<1>1. Frames'
  BY FramesReplace
<1> PICK n : n = <<g>> \o Tail(stack[t])
  OBVIOUS
<1>2. n \in Seq(AFrame) /\ stack' = [stack EXCEPT ![t] = n]
  BY TopFacts, ReplaceFacts DEF Replace
<1>3. TypeOK'
  <2>1. listed' \subseteq {h \in Made : once'[h] # "done"}
    BY DEF TypeOK
  <2>2. once' \in [Hook -> {"ready", "done"} \cup Thread]
    BY DEF TypeOK
  <2> QED BY <1>2, <2>1, <2>2, RestType
<1>4. \A h \in listed' : ~ Deleting(t, h)
  BY TopFacts DEF Deleting
<1>5. Listed'
  BY <1>2, <1>4, ListedKept
<1> QED BY <1>1, <1>3, <1>5

\* sync.Once lets one goroutine in.
LEMMA EnterWhole ==
    ASSUME Whole, NEW t \in Thread, Enter(t), UNCHANGED command
    PROVE  Whole'
<1> USE DEF Whole
<1> PICK f : f = Top(t)
  OBVIOUS
<1>1. /\ stack[t] # <<>> /\ f.at = "enter" /\ f \in AFrame /\ FrameOK(t, f)
      /\ f.hook \in Hook /\ f = stack[t][1] /\ stack[t] \in Seq(AFrame)
  BY TopFacts, CommandFacts DEF Enter, In, Top, FrameOK
<1>2. UNCHANGED <<made, listed, pc, todo, found, gate, pending, caught, stopped, exiting, ended>>
  BY DEF Enter, signals, exit
<1>3. stopped' \in BOOLEAN /\ once \in [Hook -> {"ready", "done"} \cup Thread]
  BY <1>2 DEF TypeOK
<1>4. \A h \in listed : ~ Deleting(t, h)
  BY <1>1 DEF Deleting
<1>5. CASE once[f.hook] = "ready" /\ once' = [once EXCEPT ![f.hook] = t] /\ Move(t, "delete")
  <2>8. PICK g : g = [f EXCEPT !.at = "delete"]
    OBVIOUS
  <2>9. PICK n : n = <<g>> \o Tail(stack[t])
    OBVIOUS
  <2>1. g \in AFrame /\ g.hook = f.hook /\ g.at = "delete" /\ g.left = f.left
    BY <1>1, <2>8 DEF AFrame, Stage
  <2>2. /\ n \in Seq(AFrame) /\ Len(n) = Len(stack[t]) /\ n[1] = g
        /\ \A i \in 2 .. Len(n) : n[i] = stack[t][i]
        /\ n # <<>> /\ Len(n) \in Nat \ {0}
    BY <1>1, <2>1, <2>9, ReplaceFacts
  <2>3. stack' = [stack EXCEPT ![t] = n]
    BY <1>5, <2>8, <2>9 DEF Move, Replace
  <2>4. once' \in [Hook -> {"ready", "done"} \cup Thread] /\ once'[f.hook] = t
        /\ \A h \in Hook \ {f.hook} : once'[h] = once[h]
    BY <1>1, <1>3, <1>5
  <2>5. TypeOK'
    <3>1. t # "done"
      BY DEF Thread
    <3>2. listed' \subseteq {h \in Made : once'[h] # "done"}
      BY <1>2, <2>4, <3>1, CommandFacts DEF TypeOK
    <3> QED BY <1>2, <1>3, <2>2, <2>3, <2>4, <3>2, RestType
  <2>6. Frames'
    <3>1. \A u \in Thread : "ready" # u
      BY DEF Thread
    <3>2. ASSUME NEW i \in 1 .. Len(n), i # 1
          PROVE  FrameOK(t, stack[t][i]) /\ n[i] = stack[t][i]
      BY <3>2, <2>2 DEF Frames
    <3>3. ASSUME NEW i \in 1 .. Len(n), i # 1, Through(n[i])
          PROVE  once[n[i].hook] = t /\ n[i].hook \in Hook /\ n[i].hook # f.hook
      <4>1. PICK m : m = n[i]
        OBVIOUS
      <4>2. FrameOK(t, m) /\ Through(m)
        BY <3>2, <3>3, <4>1
      <4>3. once[m.hook] = t /\ m.hook \in Hook
        BY <4>2, CommandFacts DEF FrameOK, Through
      <4>4. m.hook # f.hook
        BY <4>3, <3>1, <1>5
      <4> QED BY <4>1, <4>3, <4>4
    <3>4. ASSUME NEW i \in 1 .. Len(n) PROVE FrameOK(t, n[i])'
      <4>1. CASE i = 1
        <5>1. once'[g.hook] = t
          BY <2>1, <2>4
        <5>2. FrameOK(t, g)'
          BY <1>1, <1>2, <2>1, <5>1 DEF FrameOK, Through, Made, Hooks, Stopper
        <5> QED BY <5>2, <4>1, <2>2
      <4>2. CASE i # 1
        <5> PICK m : m = n[i]
          OBVIOUS
        <5>1. FrameOK(t, m) /\ (Through(m) => once'[m.hook] = t)
          BY <3>2, <3>3, <4>2, <2>4
        <5> QED BY <5>1, <1>2 DEF FrameOK, Made, Hooks, Stopper
      <4> QED BY <4>1, <4>2
    <3>5. Apart(n)
      <4>1. \A i \in 2 .. Len(n) : n[i] = stack[t][i] /\ (Through(n[i]) => n[i].hook # n[1].hook)
        BY <3>3, <2>1, <2>2
      <4>2. Apart(stack[t])
        BY DEF Frames
      <4> QED BY <4>1, <4>2, <2>2, ApartReplace
    <3>6. \A u \in Thread \ {t} : \A h \in Hook : once[h] = u => once'[h] = u
      BY <2>4, <3>1, <1>5
    <3> QED BY <1>2, <2>2, <2>3, <3>4, <3>5, <3>6, FramesOf
  <2>7. Listed'
    <3>1. stack'[t] = n /\ \A u \in Thread \ {t} : stack'[u] = stack[u]
      BY <2>3, CommandFacts
    <3>2. ASSUME NEW h \in listed'
          PROVE  once'[h] = "ready" \/ \E u \in Thread : once'[h] = u /\ Deleting(u, h)'
      <4>1. h \in Hook /\ h \in listed
        BY <1>2, CommandFacts DEF TypeOK
      <4>2. CASE h = f.hook
        <5>1. Deleting(t, h)'
          BY <4>2, <2>1, <2>2, <3>1 DEF Deleting
        <5>2. once'[h] = t
          BY <4>2, <2>4
        <5> QED BY <5>1, <5>2
      <4>3. CASE h # f.hook
        <5>1. once'[h] = once[h]
          BY <4>1, <4>3, <2>4
        <5>2. \A u \in Thread : Deleting(u, h) => u # t /\ Deleting(u, h)'
          BY <1>4, <3>1, <4>1 DEF Deleting
        <5> QED BY <5>1, <5>2, <4>1 DEF Listed
      <4> QED BY <4>2, <4>3
    <3>3. f.hook \in Made
      BY <1>1, HookConstants DEF FrameOK
    <3> QED BY <3>2, <3>3, <1>2, <2>4 DEF Listed, Made, Hooks
  <2> QED BY <2>5, <2>6, <2>7
<1>6. CASE once[f.hook] = "done" /\ Pop(t) /\ UNCHANGED once
  <2> PICK n : n = Tail(stack[t])
    OBVIOUS
  <2>1. n \in Seq(AFrame) /\ stack' = [stack EXCEPT ![t] = n]
    BY <1>1, <1>6, PopFacts DEF Pop
  <2>2. listed' \subseteq {h \in Made : once'[h] # "done"}
    BY <1>2, <1>6 DEF TypeOK
  <2>3. TypeOK'
    BY <1>2, <1>3, <1>6, <2>1, <2>2, RestType
  <2>4. Frames'
    BY <1>1, <1>2, <1>6, FramesPop
  <2>5. Listed'
    BY <1>2, <1>4, <1>6, <2>1, ListedKept
  <2> QED BY <2>3, <2>4, <2>5
<1> QED BY <1>5, <1>6 DEF Enter

\* The frame a goroutine goes on in.
LEMMA InFacts ==
    ASSUME Whole, NEW t \in Thread, NEW at \in Stage, In(t, at)
    PROVE  /\ stack[t] # <<>> /\ Top(t).at = at /\ Top(t) \in AFrame /\ FrameOK(t, Top(t))
           /\ at \in {"enter", "delete", "calls", "body"} => Top(t).hook \in Hook
           /\ Top(t) = stack[t][1] /\ stack[t] \in Seq(AFrame)
BY TopFacts, CommandFacts DEF In, Top, FrameOK, Whole

\* The same frame at another stage.
LEMMA MoveFacts ==
    ASSUME NEW f \in AFrame, NEW at \in Stage
    PROVE  LET g == [f EXCEPT !.at = at]
           IN  g \in AFrame /\ g.hook = f.hook /\ g.at = at /\ g.left = f.left
BY DEF AFrame

\* The step leaves exitHooks, and nothing else changes.
LEMMA DeleteWhole ==
    ASSUME Whole, NEW t \in Thread, Delete(t), UNCHANGED command
    PROVE  Whole'
<1>1. /\ stack[t] # <<>> /\ Top(t).at = "delete" /\ Top(t) \in AFrame /\ FrameOK(t, Top(t))
      /\ Top(t).hook \in Hook
  BY InFacts DEF Delete, Stage
<1>2. PICK g : g = [Top(t) EXCEPT !.at = "calls"]
  OBVIOUS
<1>3. g \in AFrame /\ g.hook = Top(t).hook /\ g.at = "calls" /\ g.left = Top(t).left
  BY <1>1, <1>2, MoveFacts DEF Stage
<1>4. /\ UNCHANGED <<command, made, once, pc, todo, found, gate, pending, caught, stopped, exiting, ended>>
      /\ listed' \subseteq listed /\ g.hook \notin listed' /\ Replace(t, g)
  BY <1>2, <1>3 DEF Delete, Move, signals, exit
<1>5. stopped' \in BOOLEAN
  BY <1>4 DEF Whole, TypeOK
<1>6. g.hook # NoHook /\ g.at \notin {"stop", "caught", "stuck"} /\ \A k \in 1 .. Len(g.left) : g.left[k] # Stopper
  BY <1>1, <1>3, HookConstants DEF FrameOK
<1> QED BY <1>1, <1>3, <1>4, <1>5, <1>6, MoveWhole

\* A step that only changes the stage of the frame, to one in the function,
\* and possibly stops the signals.
LEMMA StageWhole ==
    ASSUME Whole, NEW t \in Thread, NEW from \in Stage \ {"enter", "delete"}, NEW to \in Stage,
           In(t, from), Move(t, to),
           UNCHANGED <<command, made, listed, once, pc, todo, found, gate, pending, caught,
                       exiting, ended>>,
           stopped' \in BOOLEAN,
           Top(t).hook = NoHook => to \in {"stop", "caught", "stuck", "done"},
           to \in {"stop", "caught", "stuck"} => Top(t).hook \in {NoHook, Stopper}
    PROVE  Whole'
<1>1. /\ stack[t] # <<>> /\ Top(t).at = from /\ Top(t) \in AFrame /\ FrameOK(t, Top(t))
  BY InFacts
<1>2. PICK g : g = [Top(t) EXCEPT !.at = to]
  OBVIOUS
<1>3. g \in AFrame /\ g.hook = Top(t).hook /\ g.at = to /\ g.left = Top(t).left
  BY <1>1, <1>2, MoveFacts
<1>4. Replace(t, g) /\ listed' \subseteq listed /\ from # "enter" /\ from # "delete"
  BY <1>2 DEF Move
<1>5. \A k \in 1 .. Len(g.left) : g.left[k] # Stopper
  BY <1>1, <1>3 DEF FrameOK
<1> QED BY <1>1, <1>3, <1>4, <1>5, MoveWhole

\* The hooks a function calls are called one after the other; one that does
\* not exist yet is passed over.
LEMMA CallNextWhole ==
    ASSUME Whole, NEW t \in Thread, CallNext(t), UNCHANGED command
    PROVE  Whole'
<1> PICK f : f = Top(t)
  OBVIOUS
<1>1. /\ stack[t] # <<>> /\ f.at = "calls" /\ f \in AFrame /\ FrameOK(t, f)
      /\ f.hook \in Hook /\ f.hook # NoHook /\ f = stack[t][1] /\ stack[t] \in Seq(AFrame)
      /\ In(t, "calls")
  BY InFacts, HookConstants DEF CallNext, Stage
<1>2. UNCHANGED <<command, made, listed, once, pc, todo, found, gate, pending, caught, stopped,
                  exiting, ended>>
  BY DEF CallNext, hooks, signals, exit
<1>3. stopped' \in BOOLEAN
  BY <1>2 DEF Whole, TypeOK
<1>4. CASE Move(t, "body")
  BY <1>1, <1>2, <1>3, <1>4, StageWhole DEF Stage
<1>5. PICK g : g = [f EXCEPT !.left = Tail(f.left)]
  OBVIOUS
<1>6. ASSUME f.left # <<>>
      PROVE  /\ g \in AFrame /\ g.hook = f.hook /\ g.at = "calls"
             /\ \A k \in 1 .. Len(g.left) : g.left[k] # Stopper
             /\ Head(f.left) \in Hook /\ Head(f.left) # Stopper
  <2>1. f.left \in Seq(Hook) /\ Tail(f.left) \in Seq(Hook)
    BY <1>1, <1>6, PopFacts DEF AFrame
  <2>2. g \in AFrame /\ g.hook = f.hook /\ g.at = "calls" /\ g.left = Tail(f.left)
    BY <1>1, <1>5, <2>1 DEF AFrame
  <2>3. \A k \in 1 .. Len(g.left) : k + 1 \in 1 .. Len(f.left) /\ g.left[k] = f.left[k + 1]
    BY <1>6, <2>1, <2>2, PopFacts
  <2>4. \A k \in 1 .. Len(f.left) : f.left[k] # Stopper
    BY <1>1 DEF FrameOK
  <2>5. Head(f.left) = f.left[1] /\ 1 \in 1 .. Len(f.left) /\ Head(f.left) \in Hook
    BY <1>6, <2>1, PopFacts
  <2> QED BY <2>2, <2>3, <2>4, <2>5
<1>7. CASE f.left # <<>> /\ Replace(t, g)
  BY <1>1, <1>2, <1>3, <1>6, <1>7, MoveWhole
<1>8. CASE /\ f.left # <<>> /\ Head(f.left) \in Made
           /\ stack' = [stack EXCEPT ![t] = <<Frame(Head(f.left), "enter")>> \o (<<g>> \o Tail(@))]
  <2>1. PICK c : c = Frame(Head(f.left), "enter")
    OBVIOUS
  <2>2. PICK m : m = <<g>> \o Tail(stack[t])
    OBVIOUS
  <2>3. PICK n : n = <<c>> \o m
    OBVIOUS
  <2>4. /\ c \in AFrame /\ c.at = "enter" /\ c.hook = Head(f.left)
        /\ c.left = command.calls[Head(f.left)]
    BY <1>6, <1>8, <2>1, CommandFacts DEF Frame, AFrame, Stage, Whole
  <2>5. /\ m \in Seq(AFrame) /\ Len(m) = Len(stack[t]) /\ m[1] = g
        /\ Len(m) \in Nat \ {0}
        /\ \A i \in 2 .. Len(m) : m[i] = stack[t][i]
    BY <1>1, <1>6, <1>8, <2>2, ReplaceFacts
  <2>6. /\ n \in Seq(AFrame) /\ Len(n) = Len(m) + 1 /\ n[1] = c
        /\ \A i \in 2 .. Len(n) : i - 1 \in 1 .. Len(m) /\ n[i] = m[i - 1]
    BY <2>3, <2>4, <2>5, PushFacts
  <2>7. stack' = [stack EXCEPT ![t] = n]
    BY <1>8, <2>1, <2>2, <2>3
  <2>8. FrameOK(t, c)'
    <3>1. c.hook \in Made /\ c.hook # NoHook /\ c.hook # Stopper
      BY <1>6, <1>8, <2>4, HookConstants
    <3>2. \A k \in 1 .. Len(c.left) : c.left[k] # Stopper
      BY <1>6, <1>8, <2>4, CommandFacts DEF Whole
    <3> QED BY <1>2, <2>4, <3>1, <3>2 DEF FrameOK, Through, Made, Hooks, Stopper
  <2>9. FrameOK(t, g)'
    BY <1>1, <1>2, <1>6, <1>8 DEF FrameOK, Through, Made, Hooks, Stopper
  <2>10. ASSUME NEW i \in 1 .. Len(m) PROVE FrameOK(t, m[i])'
    <3>1. CASE i = 1
      BY <3>1, <2>5, <2>9
    <3>2. CASE i # 1
      <4>1. PICK d : d = m[i]
        OBVIOUS
      <4>2. FrameOK(t, d)
        BY <3>2, <4>1, <2>5 DEF Frames, Whole
      <4>3. FrameOK(t, d)'
        BY <4>2, <1>2 DEF FrameOK, Through, Made, Hooks, Stopper
      <4> QED BY <4>1, <4>3
    <3> QED BY <3>1, <3>2
  <2>11. Apart(m)
    <3>1. ASSUME NEW i \in 2 .. Len(m), Through(m[i]) PROVE m[i].hook # g.hook
      <4>1. i \in 1 .. Len(stack[t]) /\ 1 \in 1 .. Len(stack[t]) /\ i # 1 /\ m[i] = stack[t][i]
        BY <2>5
      <4>2. Through(stack[t][1])
        BY <1>1 DEF Through
      <4>3. Apart(stack[t])
        BY DEF Frames, Whole
      <4>4. stack[t][i].hook # stack[t][1].hook
        BY <3>1, <4>1, <4>2, <4>3 DEF Apart, Through
      <4> QED BY <4>1, <4>4, <1>1, <1>6, <1>8
    <3>2. Apart(stack[t])
      BY DEF Frames, Whole
    <3>3. \A i \in 2 .. Len(m) : m[i] = stack[t][i] /\ (Through(m[i]) => m[i].hook # m[1].hook)
      BY <2>5, <3>1
    <3> QED BY <2>5, <3>2, <3>3, ApartReplace
  <2>12. Apart(n)
    BY <2>4, <2>5, <2>6, <2>11, ApartPush DEF Through
  <2>13. \A i \in 1 .. Len(n) : FrameOK(t, n[i])'
    <3> TAKE i \in 1 .. Len(n)
    <3>1. CASE i = 1
      BY <3>1, <2>6, <2>8
    <3>2. CASE i # 1
      <4>1. i - 1 \in 1 .. Len(m) /\ n[i] = m[i - 1]
        BY <3>2, <2>5, <2>6
      <4> QED BY <4>1, <2>10
    <3> QED BY <3>1, <3>2
  <2>14. Frames'
    BY <1>2, <2>6, <2>7, <2>12, <2>13, FramesOf DEF Whole
  <2>15. TypeOK'
    <3>1. /\ listed' \subseteq {h \in Made : once'[h] # "done"}
          /\ once' \in [Hook -> {"ready", "done"} \cup Thread]
      BY <1>2 DEF Whole, TypeOK
    <3> QED BY <1>2, <1>3, <2>6, <2>7, <3>1, RestType DEF Whole
  <2>16. Listed'
    <3>1. \A h \in listed' : ~ Deleting(t, h)
      BY <1>1 DEF Deleting
    <3> QED BY <1>2, <2>6, <2>7, <3>1, ListedKept DEF Whole
  <2> QED BY <2>14, <2>15, <2>16 DEF Whole
<1>9. \/ Move(t, "body")
      \/ f.left # <<>> /\ Replace(t, g)
      \/ /\ f.left # <<>> /\ Head(f.left) \in Made
         /\ stack' = [stack EXCEPT ![t] = <<Frame(Head(f.left), "enter")>> \o (<<g>> \o Tail(@))]
  BY <1>5 DEF CallNext
<1> QED BY <1>4, <1>7, <1>8, <1>9

\* The function has done its work, and goes on to stop() or to its end.
LEMMA BodyWhole ==
    ASSUME Whole, NEW t \in Thread, Body(t), UNCHANGED command
    PROVE  Whole'
<1>1. In(t, "body") /\ Top(t).hook \in Hook /\ Top(t).hook # NoHook
  BY InFacts, HookConstants DEF Body, Stage
<1>2. UNCHANGED <<command, made, listed, once, pc, todo, found, gate, pending, caught, stopped,
                  exiting, ended>> /\ stopped' \in BOOLEAN
  BY DEF Body, hooks, signals, exit, Whole, TypeOK
<1>3. CASE Top(t).hook = Stopper
  <2>1. Move(t, "stop")
    BY <1>3 DEF Body
  <2> QED BY <1>1, <1>2, <1>3, <2>1, StageWhole DEF Stage
<1>4. CASE Top(t).hook # Stopper
  <2>1. Move(t, "done")
    BY <1>4 DEF Body
  <2> QED BY <1>1, <1>2, <2>1, StageWhole DEF Stage
<1> QED BY <1>3, <1>4

\* stop(), and its wait for a signal that ends the run.
LEMMA StopWhole ==
    ASSUME Whole, NEW t \in Thread, Stop(t) \/ StopCaught(t), UNCHANGED command
    PROVE  Whole'
<1>1. CASE Stop(t)
  <2>1. In(t, "stop") /\ Move(t, "caught") /\ stopped' \in BOOLEAN
    BY <1>1 DEF Stop
  <2>2. UNCHANGED <<command, made, listed, once, pc, todo, found, gate, pending, caught, exiting, ended>>
    BY <1>1 DEF Stop, hooks, exit
  <2>3. Top(t).hook \in {NoHook, Stopper}
    BY <2>1, InFacts DEF FrameOK, Stage
  <2> QED BY <2>1, <2>2, <2>3, StageWhole DEF Stage
<1>2. CASE StopCaught(t)
  <2>1. UNCHANGED <<command, made, listed, once, pc, todo, found, gate, pending, caught, stopped,
                    exiting, ended>> /\ stopped' \in BOOLEAN /\ In(t, "caught")
    BY <1>2 DEF StopCaught, hooks, signals, exit, Whole, TypeOK
  <2>2. Move(t, "stuck") \/ Move(t, "done")
    BY <1>2 DEF StopCaught
  <2>3. Top(t).hook \in {NoHook, Stopper}
    BY <2>1, InFacts DEF FrameOK, Stage
  <2> QED BY <2>1, <2>2, <2>3, StageWhole DEF Stage
<1> QED BY <1>1, <1>2

\* The hook is done: it is in exitHooks no more.
LEMMA ReturnWhole ==
    ASSUME Whole, NEW t \in Thread, Return(t), UNCHANGED command
    PROVE  Whole'
<1> USE DEF Whole
<1> PICK f : f = Top(t)
  OBVIOUS
<1>1. /\ stack[t] # <<>> /\ f.at = "done" /\ f \in AFrame /\ FrameOK(t, f)
      /\ f = stack[t][1] /\ stack[t] \in Seq(AFrame)
  BY InFacts DEF Return, Stage
<1>2. UNCHANGED <<command, made, listed, pc, todo, found, gate, pending, caught, stopped, exiting, ended>>
  BY DEF Return, signals, exit
<1>3. PICK n : n = Tail(stack[t])
  OBVIOUS
<1>4. n \in Seq(AFrame) /\ stack' = [stack EXCEPT ![t] = n] /\ Pop(t)
  BY <1>1, <1>3, PopFacts DEF Pop, Return
<1>5. \/ f.hook = NoHook
      \/ f.hook \in Hook /\ once[f.hook] = t /\ f.hook # NoHook /\ Through(f)
  BY <1>1, CommandFacts DEF FrameOK, Through
<1>6. /\ f.hook = NoHook => once' = once
      /\ f.hook \in Hook => once' = [once EXCEPT ![f.hook] = "done"]
  BY HookConstants DEF Return
<1>7. /\ \A h \in Hook \ {f.hook} : once'[h] = once[h]
      /\ once' \in [Hook -> {"ready", "done"} \cup Thread]
  <2>1. once \in [Hook -> {"ready", "done"} \cup Thread]
    BY DEF TypeOK
  <2>2. CASE f.hook = NoHook
    BY <1>6, <2>1, <2>2
  <2>3. CASE f.hook \in Hook
    <3>1. once' = [once EXCEPT ![f.hook] = "done"]
      BY <1>6, <2>3
    <3> QED BY <2>1, <2>3, <3>1
  <2> QED BY <1>5, <2>2, <2>3
<1>8. f.hook \notin listed /\ \A h \in listed : ~ Deleting(t, h)
  <2>1. \A h \in listed : ~ Deleting(t, h)
    BY <1>1 DEF Deleting
  <2>2. NoHook \notin listed
    BY CommandFacts, HookConstants DEF TypeOK
  <2>3. t # "ready"
    BY DEF Thread
  <2>4. ASSUME f.hook \in listed, f.hook # NoHook PROVE FALSE
    <3>1. once[f.hook] = t
      BY <1>5, <2>4
    <3>2. \E u \in Thread : once[f.hook] = u /\ Deleting(u, f.hook)
      BY <2>4, <2>3, <3>1 DEF Listed
    <3> QED BY <3>1, <3>2, <2>1, <2>4
  <2> QED BY <2>1, <2>2, <2>4
<1>9. TypeOK'
  <2>1. \A h \in listed : h \in Made /\ h \in Hook /\ once'[h] # "done"
    BY <1>7, <1>8, CommandFacts DEF TypeOK
  <2>2. listed' \subseteq {h \in Made : once'[h] # "done"}
    BY <1>2, <2>1
  <2> QED BY <1>2, <1>4, <1>7, <2>2, RestType DEF TypeOK
<1>10. Frames'
  BY <1>1, <1>2, <1>4, <1>5, <1>7, FramesPop
<1>11. Listed'
  <2>1. \A u \in Thread \ {t} : stack'[u] = stack[u]
    BY <1>4, CommandFacts
  <2>2. ASSUME NEW h \in listed'
        PROVE  once'[h] = "ready" \/ \E u \in Thread : once'[h] = u /\ Deleting(u, h)'
    <3>1. h \in listed /\ h \in Hook /\ h # f.hook /\ once'[h] = once[h]
      BY <1>2, <1>7, <1>8, CommandFacts DEF TypeOK
    <3>2. \A u \in Thread : Deleting(u, h) => Deleting(u, h)'
      BY <1>8, <2>1, <3>1 DEF Deleting
    <3> QED BY <3>1, <3>2 DEF Listed
  <2>3. \A h \in Hook \ Made : once'[h] = "ready"
    <3>1. f.hook \in Hook => f.hook \in Made
      BY <1>1, HookConstants DEF FrameOK
    <3> QED BY <1>7, <3>1 DEF Listed
  <2>4. Made' = Made
    BY <1>2 DEF Made, Hooks
  <2> QED BY <2>2, <2>3, <2>4 DEF Listed
<1> QED BY <1>9, <1>10, <1>11

-----------------------------------------------------------------------------
(***************************************************************************)
(* The other steps: the types, the frames and exitHooks.                   *)
(***************************************************************************)

Late == pc["main"] \in {"defers", "hooks"}

\* A step outside hooks disturbs no frame.
LEMMA FrameKept ==
    ASSUME UNCHANGED <<command, once>>, Made \subseteq Made', Late => Late',
           NEW u \in Thread, NEW f, FrameOK(u, f)
    PROVE  FrameOK(u, f)'
BY DEF FrameOK, Through, Late, Stopper

\* A goroutine in no hook calls one, or stop().
LEMMA PushWhole ==
    ASSUME Whole, NEW t \in Thread, stack[t] = <<>>, NEW g \in AFrame, Push(t, g),
           UNCHANGED <<command, made, listed, once, gate, pending, caught, stopped, exiting, ended>>,
           Late => Late',
           todo' \in [Thread -> SUBSET Hook], found' \in [Thread -> SUBSET Hook],
           pc' \in [Thread -> {"work", "step", "defers", "select", "gate", "exitnow", "hooks", "gone"}],
           g.at = IF g.hook = NoHook THEN "stop" ELSE "enter",
           g.hook \in Made \cup {NoHook},
           t = "main" /\ g.hook \in {NoHook, Stopper} => Late',
           \A k \in 1 .. Len(g.left) : g.left[k] # Stopper
    PROVE  Whole'
<1> USE DEF Whole
<1>1. Made' = Made /\ Len(Hooks)' = Len(Hooks)
  BY DEF Made, Hooks
<1>2. ~ Through(g)
  BY DEF Through
<1>3. FrameOK(t, g)'
  BY <1>1, <1>2, HookConstants, CommandFacts DEF FrameOK, Through, Late, Stopper
<1>4. \A u \in Thread : \A f : FrameOK(u, f) => FrameOK(u, f)'
  BY <1>1, FrameKept
<1>5. Frames'
  BY <1>2, <1>3, <1>4, FramesPush
<1>6. <<g>> \o stack[t] \in Seq(AFrame)
  BY CommandFacts, PushFacts
<1>7. TypeOK'
  <2>1. stack' \in [Thread -> Seq(AFrame)]
    BY <1>6, CommandFacts DEF Push
  <2>2. <<pending, caught, stopped, exiting>>' \in BOOLEAN \X BOOLEAN \X BOOLEAN \X BOOLEAN
    BY DEF TypeOK
  <2> QED BY <1>1, <2>1, <2>2 DEF TypeOK, AFrame
<1>8. Listed'
  <2>1. \A u \in Thread \ {t} : stack'[u] = stack[u]
    BY CommandFacts DEF Push
  <2>2. \A u \in Thread : \A h \in listed : Deleting(u, h) => Deleting(u, h)'
    BY <2>1 DEF Deleting
  <2> QED BY <1>1, <2>2 DEF Listed
<1> QED BY <1>5, <1>7, <1>8

\* runExitHooks, the command's own call, and the deferred ones.
LEMMA CallersWhole ==
    ASSUME Whole, UNCHANGED command,
           Finish \/ (\E h \in Hook : Call(h)) \/ (\E t \in Thread : NextHook(t))
    PROVE  Whole'
<1>1. ASSUME NEW h \in Hook, h \in Made
      PROVE  /\ Frame(h, "enter") \in AFrame /\ Frame(h, "enter").hook = h
             /\ Frame(h, "enter").at = "enter" /\ h # NoHook
             /\ \A k \in 1 .. Len(Frame(h, "enter").left) : Frame(h, "enter").left[k] # Stopper
  <2>1. h # NoHook
    BY HookConstants
  <2>2. /\ command.calls[h] \in Seq(Hook)
        /\ \A k \in 1 .. Len(command.calls[h]) : command.calls[h][k] # Stopper
    BY CommandFacts DEF Whole
  <2> QED BY <2>1, <2>2 DEF Frame, AFrame, Stage
<1>2. CASE Finish
  <2>1. /\ UNCHANGED <<command, made, listed, once, gate, pending, caught, stopped, exiting, ended>>
        /\ UNCHANGED <<todo, found>> /\ stack["main"] = <<>> /\ pc' = [pc EXCEPT !["main"] = "defers"]
    BY <1>2 DEF Finish, Idle, Goto, hooks, signals, exit
  <2>2. /\ pc' \in [Thread -> {"work", "step", "defers", "select", "gate", "exitnow", "hooks", "gone"}]
        /\ todo' \in [Thread -> SUBSET Hook] /\ found' \in [Thread -> SUBSET Hook] /\ Late'
    BY <2>1 DEF Whole, TypeOK, Late, Thread
  <2>3. CASE Stopper = NoHook
    <3>1. PICK g : g = Frame(NoHook, "stop")
      OBVIOUS
    <3>2. g \in AFrame /\ g.hook = NoHook /\ g.at = "stop" /\ g.left = <<>>
      BY <3>1 DEF Frame, AFrame, Stage
    <3>3. Push("main", g) /\ \A k \in 1 .. Len(g.left) : g.left[k] # Stopper
      BY <1>2, <2>3, <3>1, <3>2 DEF Finish
    <3> QED BY <2>1, <2>2, <3>2, <3>3, PushWhole DEF Thread
  <2>4. CASE Stopper # NoHook
    <3>1. UNCHANGED stack
      BY <1>2, <2>4 DEF Finish
    <3>2. Made' = Made /\ Len(Hooks)' = Len(Hooks)
      BY <2>1 DEF Made, Hooks
    <3>3. \A u \in Thread : \A f : FrameOK(u, f) => FrameOK(u, f)'
      BY <2>1, <2>2, <3>2, FrameKept
    <3>4. Frames'
      BY <3>1, <3>3 DEF Whole, Frames, Apart, Through
    <3>5. TypeOK'
      <4>1. <<pending, caught, stopped, exiting>>' \in BOOLEAN \X BOOLEAN \X BOOLEAN \X BOOLEAN
        BY <2>1 DEF Whole, TypeOK
      <4> QED BY <2>1, <2>2, <3>1, <3>2, <4>1 DEF Whole, TypeOK
    <3>6. Listed'
      BY <2>1, <3>1, <3>2 DEF Whole, Listed, Deleting
    <3> QED BY <3>4, <3>5, <3>6 DEF Whole
  <2> QED BY <2>3, <2>4
<1>3. ASSUME NEW h \in Hook, Call(h) PROVE Whole'
  <2>1. /\ UNCHANGED <<command, made, listed, once, gate, pending, caught, stopped, exiting, ended>>
        /\ UNCHANGED <<todo, found, pc>> /\ stack["main"] = <<>> /\ h \in Made
    BY <1>3 DEF Call, Idle, hooks, signals, exit
  <2>2. /\ pc' \in [Thread -> {"work", "step", "defers", "select", "gate", "exitnow", "hooks", "gone"}]
        /\ todo' \in [Thread -> SUBSET Hook] /\ found' \in [Thread -> SUBSET Hook] /\ (Late => Late')
    BY <2>1 DEF Whole, TypeOK, Late
  <2>3. PICK g : g = Frame(h, "enter")
    OBVIOUS
  <2>4. /\ g \in AFrame /\ g.hook = h /\ g.at = "enter" /\ h # NoHook
        /\ \A k \in 1 .. Len(g.left) : g.left[k] # Stopper
    BY <1>1, <2>1, <2>3
  <2>5. Push("main", g) /\ (h = Stopper => Late')
    BY <1>3, <2>1, <2>3, <2>4 DEF Call, LastHook, Late
  <2> QED BY <2>1, <2>2, <2>4, <2>5, PushWhole DEF Thread
<1>4. ASSUME NEW t \in Thread, NextHook(t) PROVE Whole'
  <2>1. /\ UNCHANGED <<command, made, listed, once, gate, pending, caught, stopped, exiting, ended>>
        /\ UNCHANGED <<found, pc>> /\ stack[t] = <<>> /\ pc[t] = "hooks"
    BY <1>4 DEF NextHook, Idle, hooks, signals, exit
  <2>2. PICK i \in 1 .. made :
           /\ Push(t, Frame(Hooks[i], "enter"))
           /\ todo' = [todo EXCEPT ![t] = @ \ {Hooks[i]}]
    BY <1>4 DEF NextHook
  <2>3. Hooks[i] \in Made /\ Hooks[i] \in Hook
    BY CommandFacts DEF Made, Whole
  <2>4. PICK g : g = Frame(Hooks[i], "enter")
    OBVIOUS
  <2>5. /\ g \in AFrame /\ g.hook = Hooks[i] /\ g.at = "enter" /\ g.hook # NoHook
        /\ \A k \in 1 .. Len(g.left) : g.left[k] # Stopper
    BY <1>1, <2>3, <2>4
  <2>6. /\ pc' \in [Thread -> {"work", "step", "defers", "select", "gate", "exitnow", "hooks", "gone"}]
        /\ todo' \in [Thread -> SUBSET Hook] /\ found' \in [Thread -> SUBSET Hook] /\ (Late => Late')
        /\ (t = "main" => Late')
    BY <2>1, <2>2 DEF Whole, TypeOK, Late
  <2> QED BY <2>1, <2>2, <2>3, <2>4, <2>5, <2>6, PushWhole
<1> QED BY <1>2, <1>3, <1>4

\* onExit: the new hook is ready, and in no frame.
LEMMA RegisterWhole ==
    ASSUME Whole, Register, UNCHANGED command
    PROVE  Whole'
<1>1. /\ UNCHANGED <<command, once, stack, pc, todo, found, gate, pending, caught, stopped, exiting, ended>>
      /\ made' = made + 1 /\ listed' = listed \cup {Hooks[made + 1]} /\ made < Len(Hooks)
  BY DEF Register, signals, exit
<1>2. /\ made \in 1 .. Len(Hooks) /\ Len(Hooks) \in Nat /\ made + 1 \in 1 .. Len(Hooks)
      /\ \A i, j \in 1 .. Len(Hooks) : Hooks[i] = Hooks[j] => i = j
      /\ Hooks[made + 1] \in Hook
  <2>1. /\ made \in 1 .. Len(Hooks) /\ Len(Hooks) \in Nat
        /\ \A i \in 1 .. Len(Hooks) : Hooks[i] \in Hook
        /\ \A i, j \in 1 .. Len(Hooks) : Hooks[i] = Hooks[j] => i = j
    BY CommandFacts DEF Whole
  <2>2. made + 1 \in 1 .. Len(Hooks)
    BY <1>1, <2>1
  <2> QED BY <2>1, <2>2
<1>3. Made' = Made \cup {Hooks[made + 1]} /\ Len(Hooks)' = Len(Hooks)
  BY <1>1, <1>2 DEF Made, Hooks
<1>4. Hooks[made + 1] \notin Made
  BY <1>2 DEF Made
<1>5. once[Hooks[made + 1]] = "ready"
  BY <1>2, <1>4 DEF Whole, Listed
<1>6. TypeOK'
  <2>1. <<pending, caught, stopped, exiting>>' \in BOOLEAN \X BOOLEAN \X BOOLEAN \X BOOLEAN
    BY <1>1 DEF Whole, TypeOK
  <2>2. made' \in 1 .. Len(Hooks)'
    BY <1>1, <1>2, <1>3
  <2>3. (listed \subseteq {h \in Made : once[h] # "done"})'
    BY <1>1, <1>3, <1>5 DEF Whole, TypeOK
  <2> QED BY <1>1, <2>1, <2>2, <2>3 DEF Whole, TypeOK
<1>7. \A u \in Thread : \A f : FrameOK(u, f) => FrameOK(u, f)'
  BY <1>1, <1>3, FrameKept DEF Late
<1>8. Frames'
  BY <1>1, <1>7 DEF Whole, Frames, Apart, Through
<1>9. Listed'
  BY <1>1, <1>3, <1>5 DEF Whole, Listed, Deleting
<1> QED BY <1>6, <1>8, <1>9 DEF Whole

\* The steps that touch neither stacks nor hooks.
LEMMA QuietWhole ==
    ASSUME Whole, QuietStep
    PROVE  Whole'
<1> USE DEF Whole
<1>1. Quiet /\ (Late => Late') /\ Made' = Made /\ Len(Hooks)' = Len(Hooks)
  BY QuietFacts DEF Quiet, Late, Made, Hooks
<1>2. \A u \in Thread : \A f : FrameOK(u, f) => FrameOK(u, f)'
  BY <1>1, FrameKept DEF Quiet
<1>3. Frames'
  BY <1>1, <1>2 DEF Frames, Apart, Through, Quiet
<1>4. UNCHANGED listed
  BY DEF QuietStep, Signals, QuietMain, QuietExit, Signal, Kill, Catch, Dismiss, TakeGate, StepIn,
         StepOut, Returned, Prompt, SetExiting, Clone, OsExit, hooks
<1>5. Listed'
  BY <1>1, <1>4 DEF Listed, Deleting, Quiet
<1>6. <<pending, caught, stopped, exiting>>' \in BOOLEAN \X BOOLEAN \X BOOLEAN \X BOOLEAN
  <2>1. pending \in BOOLEAN /\ caught \in BOOLEAN /\ stopped \in BOOLEAN /\ exiting \in BOOLEAN
    BY DEF TypeOK
  <2>2. pending' \in BOOLEAN /\ caught' \in BOOLEAN /\ stopped' \in BOOLEAN /\ exiting' \in BOOLEAN
    BY <2>1 DEF QuietStep, Signals, QuietMain, QuietExit, Signal, Kill, Catch, Dismiss, TakeGate,
         StepIn, StepOut, Returned, Prompt, SetExiting, Clone, OsExit, signals, exit
  <2> QED BY <2>2
<1>7. /\ pc' \in [Thread -> {"work", "step", "defers", "select", "gate", "exitnow", "hooks", "gone"}]
      /\ todo' \in [Thread -> SUBSET Hook] /\ found' \in [Thread -> SUBSET Hook]
      /\ gate' \in Thread \cup {Nobody}
      /\ ended' \in {"no", "own", "prompt", "interrupted", "killed"}
  <2> USE DEF TypeOK, Goto, Thread, signals, exit
  <2>1. CASE Signals
    BY <2>1 DEF Signals, Signal, Kill, Catch, Dismiss, TakeGate
  <2>2. CASE QuietMain
    BY <2>2 DEF QuietMain, StepIn, StepOut, Returned, Prompt
  <2>3. ASSUME NEW t \in Thread, SetExiting(t) \/ OsExit(t)
        PROVE  <1>7!:
    BY <2>3 DEF SetExiting, OsExit
  <2>4. ASSUME NEW t \in Thread, Clone(t)
        PROVE  <1>7!:
    <3>1. listed \in SUBSET Hook
      BY CommandFacts
    <3> QED BY <2>4, <3>1 DEF Clone
  <2> QED BY <2>1, <2>2, <2>3, <2>4 DEF QuietStep, QuietExit
<1>8. TypeOK'
  <2>1. (listed \subseteq {h \in Made : once[h] # "done"})' /\ once' = once
    BY <1>1, <1>4 DEF TypeOK, Quiet
  <2> QED BY <1>1, <1>6, <1>7, <2>1 DEF TypeOK, Quiet
<1> QED BY <1>3, <1>5, <1>8

\* Every step keeps the types, the frames and exitHooks in order.
LEMMA WholeStep == Whole /\ [Next]_vars => Whole'
<1> SUFFICES ASSUME Whole, [Next]_vars PROVE Whole'
  OBVIOUS
<1>1. CASE UNCHANGED vars
  <2>1. TypeOK'
    <3>1. Made' = Made /\ Len(Hooks)' = Len(Hooks)
      BY <1>1 DEF vars, Made, Hooks
    <3>2. <<pending, caught, stopped, exiting>>' = <<pending, caught, stopped, exiting>>
      BY <1>1 DEF vars
    <3> QED BY <1>1, <3>1, <3>2 DEF vars, Whole, TypeOK
  <2>2. Frames'
    <3>1. \A u \in Thread : \A f : FrameOK(u, f) => FrameOK(u, f)'
      BY <1>1, FrameKept DEF vars, Late, Made, Hooks
    <3> QED BY <1>1, <3>1 DEF vars, Whole, Frames, Apart, Through
  <2>3. Listed'
    BY <1>1 DEF vars, Whole, Listed, Deleting, Made, Hooks
  <2> QED BY <2>1, <2>2, <2>3 DEF Whole
<1>2. ASSUME NEW t \in Thread, InHook(t), UNCHANGED command PROVE Whole'
  BY <1>2, EnterWhole, DeleteWhole, CallNextWhole, BodyWhole, ReturnWhole, StopWhole DEF InHook
<1>3. CASE Next
  BY <1>2, <1>3, StepKinds, QuietWhole, RegisterWhole, CallersWhole DEF Whole
<1> QED BY <1>1, <1>3

-----------------------------------------------------------------------------
(***************************************************************************)
(* exitGate and stop().                                                    *)
(***************************************************************************)

\* A step within a hook holds nothing and lets nothing go, and only the hook
\* that ends the command's part, or the signal's exit, stops the signals.
LEMMA GatesHook ==
    ASSUME Whole, Gates, NEW t \in Thread, InHook(t)
    PROVE  Gates'
<1>1. UNCHANGED <<pc, gate>> /\ stack[t] # <<>>
  BY DEF InHook, Enter, Delete, CallNext, Body, Return, Stop, StopCaught, In
<1>2. \A u \in Thread \ {t} : stack'[u] = stack[u]
  BY CommandFacts DEF Whole, InHook, Enter, Delete, CallNext, Body, Return, Stop, StopCaught,
                      Move, Replace, Pop
<1>3. stack'["signal"] # <<>> => pc["signal"] = "hooks"
  BY <1>1, <1>2 DEF Gates, Thread
<1>4. CASE Stop(t)
  <2>1. Top(t).at = "stop" /\ FrameOK(t, Top(t))
    BY <1>4, InFacts DEF Stop, Stage
  <2>2. t = "main" => pc["main"] \in {"defers", "hooks"}
    BY <2>1 DEF FrameOK
  <2>3. t = "signal" => pc["signal"] = "hooks"
    BY <1>1 DEF Gates
  <2> QED BY <1>1, <1>3, <2>2, <2>3 DEF Gates, Thread
<1>5. CASE ~ Stop(t)
  <2>1. UNCHANGED stopped
    BY <1>5 DEF InHook, Enter, Delete, CallNext, Body, Return, StopCaught, signals
  <2> QED BY <1>1, <1>3, <2>1 DEF Gates
<1> QED BY <1>4, <1>5

\* Every step: the gate is the command's exactly in a step, and the signal's
\* from TakeGate on; no step begins or is under way once the signals are stopped.
LEMMA GatesStep == Whole /\ Gates /\ [Next]_vars => Gates'
<1> SUFFICES ASSUME Whole, Gates, [Next]_vars PROVE Gates'
  OBVIOUS
<1> USE DEF Gates, Goto, Thread, Idle, hooks, signals, exit
<1>1. CASE UNCHANGED vars
  BY <1>1 DEF vars
<1>2. CASE Signals
  BY <1>2, HookConstants DEF Signals, Signal, Kill, Catch, Dismiss, TakeGate, Whole, TypeOK
<1>3. CASE StepIn \/ StepOut
  BY <1>3, HookConstants DEF StepIn, StepOut, Whole, TypeOK
<1>4. CASE Returned \/ Prompt
  BY <1>4 DEF Returned, Prompt, Whole, TypeOK
<1>5. ASSUME NEW t \in Thread, QuietExit(t) PROVE Gates'
  BY <1>5 DEF QuietExit, SetExiting, Clone, OsExit, Whole, TypeOK
<1>6. CASE Register
  BY <1>6 DEF Register
<1>7. CASE Finish
  BY <1>7 DEF Finish, Push, Whole, TypeOK
<1>8. ASSUME NEW h \in Hook, Call(h) PROVE Gates'
  BY <1>8 DEF Call, Push, Whole, TypeOK
<1>9. ASSUME NEW t \in Thread, NextHook(t) PROVE Gates'
  BY <1>9 DEF NextHook, Push, Whole, TypeOK
<1>10. CASE Next
  BY <1>2, <1>3, <1>4, <1>5, <1>6, <1>7, <1>8, <1>9, <1>10, GatesHook
     DEF Next, Main, ExitNow, Signals, QuietExit
<1> QED BY <1>1, <1>10

-----------------------------------------------------------------------------
(***************************************************************************)
(* The hooks the exit found.                                               *)
(***************************************************************************)

\* A step within a hook: a frame that goes has left its hook done, and a hook
\* that is done stays so.
LEMMA HookShape ==
    ASSUME Whole, NEW t \in Thread, InHook(t)
    PROVE  /\ \A h \in Hook : once[h] = "done" => once'[h] = "done"
           /\ \A u \in Thread \ {t} : stack'[u] = stack[u]
           /\ \A h \in Hook : \A i \in 1 .. Len(stack[t]) : stack[t][i].hook = h =>
                 once'[h] = "done" \/ \E j \in 1 .. Len(stack'[t]) : stack'[t][j].hook = h
<1> DEFINE Stays == \A h \in Hook : \A i \in 1 .. Len(stack[t]) : stack[t][i].hook = h =>
                 once'[h] = "done" \/ \E j \in 1 .. Len(stack'[t]) : stack'[t][j].hook = h
<1>1. stack[t] # <<>> /\ stack[t] \in Seq(AFrame) /\ stack \in [Thread -> Seq(AFrame)]
  BY CommandFacts DEF Whole, InHook, Enter, Delete, CallNext, Body, Return, Stop, StopCaught, In
<1>2. \A u \in Thread \ {t} : stack'[u] = stack[u]
  BY <1>1 DEF InHook, Enter, Delete, CallNext, Body, Return, Stop, StopCaught, Move, Replace, Pop
<1>3. Top(t) = stack[t][1] /\ Top(t) \in AFrame /\ FrameOK(t, Top(t))
  BY <1>1, TopFacts DEF Whole
<1>4. \A h \in Hook : once[h] = "done" => once'[h] = "done"
  <2>1. CASE Enter(t)
    BY <2>1 DEF Enter, Whole, TypeOK
  <2>2. CASE Return(t)
    BY <2>2 DEF Return, Whole, TypeOK
  <2>3. CASE ~ Enter(t) /\ ~ Return(t)
    BY <2>3 DEF InHook, Delete, CallNext, Body, Stop, StopCaught, hooks
  <2> QED BY <2>1, <2>2, <2>3
<1>5. ASSUME NEW g \in AFrame, g.hook = Top(t).hook, Replace(t, g) PROVE Stays
  <2>1. PICK n : n = <<g>> \o Tail(stack[t])
    OBVIOUS
  <2>2. Len(n) = Len(stack[t]) /\ n[1] = g /\ \A i \in 2 .. Len(n) : n[i] = stack[t][i]
    BY <1>1, <2>1, ReplaceFacts
  <2>3. stack'[t] = n
    BY <1>1, <1>5, <2>1 DEF Replace
  <2>4. \A i \in 1 .. Len(n) : n[i].hook = stack[t][i].hook
    BY <1>3, <1>5, <2>2
  <2> QED BY <2>2, <2>3, <2>4
<1>6. ASSUME NEW to \in Stage, Move(t, to) PROVE Stays
  BY <1>3, <1>5, <1>6, MoveFacts DEF Move
<1>7. ASSUME Pop(t), Top(t).hook \in Hook => once'[Top(t).hook] = "done" PROVE Stays
  <2>1. PICK n : n = Tail(stack[t])
    OBVIOUS
  <2>2. \A i \in 2 .. Len(stack[t]) : i - 1 \in 1 .. Len(n) /\ n[i - 1] = stack[t][i]
    BY <1>1, <2>1, PopFacts
  <2>3. stack'[t] = n
    BY <1>1, <1>7, <2>1 DEF Pop
  <2> SUFFICES ASSUME NEW h \in Hook, NEW i \in 1 .. Len(stack[t]), stack[t][i].hook = h,
                      once'[h] # "done"
               PROVE  \E j \in 1 .. Len(n) : n[j].hook = h
    BY <2>3
  <2>4. i # 1
    BY <1>3, <1>7
  <2>5. i - 1 \in 1 .. Len(n) /\ n[i - 1].hook = h
    BY <2>2, <2>4
  <2> QED BY <2>5
<1>8. ASSUME Enter(t) PROVE Stays
  <2>1. CASE Move(t, "delete")
    BY <2>1, <1>6 DEF Stage
  <2>2. CASE Pop(t) /\ once[Top(t).hook] = "done" /\ UNCHANGED once
    BY <2>2, <1>7
  <2> QED BY <1>8, <2>1, <2>2 DEF Enter
<1>9. ASSUME Return(t) PROVE Stays
  <2>1. Top(t).hook \in Hook => once'[Top(t).hook] = "done"
    BY <1>9, HookConstants DEF Return, Whole, TypeOK
  <2> QED BY <1>9, <2>1, <1>7 DEF Return
<1>10. ASSUME Delete(t) \/ Body(t) \/ Stop(t) \/ StopCaught(t) PROVE Stays
  BY <1>10, <1>6 DEF Delete, Body, Stop, StopCaught, Stage
<1>11. ASSUME CallNext(t) PROVE Stays
  <2>1. PICK f : f = Top(t)
    OBVIOUS
  <2>2. PICK g : g = [f EXCEPT !.left = Tail(f.left)]
    OBVIOUS
  <2>3. f.left # <<>> => g \in AFrame /\ g.hook = f.hook
    <3>1. f.left \in Seq(Hook)
      BY <1>3, <2>1 DEF AFrame
    <3>2. f.left # <<>> => Tail(f.left) \in Seq(Hook)
      BY <3>1, PopFacts
    <3> QED BY <1>3, <2>1, <2>2, <3>2 DEF AFrame
  <2>4. CASE Move(t, "body")
    BY <2>4, <1>6 DEF Stage
  <2>5. CASE f.left # <<>> /\ Replace(t, g)
    BY <2>1, <2>3, <2>5, <1>5
  <2>6. CASE /\ f.left # <<>> /\ Head(f.left) \in Made
             /\ stack' = [stack EXCEPT ![t] = <<Frame(Head(f.left), "enter")>> \o (<<g>> \o Tail(@))]
    <3>1. PICK m : m = <<g>> \o Tail(stack[t])
      OBVIOUS
    <3>2. PICK n : n = <<Frame(Head(f.left), "enter")>> \o m
      OBVIOUS
    <3>3. /\ m \in Seq(AFrame) /\ Len(m) = Len(stack[t]) /\ m[1] = g
          /\ \A i \in 2 .. Len(m) : m[i] = stack[t][i]
      BY <1>1, <2>3, <2>6, <3>1, ReplaceFacts
    <3>4. Head(f.left) \in Hook
      BY <2>6, CommandFacts DEF Whole
    <3>5. Frame(Head(f.left), "enter") \in AFrame
      BY <3>4, CommandFacts DEF Frame, AFrame, Stage, Whole
    <3>6. \A i \in 1 .. Len(m) : i + 1 \in 1 .. Len(n) /\ n[i + 1] = m[i]
      BY <3>2, <3>3, <3>5, PushFacts
    <3>7. \A i \in 1 .. Len(m) : m[i].hook = stack[t][i].hook
      BY <1>3, <2>1, <2>3, <2>6, <3>3
    <3>8. stack'[t] = n
      BY <1>1, <2>6, <3>1, <3>2
    <3> SUFFICES ASSUME NEW h \in Hook, NEW i \in 1 .. Len(stack[t]), stack[t][i].hook = h
                 PROVE  \E j \in 1 .. Len(n) : n[j].hook = h
      BY <3>8
    <3>9. i + 1 \in 1 .. Len(n) /\ n[i + 1].hook = h
      BY <3>3, <3>6, <3>7
    <3> QED BY <3>9
  <2> QED BY <1>11, <2>1, <2>2, <2>4, <2>5, <2>6 DEF CallNext
<1> QED BY <1>2, <1>4, <1>8, <1>9, <1>10, <1>11 DEF InHook

\* Every step: a hook the exit found is still to be called, in the stack, or done.
LEMMA FindsStep == Whole /\ Finds /\ [Next]_vars => Finds'
<1> SUFFICES ASSUME Whole, Finds, [Next]_vars, NEW u \in Thread, pc'[u] = "hooks",
                    NEW h \in found'[u]
             PROVE  \/ h \in todo'[u] \/ once'[h] = "done"
                    \/ \E i \in 1 .. Len(stack'[u]) : stack'[u][i].hook = h
  BY DEF Finds
<1> DEFINE Goal == \/ h \in todo'[u] \/ once'[h] = "done"
                   \/ \E i \in 1 .. Len(stack'[u]) : stack'[u][i].hook = h
<1>1. ASSUME pc[u] = "hooks", h \in found[u]
      PROVE  /\ h \in Hook
             /\ \/ h \in todo[u] \/ once[h] = "done"
                \/ \E i \in 1 .. Len(stack[u]) : stack[u][i].hook = h
  BY <1>1 DEF Finds, Whole, TypeOK
<1>2. ASSUME UNCHANGED <<todo, found, pc, once, stack>> PROVE Goal
  BY <1>1, <1>2
<1>3. ASSUME UNCHANGED vars PROVE Goal
  BY <1>2, <1>3 DEF vars
<1>4. ASSUME NEW t \in Thread, InHook(t) PROVE Goal
  <2>1. UNCHANGED <<pc, todo, found>>
    BY <1>4 DEF InHook, Enter, Delete, CallNext, Body, Return, Stop, StopCaught, exit
  <2>2. pc[u] = "hooks" /\ h \in found[u] /\ h \in Hook
    BY <1>1, <2>1
  <2>3. \/ h \in todo[u] \/ once[h] = "done"
        \/ \E i \in 1 .. Len(stack[u]) : stack[u][i].hook = h
    BY <1>1, <2>2
  <2>4. CASE u = t
    BY <1>4, <2>1, <2>2, <2>3, <2>4, HookShape
  <2>5. CASE u # t
    BY <1>4, <2>1, <2>2, <2>3, <2>5, HookShape
  <2> QED BY <2>4, <2>5
<1>5. ASSUME NEW t \in Thread, NextHook(t) PROVE Goal
  <2>1. UNCHANGED <<pc, once, found>> /\ stack[t] = <<>>
    BY <1>5 DEF NextHook, Idle, hooks
  <2>2. PICK i \in 1 .. made :
           /\ Push(t, Frame(Hooks[i], "enter"))
           /\ todo' = [todo EXCEPT ![t] = @ \ {Hooks[i]}]
    BY <1>5 DEF NextHook
  <2>3. h \in Hook /\ (h \in todo[u] \/ once[h] = "done" \/ \E j \in 1 .. Len(stack[u]) : stack[u][j].hook = h)
    BY <1>1, <2>1
  <2>4. CASE u # t
    <3>1. todo'[u] = todo[u] /\ stack'[u] = stack[u]
      BY <2>2, <2>4, CommandFacts DEF Whole, TypeOK, Push
    <3> QED BY <2>1, <2>3, <3>1
  <2>5. CASE u = t /\ h # Hooks[i]
    <3>1. todo'[u] = todo[u] \ {Hooks[i]}
      BY <2>2, <2>5 DEF Whole, TypeOK
    <3>2. h \in todo[u] \/ once[h] = "done"
      <4>1. Len(stack[u]) = 0
        BY <2>1, <2>5
      <4> QED BY <2>3, <4>1
    <3> QED BY <2>1, <2>5, <3>1, <3>2
  <2>6. CASE u = t /\ h = Hooks[i]
    <3>1. PICK g : g = Frame(h, "enter")
      OBVIOUS
    <3>2. g \in AFrame /\ g.hook = h
      BY <2>3, <3>1, CommandFacts DEF Frame, AFrame, Stage, Whole
    <3>3. PICK n : n = <<g>> \o stack[t]
      OBVIOUS
    <3>4. n \in Seq(AFrame) /\ n[1] = g /\ Len(n) = Len(stack[t]) + 1 /\ Len(stack[t]) \in Nat
      BY <3>2, <3>3, PushFacts, CommandFacts DEF Whole
    <3>5. stack'[u] = n
      BY <2>2, <2>6, <3>1, <3>3, CommandFacts DEF Push, Whole
    <3>6. 1 \in 1 .. Len(n) /\ n[1].hook = h
      BY <3>2, <3>4
    <3> QED BY <3>5, <3>6
  <2> QED BY <2>4, <2>5, <2>6
<1>6. ASSUME NEW t \in Thread, Clone(t) PROVE Goal
  <2>1. CASE u = t
    BY <1>6, <2>1 DEF Clone, Whole, TypeOK
  <2>2. CASE u # t
    <3>1. /\ UNCHANGED <<once, stack>> /\ pc'[u] = pc[u] /\ todo'[u] = todo[u]
          /\ found'[u] = found[u]
      BY <1>6, <2>2 DEF Clone, Goto, hooks, Whole, TypeOK
    <3> QED BY <1>1, <3>1
  <2> QED BY <2>1, <2>2
<1>7. ASSUME NEW t \in Thread, SetExiting(t) \/ OsExit(t) PROVE Goal
  BY <1>2, <1>7 DEF SetExiting, OsExit, hooks
<1>8. ASSUME Register \/ Signal \/ Kill \/ Returned PROVE Goal
  BY <1>2, <1>8 DEF Register, Signal, Kill, Returned, hooks, exit
<1>9. ASSUME NEW v \in Thread, NEW l, Goto(v, l), l # "hooks", UNCHANGED <<once, todo, found>>,
             u # v => stack'[u] = stack[u]
      PROVE  Goal
  <2>1. u # v /\ pc[u] = "hooks"
    BY <1>9 DEF Goto, Whole, TypeOK
  <2> QED BY <1>1, <1>9, <2>1
<1>10. ASSUME StepIn \/ StepOut \/ Prompt PROVE Goal
  BY <1>9, <1>10 DEF StepIn, StepOut, Prompt, hooks, exit, Thread
<1>11. ASSUME Catch \/ Dismiss \/ TakeGate PROVE Goal
  BY <1>9, <1>11 DEF Catch, Dismiss, TakeGate, hooks, exit, Thread
<1>12. ASSUME Finish PROVE Goal
  <2>1. u # "main" => stack'[u] = stack[u]
    BY <1>12, CommandFacts DEF Finish, Push, Whole
  <2> QED BY <1>9, <1>12, <2>1 DEF Finish, hooks, exit, Thread
<1>13. ASSUME NEW g \in Hook, Call(g) PROVE Goal
  <2>1. /\ UNCHANGED <<once, todo, found, pc>> /\ stack["main"] = <<>>
        /\ (u # "main" => stack'[u] = stack[u])
    BY <1>13, CommandFacts DEF Call, Idle, Push, Whole, hooks, exit
  <2>2. Len(stack["main"]) = 0
    BY <2>1
  <2> QED BY <1>1, <2>1, <2>2
<1> QED BY <1>3, <1>4, <1>5, <1>6, <1>7, <1>8, <1>10, <1>11, <1>12, <1>13 DEF Next, Main, ExitNow

-----------------------------------------------------------------------------
(***************************************************************************)
(* The lock.                                                               *)
(***************************************************************************)

\* The download's hook is not the lock's, and calls no other.
LEMMA DownloadFacts ==
    ASSUME TypeOK
    PROVE  /\ Hooks[Len(Hooks)] # Hooks[1] /\ Hooks[1] \in Hook
           /\ command.calls[Hooks[Len(Hooks)]] = <<>>
<1>1. command \in Commands
  BY DEF TypeOK
<1>2. Len(Hooks) > 1 /\ command.calls[Hooks[Len(Hooks)]] = <<>>
  BY <1>1, HookConstants DEF Hooks
<1> QED BY <1>2, CommandFacts

\* Once the command is at its deferred calls or in the exit it stays there.
LEMMA PlacesStay ==
    ASSUME TypeOK, [Next]_vars
    PROVE  /\ UNCHANGED Hooks
           /\ pc["main"] \in {"defers", "hooks"} => pc'["main"] \in {"defers", "hooks"}
           /\ pc["signal"] = "hooks" => pc'["signal"] = "hooks"
<1>1. UNCHANGED Hooks
  BY DEF Next, vars, Hooks
<1> QED BY <1>1 DEF TypeOK, Next, Main, ExitNow, InHook, Enter, Delete, CallNext, Body, Return,
       Stop, StopCaught, Register, StepIn, StepOut, Call, Finish, Returned, Prompt, Signal, Kill,
       Catch, Dismiss, TakeGate, SetExiting, Clone, NextHook, OsExit, Goto, Thread, Idle, vars

\* A step within the download's hook leaves the command there, or is its end.
LEMMA CleaningHook ==
    ASSUME Whole, Cleaning, NEW t \in Thread, InHook(t), UNCHANGED command
    PROVE  Cleaning'
<1>1. /\ UNCHANGED pc /\ UNCHANGED Hooks /\ stack[t] # <<>>
  BY DEF InHook, Enter, Delete, CallNext, Body, Return, Stop, StopCaught, In, Hooks
<1>2. CASE t # "main"
  <2>1. stack'["main"] = stack["main"]
    BY <1>2, HookShape DEF Thread
  <2> QED BY <1>1, <2>1 DEF Cleaning
<1>3. CASE t = "main" /\ pc["main"] \notin {"defers", "hooks"}
  <2> PICK s : s = stack["main"]
    OBVIOUS
  <2> PICK f : f = Top("main")
    OBVIOUS
  <2>1. /\ s # <<>> /\ s \in Seq(AFrame) /\ Len(s) \in Nat \ {0} /\ f = s[1] /\ f \in AFrame
        /\ stack \in [Thread -> Seq(AFrame)]
    BY <1>1, <1>3, TopFacts, CommandFacts DEF Whole
  <2>2. \A i \in 1 .. Len(s) : s[i].hook = Hooks[Len(Hooks)] /\ s[i].left = <<>>
    BY <1>3 DEF Cleaning
  <2>3. ASSUME NEW to \in Stage, Move("main", to) PROVE Cleaning'
    <3> PICK g : g = [f EXCEPT !.at = to]
      OBVIOUS
    <3>1. g \in AFrame /\ g.hook = f.hook /\ g.left = f.left
      BY <2>1, MoveFacts
    <3> PICK n : n = <<g>> \o Tail(s)
      OBVIOUS
    <3>2. Len(n) = Len(s) /\ n[1] = g /\ \A i \in 2 .. Len(s) : n[i] = s[i]
      BY <2>1, <3>1, ReplaceFacts
    <3>3. stack'["main"] = n
      BY <2>1, <2>3 DEF Move, Replace, Thread
    <3>4. ASSUME NEW i \in 1 .. Len(n)
          PROVE  n[i].hook = Hooks[Len(Hooks)] /\ n[i].left = <<>>
      <4>1. i = 1 \/ i \in 2 .. Len(s)
        BY <2>1, <3>2
      <4>2. 1 \in 1 .. Len(s) /\ i \in 1 .. Len(s)
        BY <2>1, <3>2
      <4>3. n[i].hook = s[i].hook /\ n[i].left = s[i].left
        BY <2>1, <3>1, <3>2, <4>1
      <4> QED BY <2>2, <4>2, <4>3
    <3> QED BY <1>1, <3>3, <3>4 DEF Cleaning
  <2>4. ASSUME Pop("main") PROVE Cleaning'
    <3> PICK n : n = Tail(s)
      OBVIOUS
    <3>1. \A i \in 1 .. Len(n) : i + 1 \in 2 .. Len(s) /\ n[i] = s[i + 1]
      BY <2>1, PopFacts
    <3>2. stack'["main"] = n
      BY <2>1, <2>4 DEF Pop, Thread
    <3>3. \A i \in 1 .. Len(n) : n[i].hook = Hooks[Len(Hooks)] /\ n[i].left = <<>>
      BY <2>1, <2>2, <3>1
    <3> QED BY <1>1, <3>2, <3>3 DEF Cleaning
  <2>5. f.left = <<>>
    BY <2>1, <2>2
  <2>6. CASE CallNext("main")
    BY <2>3, <2>5, <2>6 DEF CallNext, Stage
  <2>7. CASE Enter("main") \/ Return("main")
    BY <2>3, <2>4, <2>7 DEF Enter, Return, Stage
  <2>8. CASE Delete("main") \/ Body("main") \/ Stop("main") \/ StopCaught("main")
    BY <2>3, <2>8 DEF Delete, Body, Stop, StopCaught, Stage
  <2> QED BY <1>3, <2>6, <2>7, <2>8 DEF InHook
<1>4. CASE pc["main"] \in {"defers", "hooks"}
  BY <1>1, <1>4 DEF Cleaning
<1> QED BY <1>2, <1>3, <1>4

\* Every step: until its deferred calls the command is in no other hook.
LEMMA CleaningStep == Whole /\ Cleaning /\ [Next]_vars => Cleaning'
<1> SUFFICES ASSUME Whole, Cleaning, [Next]_vars PROVE Cleaning'
  OBVIOUS
<1>1. /\ UNCHANGED Hooks
      /\ pc["main"] \in {"defers", "hooks"} => pc'["main"] \in {"defers", "hooks"}
  BY PlacesStay DEF Whole
<1>2. ASSUME stack'["main"] = stack["main"] PROVE Cleaning'
  BY <1>1, <1>2 DEF Cleaning
<1>3. stack \in [Thread -> Seq(AFrame)] /\ pc \in [Thread -> {"work", "step", "defers",
          "select", "gate", "exitnow", "hooks", "gone"}]
  BY CommandFacts DEF Whole, TypeOK
<1>4. CASE UNCHANGED vars
  BY <1>2, <1>4 DEF vars
<1>5. ASSUME NEW t \in Thread, InHook(t), UNCHANGED command PROVE Cleaning'
  BY <1>5, CleaningHook
<1>6. ASSUME NEW t \in Thread, NextHook(t) PROVE Cleaning'
  <2>1. CASE t = "main"
    BY <1>1, <1>6, <2>1 DEF NextHook, Cleaning
  <2>2. CASE t # "main"
    BY <1>2, <1>3, <1>6, <2>2 DEF NextHook, Push, Thread
  <2> QED BY <2>1, <2>2
<1>7. CASE Finish
  <2>1. pc'["main"] = "defers"
    BY <1>3, <1>7 DEF Finish, Goto, Thread
  <2> QED BY <2>1 DEF Cleaning
<1>8. ASSUME NEW h \in Hook, Call(h), UNCHANGED command PROVE Cleaning'
  <2>1. UNCHANGED pc /\ stack["main"] = <<>>
    BY <1>8 DEF Call, Idle
  <2>2. CASE pc["main"] = "defers"
    BY <2>1, <2>2 DEF Cleaning
  <2>3. CASE pc["main"] # "defers"
    <3>1. h = Hooks[Len(Hooks)] /\ command.calls[h] = <<>>
      BY <1>8, <2>3, DownloadFacts DEF Call, Whole
    <3> PICK f : f = Frame(h, "enter")
      OBVIOUS
    <3>2. f \in AFrame /\ f.hook = h /\ f.left = <<>>
      BY <3>1, HookConstants DEF Frame, AFrame, Stage
    <3> PICK n : n = <<f>> \o <<>>
      OBVIOUS
    <3>3. stack'["main"] = n
      BY <1>3, <1>8, <2>1 DEF Call, Push, Thread
    <3>4. Len(n) = 1 /\ n[1] = f
      BY <3>2
    <3>5. \A i \in 1 .. Len(n) : n[i].hook = h /\ n[i].left = <<>>
      BY <3>2, <3>4
    <3> QED BY <1>1, <3>1, <3>3, <3>5 DEF Cleaning
  <2> QED BY <2>2, <2>3
<1>9. CASE Register \/ QuietStep
  <2>1. UNCHANGED stack
    BY <1>9, QuietFacts DEF Register, Quiet, Whole
  <2> QED BY <1>2, <2>1
<1> QED BY <1>4, <1>5, <1>6, <1>7, <1>8, <1>9 DEF Next, Main, ExitNow, QuietStep, Signals,
       QuietMain, QuietExit

\* Every step: who begins to give the lock up is the command at its end, or
\* the exit.
LEMMA LockStep == Whole /\ Gates /\ Cleaning /\ LockKept /\ [Next]_vars => LockKept'
<1> SUFFICES ASSUME Whole, Gates, Cleaning, LockKept, [Next]_vars PROVE LockKept'
  OBVIOUS
<1>1. /\ UNCHANGED Hooks
      /\ pc["main"] \in {"defers", "hooks"} => pc'["main"] \in {"defers", "hooks"}
      /\ pc["signal"] = "hooks" => pc'["signal"] = "hooks"
  BY PlacesStay DEF Whole
<1>2. Hooks[1] \in Hook /\ Hooks[1] # Hooks[Len(Hooks)]
  BY DownloadFacts DEF Whole
<1>3. ASSUME once[Hooks[1]] # "ready" \/ UNCHANGED once PROVE LockKept'
  BY <1>1, <1>3 DEF LockKept
<1>4. ASSUME NEW t \in Thread, Enter(t), once[Hooks[1]] = "ready" PROVE LockKept'
  <2>1. /\ stack[t] # <<>> /\ Top(t) = stack[t][1] /\ Len(stack[t]) \in Nat \ {0}
        /\ 1 \in 1 .. Len(stack[t])
    BY <1>4, TopFacts DEF Enter, In, Whole
  <2>2. CASE Top(t).hook # Hooks[1]
    <3>1. once'[Hooks[1]] = once[Hooks[1]]
      BY <1>2, <1>4, <2>2 DEF Enter, Whole, TypeOK
    <3> QED BY <1>1, <1>4, <3>1 DEF LockKept
  <2>3. CASE Top(t).hook = Hooks[1] /\ t = "main"
    <3>1. pc["main"] \in {"defers", "hooks"}
      BY <1>2, <2>1, <2>3 DEF Cleaning
    <3> QED BY <1>1, <3>1 DEF LockKept
  <2>4. CASE t = "signal"
    BY <1>1, <2>1, <2>4 DEF Gates, LockKept
  <2> QED BY <2>2, <2>3, <2>4 DEF Thread
<1>5. ASSUME NEW t \in Thread, Return(t), once[Hooks[1]] = "ready" PROVE LockKept'
  <2>1. Top(t).at = "done" /\ FrameOK(t, Top(t))
    BY <1>5, InFacts DEF Return, Stage
  <2>2. Top(t).hook = NoHook \/ once[Top(t).hook] = t
    BY <2>1 DEF FrameOK, Through
  <2>3. Top(t).hook # Hooks[1]
    BY <1>2, <1>5, <2>2, HookConstants DEF Thread
  <2>4. once'[Hooks[1]] = once[Hooks[1]]
    BY <1>2, <1>5, <2>3 DEF Return, Whole, TypeOK
  <2> QED BY <1>1, <1>5, <2>4 DEF LockKept
<1>6. CASE UNCHANGED vars
  BY <1>3, <1>6 DEF vars
<1>7. ASSUME Next, ~ UNCHANGED once PROVE \E t \in Thread : Enter(t) \/ Return(t)
  BY <1>7 DEF Next, Main, ExitNow, InHook, Delete, CallNext, Body, Stop, StopCaught, Register,
       StepIn, StepOut, Call, Finish, Returned, Prompt, Signal, Kill, Catch, Dismiss, TakeGate,
       SetExiting, Clone, NextHook, OsExit, hooks
<1> QED BY <1>3, <1>4, <1>5, <1>6, <1>7

-----------------------------------------------------------------------------
(***************************************************************************)
(* The end of the process.                                                 *)
(***************************************************************************)

\* Nothing moves once the process is over.
LEMMA Over == ASSUME Next PROVE ended = "no"
BY DEF Next, Main, ExitNow, InHook, Enter, Delete, CallNext, Body, Return, Stop, StopCaught, In, Idle,
       Register, StepIn, StepOut, Call, Finish, Returned, Prompt, Signal, Kill, Catch, Dismiss,
       TakeGate, SetExiting, Clone, NextHook, OsExit

\* Every step that ends the process ends it outside a step that must be whole,
\* and with the hooks that were found done.
LEMMA EndsStep ==
    ASSUME Whole, Gates, Finds, StepsAreWhole, FoundHooksFinish, [Next]_vars
    PROVE  StepsAreWhole' /\ FoundHooksFinish'
<1>1. CASE UNCHANGED vars
  BY <1>1 DEF vars, StepsAreWhole, FoundHooksFinish, Finished, Made, Hooks
<1>2. CASE Next /\ ended' = "no"
  BY <1>2 DEF StepsAreWhole, FoundHooksFinish
<1>3. CASE Returned /\ UNCHANGED command
  <2>1. /\ UNCHANGED <<command, made, once, gate>> /\ ended' = "own" /\ pc["main"] = "defers"
        /\ \A h \in Made : once[h] = "done"
    BY <1>3 DEF Returned, hooks
  <2>2. Made' = Made
    BY <2>1 DEF Made, Hooks
  <2> QED BY <2>1, <2>2 DEF StepsAreWhole, FoundHooksFinish, Finished, Gates
<1>4. CASE Kill
  <2>1. stopped /\ gate' = gate /\ ended' = "killed"
    BY <1>4 DEF Kill
  <2>2. gate # "main"
    BY <2>1 DEF Gates
  <2> QED BY <2>1, <2>2 DEF StepsAreWhole, FoundHooksFinish
<1>5. ASSUME NEW t \in Thread, OsExit(t) PROVE StepsAreWhole' /\ FoundHooksFinish'
  <2>1. /\ UNCHANGED <<once, gate, found>> /\ stack[t] = <<>> /\ pc[t] = "hooks" /\ todo[t] = {}
        /\ ended' = IF t = "main" THEN "prompt" ELSE "interrupted"
    BY <1>5 DEF OsExit, Idle, hooks
  <2>2. Len(stack[t]) = 0
    BY <2>1
  <2>3. \A h \in found[t] : once[h] = "done"
    BY <2>1, <2>2 DEF Finds
  <2>4. gate # "main"
    BY <2>1 DEF Gates, Thread
  <2> QED BY <2>1, <2>3, <2>4 DEF StepsAreWhole, FoundHooksFinish, Finished, Thread
<1>6. CASE Next
  <2>1. ended = "no"
    BY <1>6, Over
  <2>2. ended' = ended \/ Returned \/ Kill \/ \E t \in Thread : OsExit(t)
    BY <1>6 DEF Next, Main, ExitNow, InHook, Enter, Delete, CallNext, Body, Return, Stop, StopCaught,
       Register, StepIn, StepOut, Call, Finish, Prompt, Signal, Catch, Dismiss, TakeGate,
       SetExiting, Clone, NextHook, exit
  <2>3. UNCHANGED command
    BY <1>6 DEF Next
  <2> QED BY <1>2, <1>3, <1>4, <1>5, <1>6, <2>1, <2>2, <2>3
<1> QED BY <1>1, <1>6

\* The first state: the lock's hook alone, and nothing under way.
LEMMA InitInv == Init => IInv
<1> SUFFICES ASSUME Init PROVE IInv
  OBVIOUS
<1>1. command \in Command
  BY HookConstants DEF Init
<1>2. Hooks \in Seq(Hook) /\ Len(Hooks) \in Nat \ {0}
  BY <1>1, EmptySeq DEF Command, Hooks
<1>3. made = 1 /\ 1 \in 1 .. Len(Hooks) /\ Hooks[1] \in Hook /\ Made = {Hooks[1]}
  BY <1>2 DEF Init, Made
<1>4. \A t \in Thread : stack[t] = <<>> /\ Len(stack[t]) = 0
  BY DEF Init
<1>5. TypeOK
  <2>1. stack \in [Thread -> Seq(AFrame)]
    BY DEF Init
  <2>2. <<pending, caught, stopped, exiting>> \in BOOLEAN \X BOOLEAN \X BOOLEAN \X BOOLEAN
    BY DEF Init
  <2>3. /\ pc \in [Thread -> {"work", "step", "defers", "select", "gate", "exitnow", "hooks", "gone"}]
        /\ once \in [Hook -> {"ready", "done"} \cup Thread]
        /\ todo \in [Thread -> SUBSET Hook] /\ found \in [Thread -> SUBSET Hook]
    BY DEF Init, Thread
  <2>4. listed \subseteq {h \in Made : once[h] # "done"}
    BY <1>3 DEF Init
  <2> QED BY <1>3, <2>1, <2>2, <2>3, <2>4 DEF Init, TypeOK, AFrame
<1>6. Frames
  BY <1>4 DEF Frames, Apart
<1>7. Listed
  BY <1>3 DEF Init, Listed
<1>8. Gates /\ Finds
  BY <1>4, HookConstants DEF Init, Gates, Finds, Thread
<1>9. StepsAreWhole /\ FoundHooksFinish
  BY DEF Init, StepsAreWhole, FoundHooksFinish
<1>10. Cleaning /\ LockKept
  <2>1. once[Hooks[1]] = "ready"
    BY <1>3 DEF Init
  <2> QED BY <1>4, <2>1 DEF Cleaning, LockKept, Thread
<1> QED BY <1>5, <1>6, <1>7, <1>8, <1>9, <1>10 DEF IInv

\* The invariant of every state.
THEOREM Invariant == Spec => []IInv
<1>1. IInv /\ [Next]_vars => IInv'
  BY WholeStep, GatesStep, FindsStep, EndsStep, CleaningStep, LockStep DEF IInv, Whole
<1> QED BY InitInv, <1>1, PTL DEF Spec

\* Every state is well formed: above all, exitHooks has no hook that is done,
\* so no hook is run again (onExit).
THEOREM TypeCorrect == Spec => []TypeOK
<1>1. IInv => TypeOK
  BY DEF IInv
<1> QED BY Invariant, <1>1, PTL

\* Neither a signal nor a prompt ends the process within a step that must not
\* be cut in half: .env replaced, bundle files swapped (exitGate).
THEOREM WholeSteps == Spec => []StepsAreWhole
<1>1. IInv => StepsAreWhole
  BY DEF IInv
<1> QED BY Invariant, <1>1, PTL

\* While .env or the bundle files are being replaced nobody has begun to give the
\* project's lock up (exitGate, runExitHooks, the deferred calls).
THEOREM LockedSteps == Spec => []StepsUnderLock
<1>1. IInv => StepsUnderLock
  BY HookConstants DEF IInv, Gates, LockKept, StepsUnderLock, Thread
<1> QED BY Invariant, <1>1, PTL

\* The process does not end by itself before the hooks of the run, or those
\* that the exit found, have run to their end (onExit, runExitHooks).
THEOREM HooksFinish == Spec => []FoundHooksFinish
<1>1. IInv => FoundHooksFinish
  BY DEF IInv
<1> QED BY Invariant, <1>1, PTL

-----------------------------------------------------------------------------
(***************************************************************************)
(* Who waits for whom.                                                     *)
(*                                                                         *)
(* A goroutine is in a hook, in those the hook's function calls, and so on  *)
(* (Chain), so the hook it waits for is lower in the order of the calls     *)
(* than any it is in: two goroutines cannot wait for each other.  The one   *)
(* that blocks for ever in stop() is the command, in the hook that stops    *)
(* or in none; the signal has not begun its exit then, so it finds that     *)
(* hook gone from exitHooks and never comes to wait for it (Abandoned).     *)
(***************************************************************************)

\* An order of a command's hooks in which a function calls only lower ones.
Ranking(c) == CHOOSE rank \in [Hook -> 0 .. Len(c.hooks)] :
    \A h \in Hook : \A i \in 1 .. Len(c.calls[h]) : rank[c.calls[h][i]] < rank[h]

Below(g, h) == Ranking(command)[g] < Ranking(command)[h]

Chain(s) ==
    /\ \A i \in 1 .. Len(s) : i # 1 => s[i].at = "calls"
    /\ \A i \in 1 .. Len(s) : s[i].hook \in {NoHook, Stopper} => i = Len(s)
    /\ \A i \in 1 .. Len(s) : \A k \in 1 .. Len(s[i].left) : Below(s[i].left[k], s[i].hook)
    /\ \A i, j \in 1 .. Len(s) : i < j => Below(s[i].hook, s[j].hook)

Chains == \A t \in Thread : Chain(stack[t])

\* A hook whose Once a goroutine is in is one of its frames.
Held == \A t \in Thread : \A h \in Hook : once[h] = t =>
    \E i \in 1 .. Len(stack[t]) : stack[t][i].hook = h /\ Through(stack[t][i])

Exits == \A t \in Thread :
    /\ pc[t] = "hooks" => exiting
    /\ pc[t] # "hooks" => todo[t] = {}

Stuck(t) == stack[t] # <<>> /\ stack[t][1].at = "stuck"

Abandoned ==
    /\ ~ Stuck("signal")
    /\ Stuck("main") /\ stack["main"][1].hook = Stopper /\ Stopper \in Hook =>
          /\ Stopper \notin listed \cup todo["signal"]
          /\ \A i \in 1 .. Len(stack["signal"]) : stack["signal"][i].hook # Stopper

WInv == IInv /\ Chains /\ Held /\ Exits /\ Abandoned

\* The order exists: calls do not go round.
LEMMA RankingFacts ==
    ASSUME TypeOK
    PROVE  /\ Ranking(command) \in [Hook -> Nat]
           /\ \A h \in Hook : \A k \in 1 .. Len(command.calls[h]) : Below(command.calls[h][k], h)
<1> DEFINE Ranks(rank) == \A h \in Hook : \A k \in 1 .. Len(command.calls[h]) :
                             rank[command.calls[h][k]] < rank[h]
<1>1. \E rank \in [Hook -> 0 .. Len(Hooks)] : Ranks(rank)
  BY HookConstants DEF TypeOK, Hooks
<1>2. Ranking(command) \in [Hook -> 0 .. Len(Hooks)] /\ Ranks(Ranking(command))
  BY <1>1 DEF Ranking, Hooks
<1>3. Len(Hooks) \in Nat
  BY CommandFacts
<1> QED BY <1>2, <1>3 DEF Below

\* The innermost function goes on with what it has left to call.
LEMMA ChainReplace ==
    ASSUME NEW s \in Seq(AFrame), s # <<>>, Chain(s), NEW g \in AFrame, g.hook = s[1].hook,
           \A k \in 1 .. Len(g.left) : \E l \in 1 .. Len(s[1].left) : g.left[k] = s[1].left[l]
    PROVE  Chain(<<g>> \o Tail(s))
<1> PICK n : n = <<g>> \o Tail(s)
  OBVIOUS
<1>1. /\ n \in Seq(AFrame) /\ Len(n) = Len(s) /\ Len(s) \in Nat \ {0} /\ n[1] = g
      /\ \A i \in 2 .. Len(s) : n[i] = s[i]
  BY ReplaceFacts
<1>2. \A i \in 1 .. Len(n) : /\ i \in 1 .. Len(s) /\ n[i].hook = s[i].hook
                             /\ i # 1 => n[i] = s[i]
  BY <1>1
<1>3. \A i \in 1 .. Len(n) : \A k \in 1 .. Len(n[i].left) : Below(n[i].left[k], n[i].hook)
  <2> SUFFICES ASSUME NEW i \in 1 .. Len(n), NEW k \in 1 .. Len(n[i].left)
               PROVE  Below(n[i].left[k], n[i].hook)
    OBVIOUS
  <2>1. CASE i = 1
    <3>1. PICK l \in 1 .. Len(s[1].left) : g.left[k] = s[1].left[l]
      BY <1>1, <2>1
    <3>2. 1 \in 1 .. Len(s)
      BY <1>1
    <3>3. Below(s[1].left[l], s[1].hook)
      BY <3>2 DEF Chain
    <3> QED BY <1>1, <2>1, <3>1, <3>3
  <2>2. CASE i # 1
    BY <1>2, <2>2 DEF Chain
  <2> QED BY <2>1, <2>2
<1>4. \A i \in 1 .. Len(n) : i # 1 => n[i].at = "calls"
  BY <1>2 DEF Chain
<1>5. \A i \in 1 .. Len(n) : n[i].hook \in {NoHook, Stopper} => i = Len(n)
  BY <1>1, <1>2 DEF Chain
<1>6. \A i, j \in 1 .. Len(n) : i < j => Below(n[i].hook, n[j].hook)
  BY <1>2 DEF Chain
<1> QED BY <1>3, <1>4, <1>5, <1>6 DEF Chain

\* It returns.
LEMMA ChainPop ==
    ASSUME NEW s \in Seq(AFrame), s # <<>>, Chain(s)
    PROVE  Chain(Tail(s))
<1> PICK n : n = Tail(s)
  OBVIOUS
<1>1. Len(s) \in Nat \ {0} /\ Len(n) = Len(s) - 1
      /\ \A i \in 1 .. Len(n) : i + 1 \in 2 .. Len(s) /\ n[i] = s[i + 1]
  BY PopFacts
<1>2. \A i \in 1 .. Len(n) : i + 1 \in 1 .. Len(s) /\ i + 1 # 1 /\ n[i] = s[i + 1]
  BY <1>1
<1>3. \A i \in 1 .. Len(n) : n[i].at = "calls"
  BY <1>2 DEF Chain
<1>4. ASSUME NEW i \in 1 .. Len(n), n[i].hook \in {NoHook, Stopper} PROVE i = Len(n)
  <2>1. i + 1 = Len(s)
    BY <1>2, <1>4 DEF Chain
  <2>2. i \in Int /\ Len(s) \in Int /\ Len(n) = Len(s) - 1
    BY <1>1
  <2> QED BY <2>1, <2>2
<1>5. \A i \in 1 .. Len(n) : \A k \in 1 .. Len(n[i].left) : Below(n[i].left[k], n[i].hook)
  BY <1>2 DEF Chain
<1>6. ASSUME NEW i \in 1 .. Len(n), NEW j \in 1 .. Len(n), i < j
      PROVE  Below(n[i].hook, n[j].hook)
  <2>1. i + 1 \in 1 .. Len(s) /\ j + 1 \in 1 .. Len(s) /\ i + 1 < j + 1
    BY <1>2, <1>6
  <2> QED BY <1>2, <2>1 DEF Chain
<1> QED BY <1>3, <1>4, <1>5, <1>6 DEF Chain

\* It calls a hook that is lower than itself.
LEMMA ChainPush ==
    ASSUME NEW s \in Seq(AFrame), s # <<>>, Chain(s), Ranking(command) \in [Hook -> Nat],
           \A i \in 1 .. Len(s) : s[i].hook \in Hook, s[1].at = "calls",
           NEW c \in AFrame, c.hook \in Hook, c.hook # Stopper, NoHook \notin Hook,
           Below(c.hook, s[1].hook),
           \A k \in 1 .. Len(c.left) : Below(c.left[k], c.hook)
    PROVE  Chain(<<c>> \o s)
<1> PICK n : n = <<c>> \o s
  OBVIOUS
<1>1. /\ Len(s) \in Nat \ {0} /\ Len(n) = Len(s) + 1 /\ n[1] = c
      /\ \A i \in 2 .. Len(n) : i - 1 \in 1 .. Len(s) /\ n[i] = s[i - 1]
  BY PushFacts, PopFacts
<1>2. \A i \in 1 .. Len(n) : i # 1 => i - 1 \in 1 .. Len(s) /\ n[i] = s[i - 1]
  BY <1>1
<1>3. \A i \in 1 .. Len(n) : i # 1 => n[i].at = "calls"
  BY <1>2 DEF Chain
<1>4. ASSUME NEW i \in 1 .. Len(n), n[i].hook \in {NoHook, Stopper} PROVE i = Len(n)
  <2>1. i # 1
    BY <1>1, <1>4
  <2>2. i - 1 = Len(s)
    BY <1>2, <1>4, <2>1 DEF Chain
  <2> QED BY <1>1, <2>2
<1>5. \A i \in 1 .. Len(n) : \A k \in 1 .. Len(n[i].left) : Below(n[i].left[k], n[i].hook)
  <2>1. \A i \in 1 .. Len(s) : \A k \in 1 .. Len(s[i].left) : Below(s[i].left[k], s[i].hook)
    BY DEF Chain
  <2> QED BY <1>1, <1>2, <2>1
<1>6. \A j \in 1 .. Len(s) : Below(c.hook, s[j].hook)
  <2> SUFFICES ASSUME NEW j \in 1 .. Len(s) PROVE Below(c.hook, s[j].hook)
    OBVIOUS
  <2>1. s[1].hook \in Hook /\ s[j].hook \in Hook /\ 1 \in 1 .. Len(s)
    BY <1>1
  <2>2. j = 1 \/ Below(s[1].hook, s[j].hook)
    BY <2>1 DEF Chain
  <2> QED BY <2>1, <2>2 DEF Below
<1>7. ASSUME NEW i \in 1 .. Len(n), NEW j \in 1 .. Len(n), i < j
      PROVE  Below(n[i].hook, n[j].hook)
  <2>1. j # 1 /\ j - 1 \in 1 .. Len(s) /\ n[j] = s[j - 1]
    BY <1>2, <1>7
  <2>2. CASE i = 1
    BY <1>1, <1>6, <2>1, <2>2
  <2>3. CASE i # 1
    <3>1. i - 1 \in 1 .. Len(s) /\ n[i] = s[i - 1] /\ i - 1 < j - 1
      BY <1>2, <1>7, <2>3
    <3> QED BY <2>1, <3>1 DEF Chain
  <2> QED BY <2>2, <2>3
<1> QED BY <1>3, <1>4, <1>5, <1>7 DEF Chain

\* A hook called from outside hooks.
LEMMA ChainOne ==
    ASSUME NEW g \in AFrame, \A k \in 1 .. Len(g.left) : Below(g.left[k], g.hook)
    PROVE  Chain(<<g>> \o <<>>)
<1> PICK n : n = <<g>> \o <<>>
  OBVIOUS
<1>1. Len(n) = 1 /\ n[1] = g
  OBVIOUS
<1> QED BY <1>1 DEF Chain

-----------------------------------------------------------------------------
\* What a step within a hook does to its frame f: it goes on as g, or leaves,
\* or calls c and goes on as g after it.
Goes(t, f, g) ==
    /\ Replace(t, g)
    /\ g.at # "enter" /\ (g.at = "stuck" => f.at = "caught" /\ ~ exiting)
    /\ once' = IF f.at = "enter" THEN [once EXCEPT ![f.hook] = t] ELSE once

Leaves(t, f) ==
    /\ Pop(t)
    /\ once' = IF Through(f) THEN [once EXCEPT ![f.hook] = "done"] ELSE once

Calls(t, f, g, c) ==
    /\ stack' = [stack EXCEPT ![t] = <<c>> \o (<<g>> \o Tail(@))]
    /\ f.at = "calls" /\ g.at = "calls" /\ UNCHANGED once
    /\ \E l \in 1 .. Len(f.left) : c = Frame(f.left[l], "enter")

\* g is the frame f with no more to call than it had.
Follows(f, g) ==
    /\ g.hook = f.hook
    /\ \A k \in 1 .. Len(g.left) : \E l \in 1 .. Len(f.left) : g.left[k] = f.left[l]

LEMMA HookKinds ==
    ASSUME Whole, NEW t \in Thread, InHook(t)
    PROVE  /\ UNCHANGED <<made, pc, todo, exiting>> /\ listed' \subseteq listed
           /\ stack[t] # <<>> /\ Top(t).at # "stuck"
           /\ \/ Leaves(t, Top(t))
              \/ \E g \in AFrame : Follows(Top(t), g) /\ Goes(t, Top(t), g)
              \/ \E g, c \in AFrame : Follows(Top(t), g) /\ Calls(t, Top(t), g, c)
<1> PICK f : f = Top(t)
  OBVIOUS
<1> DEFINE Kinds == \/ Leaves(t, f)
                    \/ \E g \in AFrame : Follows(f, g) /\ Goes(t, f, g)
                    \/ \E g, c \in AFrame : Follows(f, g) /\ Calls(t, f, g, c)
<1>1. /\ stack[t] # <<>> /\ f \in AFrame /\ FrameOK(t, f) /\ f.at # "stuck"
  BY TopFacts DEF Whole, InHook, Enter, Delete, CallNext, Body, Return, Stop, StopCaught, In, Top
<1>2. UNCHANGED <<made, pc, todo, exiting>> /\ listed' \subseteq listed
  BY DEF InHook, Enter, Delete, CallNext, Body, Return, Stop, StopCaught, hooks, exit
<1>3. ASSUME NEW to \in Stage \ {"enter"}, Move(t, to), to = "stuck" => f.at = "caught" /\ ~ exiting,
             once' = IF f.at = "enter" THEN [once EXCEPT ![f.hook] = t] ELSE once
      PROVE  Kinds
  <2>1. PICK g : g = [f EXCEPT !.at = to]
    OBVIOUS
  <2>2. g \in AFrame /\ g.hook = f.hook /\ g.at = to /\ g.left = f.left
    BY <1>1, <2>1, MoveFacts
  <2>3. Follows(f, g)
    BY <2>2 DEF Follows
  <2>4. Goes(t, f, g)
    BY <1>3, <2>1, <2>2 DEF Goes, Move
  <2> QED BY <2>2, <2>3, <2>4
<1> HIDE DEF Kinds
<1>4. ASSUME Enter(t) PROVE Kinds
  <2>1. f.at = "enter"
    BY <1>4 DEF Enter, In, Top
  <2>2. \/ Move(t, "delete") /\ once' = [once EXCEPT ![f.hook] = t]
        \/ Pop(t) /\ UNCHANGED once
    BY <1>4 DEF Enter
  <2>3. CASE Move(t, "delete") /\ once' = [once EXCEPT ![f.hook] = t]
    BY <1>3, <2>1, <2>3 DEF Stage
  <2>4. CASE Pop(t) /\ UNCHANGED once
    BY <2>1, <2>4 DEF Kinds, Leaves, Through
  <2> QED BY <2>2, <2>3, <2>4
<1>5. ASSUME Delete(t) \/ Body(t) \/ Stop(t) PROVE Kinds
  <2>1. UNCHANGED once /\ f.at # "enter"
    BY <1>5 DEF Delete, Body, Stop, hooks, In, Top
  <2>2. \E to \in {"calls", "stop", "done", "caught"} : Move(t, to)
    BY <1>5 DEF Delete, Body, Stop
  <2> QED BY <1>3, <2>1, <2>2 DEF Stage
<1>6. ASSUME StopCaught(t) PROVE Kinds
  <2>1. UNCHANGED once /\ f.at = "caught"
    BY <1>6 DEF StopCaught, hooks, In, Top
  <2>2. PICK to : to = IF caught /\ ~ exiting THEN "stuck" ELSE "done"
    OBVIOUS
  <2>3. Move(t, to)
    BY <1>6, <2>2 DEF StopCaught
  <2>4. to = "done" \/ (to = "stuck" /\ ~ exiting)
    BY <2>2
  <2> QED BY <1>3, <2>1, <2>3, <2>4 DEF Stage
<1>7. ASSUME Return(t) PROVE Kinds
  BY <1>7 DEF Kinds, Return, Leaves, Through, In, Top
<1>8. ASSUME CallNext(t) PROVE Kinds
  <2>1. PICK g : g = [f EXCEPT !.left = Tail(f.left)]
    OBVIOUS
  <2>2. f.at = "calls" /\ UNCHANGED once
    BY <1>8 DEF CallNext, In, Top, hooks
  <2>3. ASSUME f.left # <<>>
        PROVE  /\ g \in AFrame /\ g.at = "calls" /\ Follows(f, g)
               /\ 1 \in 1 .. Len(f.left) /\ Head(f.left) = f.left[1] /\ f.left[1] \in Hook
    <3>1. f.left \in Seq(Hook)
      BY <1>1 DEF AFrame
    <3>2. /\ Tail(f.left) \in Seq(Hook) /\ Len(f.left) \in Nat \ {0}
          /\ Head(f.left) = f.left[1] /\ f.left[1] \in Hook
          /\ \A k \in 1 .. Len(Tail(f.left)) : k + 1 \in 2 .. Len(f.left) /\ Tail(f.left)[k] = f.left[k + 1]
      BY <2>3, <3>1, PopFacts
    <3>3. g \in AFrame /\ g.hook = f.hook /\ g.at = "calls" /\ g.left = Tail(f.left)
      BY <1>1, <2>1, <2>2, <3>2 DEF AFrame
    <3>4. \A k \in 1 .. Len(g.left) : k + 1 \in 1 .. Len(f.left) /\ g.left[k] = f.left[k + 1]
      BY <3>2, <3>3
    <3> QED BY <3>2, <3>3, <3>4 DEF Follows
  <2>4. CASE Move(t, "body")
    BY <1>3, <2>2, <2>4 DEF Stage
  <2>5. CASE f.left # <<>> /\ Replace(t, g)
    BY <2>2, <2>3, <2>5 DEF Kinds, Goes
  <2>6. CASE /\ f.left # <<>>
             /\ stack' = [stack EXCEPT ![t] = <<Frame(Head(f.left), "enter")>> \o (<<g>> \o Tail(@))]
    <3>1. PICK c : c = Frame(Head(f.left), "enter")
      OBVIOUS
    <3>2. c \in AFrame
      BY <2>3, <2>6, <3>1, CommandFacts DEF Frame, AFrame, Stage, Whole
    <3>3. Calls(t, f, g, c)
      BY <2>2, <2>3, <2>6, <3>1 DEF Calls
    <3> QED BY <2>3, <2>6, <3>2, <3>3 DEF Kinds
  <2> QED BY <1>8, <2>1, <2>4, <2>5, <2>6 DEF CallNext
<1> QED BY <1>1, <1>2, <1>4, <1>5, <1>6, <1>7, <1>8 DEF InHook, Kinds

\* A hook is called from outside hooks, by the command or by the exit.
Begins(t, g) ==
    /\ Push(t, g) /\ stack[t] = <<>> /\ UNCHANGED <<listed, once>>
    /\ g.at \in {"enter", "stop"}
    /\ g.left = IF g.hook = NoHook THEN <<>> ELSE command.calls[g.hook]
    /\ IF t = "main" THEN todo'["signal"] = todo["signal"]
       ELSE g.hook \in todo[t] /\ todo' = [todo EXCEPT ![t] = @ \ {g.hook}]

LEMMA BeginsFacts ==
    ASSUME Whole, UNCHANGED command,
           Finish \/ (\E h \in Hook : Call(h)) \/ (\E t \in Thread : NextHook(t))
    PROVE  \/ UNCHANGED <<listed, once, stack, todo>>
           \/ \E t \in Thread : \E g \in AFrame : Begins(t, g)
<1>1. ASSUME NEW h \in Hook \cup {NoHook}
      PROVE  LET at == IF h = NoHook THEN "stop" ELSE "enter"
                 g == Frame(h, at)
             IN  /\ g \in AFrame /\ g.hook = h /\ g.at \in {"enter", "stop"}
                 /\ g.left = IF h = NoHook THEN <<>> ELSE command.calls[h]
  BY CommandFacts DEF Whole, Frame, AFrame, Stage
<1>2. CASE Finish
  <2>1. UNCHANGED <<listed, once, todo>> /\ stack["main"] = <<>>
        /\ (Push("main", Frame(NoHook, "stop")) \/ UNCHANGED stack)
    BY <1>2 DEF Finish, Idle, hooks, exit
  <2>2. CASE Push("main", Frame(NoHook, "stop"))
    <3>1. PICK g : g = Frame(NoHook, "stop")
      OBVIOUS
    <3>2. g \in AFrame /\ g.hook = NoHook /\ g.at = "stop" /\ g.left = <<>>
      BY <1>1, <3>1 DEF Frame
    <3>3. Begins("main", g)
      BY <2>1, <2>2, <3>1, <3>2 DEF Begins
    <3> QED BY <3>2, <3>3 DEF Thread
  <2> QED BY <2>1, <2>2
<1>3. ASSUME NEW h \in Hook, Call(h) PROVE \E g \in AFrame : Begins("main", g)
  <2>1. PICK g : g = Frame(h, "enter")
    OBVIOUS
  <2>4. h # NoHook
    BY HookConstants
  <2>2. g \in AFrame /\ g.hook = h /\ g.at \in {"enter", "stop"} /\ g.left = command.calls[h]
    BY <1>1, <2>1, <2>4
  <2>3. UNCHANGED <<listed, once, todo>> /\ stack["main"] = <<>> /\ Push("main", g)
    BY <1>3, <2>1 DEF Call, Idle, hooks, exit
  <2> QED BY <2>2, <2>3, <2>4 DEF Begins
<1>4. ASSUME NEW t \in Thread, NextHook(t) PROVE \E g \in AFrame : Begins(t, g)
  <2>1. PICK i \in 1 .. made : /\ Push(t, Frame(Hooks[i], "enter")) /\ Hooks[i] \in todo[t]
                               /\ todo' = [todo EXCEPT ![t] = @ \ {Hooks[i]}]
    BY <1>4 DEF NextHook
  <2>2. PICK g : g = Frame(Hooks[i], "enter")
    OBVIOUS
  <2>3. Hooks[i] \in Hook
    BY CommandFacts DEF Whole, Made
  <2>7. Hooks[i] # NoHook
    BY <2>3, HookConstants
  <2>4. /\ g \in AFrame /\ g.hook = Hooks[i] /\ g.at \in {"enter", "stop"} /\ g.hook # NoHook
        /\ g.left = command.calls[g.hook]
    BY <1>1, <2>2, <2>3, <2>7
  <2>5. UNCHANGED <<listed, once>> /\ stack[t] = <<>> /\ Push(t, g)
    BY <1>4, <2>1, <2>2 DEF NextHook, Idle, hooks
  <2>6. t = "main" => todo'["signal"] = todo["signal"]
    BY <2>1 DEF Whole, TypeOK, Thread
  <2> QED BY <2>1, <2>4, <2>5, <2>6 DEF Begins
<1> QED BY <1>2, <1>3, <1>4 DEF Thread

\* The stack of the goroutine that takes a step, and the other one's.
LEMMA OneStack ==
    ASSUME TypeOK, NEW t \in Thread, NEW n, stack' = [stack EXCEPT ![t] = n]
    PROVE  stack'[t] = n /\ \A u \in Thread \ {t} : stack'[u] = stack[u]
BY CommandFacts

\* Every step: a goroutine goes down the order of the calls.
LEMMA ChainsStep == Whole /\ Chains /\ [Next]_vars => Chains'
<1> SUFFICES ASSUME Whole, Chains, [Next]_vars PROVE Chains'
  OBVIOUS
<1>1. UNCHANGED command
  BY DEF Next, vars
<1>2. ASSUME NEW s, Chain(s) PROVE Chain(s)'
  BY <1>1, <1>2 DEF Chain, Below, Stopper
<1>3. ASSUME UNCHANGED stack PROVE Chains'
  BY <1>2, <1>3 DEF Chains
<1>4. ASSUME NEW t \in Thread, NEW n, stack' = [stack EXCEPT ![t] = n], Chain(n) PROVE Chains'
  <2>1. Chain(n)'
    BY <1>2, <1>4
  <2>2. stack'[t] = n /\ \A u \in Thread \ {t} : stack'[u] = stack[u]
    BY <1>4, OneStack DEF Whole
  <2>3. ASSUME NEW u \in Thread PROVE Chain(stack[u])'
    <3> PICK s : s = stack[u]
      OBVIOUS
    <3>1. Chain(s)'
      BY <1>2 DEF Chains
    <3>2. CASE u = t
      BY <2>1, <2>2, <3>2 DEF Chain
    <3>3. CASE u # t
      BY <2>2, <3>1, <3>3 DEF Chain
    <3> QED BY <3>2, <3>3
  <2> QED BY <2>3 DEF Chains
<1>5. Ranking(command) \in [Hook -> Nat]
      /\ \A h \in Hook : \A k \in 1 .. Len(command.calls[h]) : Below(command.calls[h][k], h)
  BY RankingFacts DEF Whole
<1>6. ASSUME NEW t \in Thread, NEW g \in AFrame, Begins(t, g) PROVE Chains'
  <2>1. PICK n : n = <<g>> \o <<>>
    OBVIOUS
  <2>2. g.hook \in Hook \cup {NoHook}
    BY DEF AFrame
  <2>3. \A k \in 1 .. Len(g.left) : Below(g.left[k], g.hook)
    <3>1. CASE g.hook = NoHook
      BY <1>6, <3>1 DEF Begins
    <3>2. CASE g.hook # NoHook
      BY <1>5, <1>6, <2>2, <3>2 DEF Begins
    <3> QED BY <3>1, <3>2
  <2>4. Chain(n)
    BY <2>1, <2>3, ChainOne
  <2>5. stack' = [stack EXCEPT ![t] = n]
    BY <1>6, <2>1 DEF Begins, Push
  <2> QED BY <1>4, <2>4, <2>5
<1>7. ASSUME NEW t \in Thread, InHook(t) PROVE Chains'
  <2>1. PICK s : s = stack[t]
    OBVIOUS
  <2>2. PICK f : f = Top(t)
    OBVIOUS
  <2>3. /\ s # <<>> /\ s \in Seq(AFrame) /\ Len(s) \in Nat \ {0} /\ f = s[1] /\ f \in AFrame
        /\ FrameOK(t, f) /\ Chain(s)
    BY <1>7, <2>1, <2>2, HookKinds, TopFacts DEF Whole, Chains
  <2>4. CASE Leaves(t, f)
    <3>1. PICK n : n = Tail(s)
      OBVIOUS
    <3>2. Chain(n)
      BY <2>3, <3>1, ChainPop
    <3>3. stack' = [stack EXCEPT ![t] = n]
      BY <2>1, <2>4, <3>1 DEF Leaves, Pop
    <3> QED BY <1>4, <3>2, <3>3
  <2>5. ASSUME NEW g \in AFrame, Follows(f, g), Goes(t, f, g) PROVE Chains'
    <3>1. PICK n : n = <<g>> \o Tail(s)
      OBVIOUS
    <3>2. Chain(n)
      BY <2>3, <2>5, <3>1, ChainReplace DEF Follows
    <3>3. stack' = [stack EXCEPT ![t] = n]
      BY <2>1, <2>5, <3>1 DEF Goes, Replace
    <3> QED BY <1>4, <3>2, <3>3
  <2>6. ASSUME NEW g \in AFrame, NEW c \in AFrame, Follows(f, g), Calls(t, f, g, c) PROVE Chains'
    <3>1. PICK m : m = <<g>> \o Tail(s)
      OBVIOUS
    <3>2. PICK n : n = <<c>> \o m
      OBVIOUS
    <3>11. Chain(m)
      BY <2>3, <2>6, <3>1, ChainReplace DEF Follows
    <3>12. m \in Seq(AFrame) /\ m # <<>> /\ m[1] = g /\ Len(m) = Len(s)
           /\ \A i \in 2 .. Len(s) : m[i] = s[i]
      BY <2>3, <3>1, ReplaceFacts
    <3>3. Chain(m) /\ m \in Seq(AFrame) /\ m # <<>> /\ m[1] = g /\ Len(m) = Len(s)
          /\ \A i \in 2 .. Len(s) : m[i] = s[i]
      BY <3>11, <3>12
    <3>4. ASSUME NEW i \in 1 .. Len(m) PROVE m[i].hook \in Hook
      <4>1. FrameOK(t, s[i]) /\ i \in 1 .. Len(s) /\ m[i].hook = s[i].hook
        BY <2>1, <2>3, <2>6, <3>3 DEF Whole, Frames, Follows
      <4>2. s[i].at = "calls"
        BY <2>3, <2>6, <4>1 DEF Chain, Calls
      <4> QED BY <4>1, <4>2, CommandFacts DEF FrameOK, Whole
    <3>5. PICK l \in 1 .. Len(f.left) : c = Frame(f.left[l], "enter")
      BY <2>6 DEF Calls
    <3>6. /\ f.left[l] \in Hook /\ f.left[l] # Stopper /\ f.left[l] # NoHook
          /\ Below(f.left[l], f.hook) /\ 1 \in 1 .. Len(s)
      <4>1. f.left[l] \in Hook /\ f.left[l] # NoHook /\ 1 \in 1 .. Len(s)
        BY <2>3, HookConstants DEF AFrame
      <4>2. f.left[l] # Stopper
        BY <2>3 DEF FrameOK
      <4>3. Below(f.left[l], f.hook)
        BY <2>3, <4>1 DEF Chain
      <4> QED BY <4>1, <4>2, <4>3
    <3>7. c.hook = f.left[l] /\ c.left = command.calls[c.hook]
      BY <3>5, <3>6 DEF Frame
    <3>8. /\ c.hook \in Hook /\ c.hook # Stopper /\ Below(c.hook, m[1].hook)
          /\ \A k \in 1 .. Len(c.left) : Below(c.left[k], c.hook)
      BY <1>5, <2>6, <3>3, <3>6, <3>7 DEF Follows
    <3>9. Chain(n)
      BY <1>5, <2>6, <3>2, <3>3, <3>4, <3>8, ChainPush, HookConstants DEF Calls
    <3>10. stack' = [stack EXCEPT ![t] = n]
      BY <2>1, <2>6, <3>1, <3>2 DEF Calls
    <3> QED BY <1>4, <3>9, <3>10
  <2> QED BY <1>7, <2>2, <2>4, <2>5, <2>6, HookKinds
<1>8. CASE QuietStep
  BY <1>3, <1>8, QuietFacts DEF Quiet, Whole
<1>9. CASE Register
  BY <1>3, <1>9 DEF Register
<1>10. CASE Finish \/ (\E h \in Hook : Call(h)) \/ (\E t \in Thread : NextHook(t))
  BY <1>1, <1>3, <1>6, <1>10, BeginsFacts
<1>11. CASE UNCHANGED vars
  BY <1>3, <1>11 DEF vars
<1> QED BY <1>7, <1>8, <1>9, <1>10, <1>11, StepKinds DEF Whole

\* Every step: who is in a Once goes on in its function.
LEMMA HeldStep == Whole /\ Held /\ [Next]_vars => Held'
<1> SUFFICES ASSUME Whole, Held, [Next]_vars, NEW u \in Thread, NEW h \in Hook, once'[h] = u
             PROVE  \E i \in 1 .. Len(stack'[u]) : stack'[u][i].hook = h /\ Through(stack'[u][i])
  BY DEF Held, Through
<1> DEFINE Has(s) == \E i \in 1 .. Len(s) : s[i].hook = h /\ Through(s[i])
<1> HIDE DEF Has
<1>1. ASSUME once[h] = u PROVE Has(stack[u])
  BY <1>1 DEF Held, Has
<1>2. ASSUME UNCHANGED <<once, stack>> PROVE Has(stack'[u])
  BY <1>1, <1>2
<1>3. ASSUME NEW t \in Thread, NEW g \in AFrame, Begins(t, g) PROVE Has(stack'[u])
  <2>1. PICK n : n = <<g>> \o <<>>
    OBVIOUS
  <2>2. stack' = [stack EXCEPT ![t] = n] /\ once[h] = u /\ stack[t] = <<>>
    BY <1>3, <2>1 DEF Begins, Push
  <2>3. u # t
    <3>1. Len(stack[t]) = 0
      BY <2>2
    <3> QED BY <1>1, <2>2, <3>1 DEF Has
  <2> QED BY <1>1, <2>2, <2>3, OneStack DEF Whole
<1>4. ASSUME NEW t \in Thread, InHook(t) PROVE Has(stack'[u])
  <2>1. PICK s : s = stack[t]
    OBVIOUS
  <2>2. PICK f : f = Top(t)
    OBVIOUS
  <2>3. /\ s # <<>> /\ s \in Seq(AFrame) /\ Len(s) \in Nat \ {0} /\ f = s[1] /\ f \in AFrame
        /\ FrameOK(t, f) /\ once \in [Hook -> {"ready", "done"} \cup Thread]
    BY <1>4, <2>1, <2>2, HookKinds, TopFacts DEF Whole, TypeOK
  <2>4. ASSUME NEW n, stack' = [stack EXCEPT ![t] = n], u = t => Has(n),
               u # t => once[h] = u
        PROVE  Has(stack'[u])
    BY <1>1, <2>4, OneStack DEF Whole
  <2>5. f.at = "enter" => f.hook \in Hook
    BY <2>3, CommandFacts DEF FrameOK, Whole
  <2>6. CASE Leaves(t, f)
    <3>1. PICK n : n = Tail(s)
      OBVIOUS
    <3>2. \A i \in 2 .. Len(s) : i - 1 \in 1 .. Len(n) /\ n[i - 1] = s[i]
      BY <2>3, <3>1, PopFacts
    <3>3. stack' = [stack EXCEPT ![t] = n]
      BY <2>1, <2>6, <3>1 DEF Leaves, Pop
    <3>4. once[h] = u /\ (Through(f) => h # f.hook)
      BY <2>3, <2>6 DEF Leaves, Thread
    <3>5. ASSUME u = t PROVE Has(n)
      <4>1. PICK i \in 1 .. Len(s) : s[i].hook = h /\ Through(s[i])
        BY <1>1, <2>1, <3>4, <3>5 DEF Has
      <4>2. i \in 2 .. Len(s)
        BY <2>3, <3>4, <4>1
      <4> QED BY <3>2, <4>1, <4>2 DEF Has
    <3> QED BY <2>4, <3>3, <3>4, <3>5
  <2>7. ASSUME NEW g \in AFrame, Follows(f, g), Goes(t, f, g) PROVE Has(stack'[u])
    <3>1. PICK n : n = <<g>> \o Tail(s)
      OBVIOUS
    <3>2. Len(n) = Len(s) /\ n[1] = g /\ \A i \in 2 .. Len(s) : n[i] = s[i]
      BY <2>3, <3>1, ReplaceFacts
    <3>3. stack' = [stack EXCEPT ![t] = n]
      BY <2>1, <2>7, <3>1 DEF Goes, Replace
    <3>4. once[h] = u \/ (f.at = "enter" /\ h = f.hook /\ u = t)
      BY <2>3, <2>5, <2>7 DEF Goes
    <3>5. ASSUME u = t PROVE Has(n)
      <4>1. CASE h = f.hook
        <5>1. Through(n[1]) /\ n[1].hook = h /\ 1 \in 1 .. Len(n)
          BY <2>3, <2>7, <3>2, <4>1, HookConstants DEF Through, Follows, Goes
        <5> QED BY <5>1 DEF Has
      <4>2. CASE h # f.hook
        <5>1. PICK i \in 1 .. Len(s) : s[i].hook = h /\ Through(s[i])
          BY <1>1, <2>1, <3>4, <3>5, <4>2 DEF Has
        <5>2. i \in 2 .. Len(s)
          BY <2>3, <4>2, <5>1
        <5> QED BY <3>2, <5>1, <5>2 DEF Has
      <4> QED BY <4>1, <4>2
    <3> QED BY <2>4, <3>3, <3>4, <3>5
  <2>8. ASSUME NEW g \in AFrame, NEW c \in AFrame, Follows(f, g), Calls(t, f, g, c)
        PROVE  Has(stack'[u])
    <3>1. PICK m : m = <<g>> \o Tail(s)
      OBVIOUS
    <3>2. PICK n : n = <<c>> \o m
      OBVIOUS
    <3>3. m \in Seq(AFrame) /\ Len(m) = Len(s) /\ m[1] = g /\ \A i \in 2 .. Len(s) : m[i] = s[i]
      BY <2>3, <3>1, ReplaceFacts
    <3>4. \A i \in 1 .. Len(m) : i + 1 \in 1 .. Len(n) /\ n[i + 1] = m[i]
      BY <3>2, <3>3, PushFacts
    <3>5. stack' = [stack EXCEPT ![t] = n]
      BY <2>1, <2>8, <3>1, <3>2 DEF Calls
    <3>6. once[h] = u
      BY <2>8 DEF Calls
    <3>7. ASSUME u = t PROVE Has(n)
      <4>1. PICK i \in 1 .. Len(s) : s[i].hook = h /\ Through(s[i])
        BY <1>1, <2>1, <3>6, <3>7 DEF Has
      <4>2. m[i].hook = h /\ Through(m[i])
        <5>1. CASE i = 1
          BY <2>3, <2>8, <3>3, <4>1, <5>1 DEF Follows, Calls, Through
        <5>2. CASE i # 1
          BY <3>3, <4>1, <5>2
        <5> QED BY <5>1, <5>2
      <4> QED BY <3>3, <3>4, <4>2 DEF Has
    <3> QED BY <2>4, <3>5, <3>6, <3>7
  <2> QED BY <1>4, <2>2, <2>6, <2>7, <2>8, HookKinds
<1>5. ASSUME QuietStep PROVE Has(stack'[u])
  BY <1>2, <1>5, QuietFacts DEF Quiet, Whole
<1>6. ASSUME Register PROVE Has(stack'[u])
  BY <1>2, <1>6 DEF Register
<1>7. ASSUME UNCHANGED command,
             Finish \/ (\E g \in Hook : Call(g)) \/ (\E t \in Thread : NextHook(t))
      PROVE  Has(stack'[u])
  BY <1>2, <1>3, <1>7, BeginsFacts
<1>8. ASSUME UNCHANGED vars PROVE Has(stack'[u])
  BY <1>2, <1>8 DEF vars
<1>9. Has(stack'[u])
  BY <1>4, <1>5, <1>6, <1>7, <1>8, StepKinds DEF Whole
<1> QED BY <1>9 DEF Has

\* Every step: who works off its clone of exitHooks has set exiting.
LEMMA ExitsStep == TypeOK /\ Exits /\ [Next]_vars => Exits'
<1> SUFFICES ASSUME TypeOK, Exits, [Next]_vars PROVE Exits'
  OBVIOUS
<1> USE DEF Exits, TypeOK, Goto, exit, Idle
<1>1. CASE UNCHANGED vars
  BY <1>1 DEF vars
<1>2. ASSUME NEW t \in Thread, InHook(t) PROVE Exits'
  BY <1>2 DEF InHook, Enter, Delete, CallNext, Body, Return, Stop, StopCaught
<1>3. CASE Signal \/ Kill \/ Catch \/ Dismiss \/ TakeGate
  BY <1>3 DEF Signal, Kill, Catch, Dismiss, TakeGate
<1>4. CASE Register \/ StepIn \/ StepOut \/ Finish \/ Returned \/ Prompt
  BY <1>4 DEF Register, StepIn, StepOut, Finish, Returned, Prompt
<1>5. ASSUME NEW h \in Hook, Call(h) PROVE Exits'
  BY <1>5 DEF Call
<1>6. ASSUME NEW t \in Thread, SetExiting(t) \/ Clone(t) \/ OsExit(t) PROVE Exits'
  <2>1. CASE SetExiting(t) \/ OsExit(t)
    BY <2>1 DEF SetExiting, OsExit
  <2>2. CASE Clone(t)
    <3>1. exiting /\ exiting' = exiting /\ pc'[t] = "hooks"
          /\ \A u \in Thread \ {t} : todo'[u] = todo[u] /\ pc'[u] = pc[u]
      BY <2>2 DEF Clone
    <3> QED BY <3>1
  <2> QED BY <1>6, <2>1, <2>2
<1>7. ASSUME NEW t \in Thread, NextHook(t) PROVE Exits'
  <2>1. pc[t] = "hooks" /\ UNCHANGED <<pc, exiting>> /\ \A u \in Thread \ {t} : todo'[u] = todo[u]
    BY <1>7 DEF NextHook
  <2> QED BY <2>1
<1> QED BY <1>1, <1>2, <1>3, <1>4, <1>5, <1>6, <1>7 DEF Next, Main, ExitNow

\* Every step: the signal never comes to the hook the command blocks in.
LEMMA AbandonedStep ==
    Whole /\ Gates /\ Chains /\ Exits /\ Abandoned /\ [Next]_vars => Abandoned'
<1> SUFFICES ASSUME Whole, Gates, Chains, Exits, Abandoned, [Next]_vars PROVE Abandoned'
  OBVIOUS
<1> DEFINE Clear(l, d, s) == Stopper \in Hook =>
              Stopper \notin l \cup d /\ \A i \in 1 .. Len(s) : s[i].hook # Stopper
           Blocked(s) == s # <<>> /\ s[1].at = "stuck"
           Waiting == Blocked(stack["main"]) /\ stack["main"][1].hook = Stopper
<1>1. UNCHANGED Stopper
  BY DEF Next, vars, Stopper
<1>2. ~ Blocked(stack["signal"])
      /\ (Waiting => Clear(listed, todo["signal"], stack["signal"]))
  BY DEF Abandoned, Stuck
<1>3. SUFFICES /\ ~ Blocked(stack'["signal"])
               /\ (Waiting' => Clear(listed', todo'["signal"], stack'["signal"]))
  BY <1>1 DEF Abandoned, Stuck
<1> HIDE DEF Clear, Blocked, Waiting
<1> DEFINE Goal == /\ ~ Blocked(stack'["signal"])
                   /\ (Waiting' => Clear(listed', todo'["signal"], stack'["signal"]))
<1>4. ASSUME UNCHANGED stack, listed' \subseteq listed, todo'["signal"] \subseteq listed \cup todo["signal"]
      PROVE  Goal
  BY <1>1, <1>2, <1>4 DEF Clear, Waiting
<1>5. ASSUME ~ Blocked(stack'["main"]), stack'["signal"] = stack["signal"] PROVE Goal
  BY <1>2, <1>5 DEF Waiting
<1>6. ASSUME stack'["main"] = stack["main"], ~ Blocked(stack'["signal"]),
             Waiting => Clear(listed', todo'["signal"], stack'["signal"])
      PROVE  Goal
  BY <1>1, <1>6 DEF Waiting
<1>7. ASSUME NEW t \in Thread, NEW g \in AFrame, Begins(t, g) PROVE Goal
  <2>1. PICK n : n = <<g>> \o <<>>
    OBVIOUS
  <2>2. Len(n) = 1 /\ n[1] = g /\ n # <<>>
    BY <2>1
  <2>3. stack'[t] = n /\ \A u \in Thread \ {t} : stack'[u] = stack[u]
    <3>1. stack' = [stack EXCEPT ![t] = n]
      BY <1>7, <2>1 DEF Begins, Push
    <3> QED BY <3>1, OneStack DEF Whole
  <2>4. ~ Blocked(n)
    BY <1>7, <2>2 DEF Begins, Blocked
  <2>5. CASE t = "main"
    BY <1>5, <2>3, <2>4, <2>5 DEF Thread
  <2>6. CASE t = "signal"
    <3>1. /\ g.hook \in todo["signal"] /\ listed' = listed
          /\ todo'["signal"] = todo["signal"] \ {g.hook}
      BY <1>7, <2>6 DEF Begins, Whole, TypeOK, Thread
    <3>2. Waiting => Clear(listed', todo'["signal"], n)
      BY <1>2, <2>2, <3>1 DEF Clear
    <3> QED BY <1>6, <2>3, <2>4, <2>6, <3>2 DEF Thread
  <2> QED BY <2>5, <2>6 DEF Thread
<1>8. ASSUME NEW t \in Thread, InHook(t) PROVE Goal
  <2>1. PICK s : s = stack[t]
    OBVIOUS
  <2>2. PICK f : f = Top(t)
    OBVIOUS
  <2>3. /\ s # <<>> /\ s \in Seq(AFrame) /\ Len(s) \in Nat \ {0} /\ f = s[1] /\ f \in AFrame
        /\ FrameOK(t, f) /\ Chain(s) /\ f.at # "stuck"
        /\ listed' \subseteq listed /\ UNCHANGED <<todo, pc, exiting>>
    BY <1>8, <2>1, <2>2, HookKinds, TopFacts DEF Whole, Chains
  <2>4. t = "signal" => exiting
    BY <2>1, <2>3 DEF Gates, Exits
  <2>5. ASSUME NEW n, stack' = [stack EXCEPT ![t] = n],
               Blocked(n) => n[1].hook = f.hook /\ f.at = "caught" /\ ~ exiting,
               \A i \in 1 .. Len(n) :
                  (\E j \in 1 .. Len(s) : n[i].hook = s[j].hook) \/ n[i].hook # Stopper
        PROVE  Goal
    <3>1. stack'[t] = n /\ \A u \in Thread \ {t} : stack'[u] = stack[u]
      BY <2>5, OneStack DEF Whole
    <3>2. CASE t = "signal"
      <4>1. ~ Blocked(n)
        BY <2>4, <2>5, <3>2
      <4>2. Waiting => Clear(listed', todo'["signal"], n)
        BY <1>2, <2>1, <2>3, <2>5, <3>2 DEF Clear
      <4> QED BY <1>6, <3>1, <3>2, <4>1, <4>2 DEF Thread
    <3>3. CASE t = "main" /\ Blocked(n)
      <4>1. Len(stack["signal"]) = 0 /\ todo["signal"] = {}
        <5>1. pc["signal"] # "hooks"
          BY <2>5, <3>3 DEF Exits, Thread
        <5>2. stack["signal"] = <<>> /\ todo["signal"] = {}
          BY <5>1 DEF Gates, Exits, Thread
        <5> QED BY <5>2
      <4>2. ASSUME Stopper \in Hook, f.hook = Stopper PROVE Stopper \notin listed
        <5>1. once[Stopper] = "main" /\ f.at = "caught"
          BY <2>3, <2>5, <3>3, <4>2, HookConstants DEF FrameOK, Through
        <5>2. ~ Deleting("main", Stopper)
          BY <2>1, <2>3, <3>3, <5>1 DEF Deleting
        <5> QED BY <5>1, <5>2 DEF Whole, Listed, Thread
      <4>3. Waiting' => f.hook = Stopper
        BY <1>1, <2>5, <3>1, <3>3 DEF Waiting
      <4>4. Waiting' => Clear(listed', todo'["signal"], stack'["signal"])
        BY <2>3, <3>1, <3>3, <4>1, <4>2, <4>3 DEF Clear, Thread
      <4>5. ~ Blocked(stack'["signal"])
        BY <1>2, <3>1, <3>3 DEF Thread
      <4> QED BY <4>4, <4>5
    <3>4. CASE t = "main" /\ ~ Blocked(n)
      BY <1>5, <3>1, <3>4 DEF Thread
    <3> QED BY <3>2, <3>3, <3>4 DEF Thread
  <2>6. CASE Leaves(t, f)
    <3>1. PICK n : n = Tail(s)
      OBVIOUS
    <3>2. Len(n) \in Nat /\ \A i \in 1 .. Len(n) : i + 1 \in 2 .. Len(s) /\ n[i] = s[i + 1]
      BY <2>3, <3>1, PopFacts
    <3>3. stack' = [stack EXCEPT ![t] = n]
      BY <2>1, <2>6, <3>1 DEF Leaves, Pop
    <3>4. \A i \in 1 .. Len(n) : i + 1 \in 1 .. Len(s) /\ i + 1 # 1 /\ n[i].hook = s[i + 1].hook
      BY <3>2
    <3>5. ~ Blocked(n)
      <4>1. n # <<>> => 1 \in 1 .. Len(n)
        BY <2>3, <3>1, <3>2, PopFacts, EmptySeq
      <4>2. n # <<>> => n[1].at = "calls"
        BY <2>3, <3>2, <3>4, <4>1 DEF Chain
      <4> QED BY <4>2 DEF Blocked
    <3> QED BY <2>5, <3>3, <3>4, <3>5
  <2>7. ASSUME NEW g \in AFrame, Follows(f, g), Goes(t, f, g) PROVE Goal
    <3>1. PICK n : n = <<g>> \o Tail(s)
      OBVIOUS
    <3>2. Len(n) = Len(s) /\ n[1] = g /\ \A i \in 2 .. Len(s) : n[i] = s[i]
      BY <2>3, <3>1, ReplaceFacts
    <3>3. stack' = [stack EXCEPT ![t] = n]
      BY <2>1, <2>7, <3>1 DEF Goes, Replace
    <3>4. \A i \in 1 .. Len(n) : i \in 1 .. Len(s) /\ n[i].hook = s[i].hook
      BY <2>3, <2>7, <3>2 DEF Follows
    <3>5. Blocked(n) => n[1].hook = f.hook /\ f.at = "caught" /\ ~ exiting
      BY <2>7, <3>2 DEF Blocked, Goes, Follows
    <3> QED BY <2>5, <3>3, <3>4, <3>5
  <2>8. ASSUME NEW g \in AFrame, NEW c \in AFrame, Follows(f, g), Calls(t, f, g, c) PROVE Goal
    <3>1. PICK m : m = <<g>> \o Tail(s)
      OBVIOUS
    <3>2. PICK n : n = <<c>> \o m
      OBVIOUS
    <3>3. m \in Seq(AFrame) /\ Len(m) = Len(s) /\ m[1] = g /\ \A i \in 2 .. Len(s) : m[i] = s[i]
      BY <2>3, <3>1, ReplaceFacts
    <3>4. /\ n[1] = c /\ Len(n) = Len(m) + 1
          /\ \A i \in 2 .. Len(n) : i - 1 \in 1 .. Len(m) /\ n[i] = m[i - 1]
      BY <3>2, <3>3, PushFacts
    <3>5. stack' = [stack EXCEPT ![t] = n]
      BY <2>1, <2>8, <3>1, <3>2 DEF Calls
    <3>6. c.at = "enter" /\ c.hook # Stopper
      <4>1. PICK l \in 1 .. Len(f.left) : c = Frame(f.left[l], "enter")
        BY <2>8 DEF Calls
      <4>2. f.left[l] # Stopper
        BY <2>3 DEF FrameOK
      <4> QED BY <4>1, <4>2 DEF Frame
    <3>7. ~ Blocked(n)
      BY <3>4, <3>6 DEF Blocked
    <3>8. ASSUME NEW i \in 1 .. Len(n)
          PROVE  (\E j \in 1 .. Len(s) : n[i].hook = s[j].hook) \/ n[i].hook # Stopper
      <4>1. CASE i = 1
        BY <3>4, <3>6, <4>1
      <4>2. CASE i # 1
        <5>1. i - 1 \in 1 .. Len(s) /\ n[i] = m[i - 1]
          BY <3>3, <3>4, <4>2
        <5>2. m[i - 1].hook = s[i - 1].hook
          BY <2>3, <2>8, <3>3, <5>1 DEF Follows
        <5> QED BY <5>1, <5>2
      <4> QED BY <4>1, <4>2
    <3> QED BY <2>5, <3>5, <3>7, <3>8
  <2> QED BY <1>8, <2>2, <2>6, <2>7, <2>8, HookKinds
<1>9. ASSUME QuietStep PROVE Goal
  <2>1. UNCHANGED <<stack, listed>>
    BY <1>9, QuietFacts DEF QuietStep, Signals, QuietMain, QuietExit, Signal, Kill, Catch, Dismiss,
       TakeGate, StepIn, StepOut, Returned, Prompt, SetExiting, Clone, OsExit, hooks, Quiet, Whole
  <2>2. todo'["signal"] \subseteq listed \cup todo["signal"]
    <3>1. CASE \E t \in Thread : Clone(t)
      BY <3>1 DEF Clone, Whole, TypeOK, Thread
    <3>2. CASE ~ \E t \in Thread : Clone(t)
      <4>1. UNCHANGED todo
        BY <1>9, <3>2 DEF QuietStep, Signals, QuietMain, QuietExit, Signal, Kill, Catch, Dismiss,
           TakeGate, StepIn, StepOut, Returned, Prompt, SetExiting, OsExit, exit
      <4> QED BY <4>1
    <3> QED BY <3>1, <3>2
  <2> QED BY <1>4, <2>1, <2>2
<1>10. ASSUME Register PROVE Goal
  <2>1. UNCHANGED stack /\ stack["main"] = <<>>
    BY <1>10 DEF Register, Idle
  <2> QED BY <1>5, <2>1 DEF Blocked
<1>11. ASSUME UNCHANGED command,
              Finish \/ (\E h \in Hook : Call(h)) \/ (\E t \in Thread : NextHook(t))
       PROVE  Goal
  <2>1. CASE UNCHANGED <<listed, once, stack, todo>>
    BY <1>4, <2>1
  <2> QED BY <1>7, <1>11, <2>1, BeginsFacts
<1>12. ASSUME UNCHANGED vars PROVE Goal
  BY <1>4, <1>12 DEF vars
<1> QED BY <1>8, <1>9, <1>10, <1>11, <1>12, StepKinds DEF Whole

\* The first state: nobody is in a hook.
LEMMA InitWaits == Init => Chains /\ Held /\ Exits /\ Abandoned
<1> SUFFICES ASSUME Init PROVE Chains /\ Held /\ Exits /\ Abandoned
  OBVIOUS
<1>1. \A t \in Thread : stack[t] = <<>> /\ Len(stack[t]) = 0
  BY DEF Init
<1>2. \A h \in Hook : once[h] \notin Thread
  BY DEF Init, Thread
<1>3. \A t \in Thread : pc[t] # "hooks" /\ todo[t] = {}
  BY DEF Init, Thread
<1> QED BY <1>1, <1>2, <1>3 DEF Chains, Chain, Held, Exits, Abandoned, Stuck, Thread

\* The invariant of every state, with who waits for whom.
THEOREM WaitsInvariance == Spec => []WInv
<1>1. Init => WInv
  BY InitInv, InitWaits DEF WInv
<1>2. WInv /\ [Next]_vars => WInv'
  BY WholeStep, GatesStep, FindsStep, EndsStep, CleaningStep, LockStep,
     ChainsStep, HeldStep, ExitsStep, AbandonedStep DEF WInv, IInv, Whole
<1> QED BY <1>1, <1>2, PTL DEF Spec

\* Nobody waits for ever, whatever the commands register and their hooks call:
\* not for a hook (the sync.Once of onExit), not for exitGate, and not for one
\* that stop() keeps blocked (onExit, exitOnSignal).
THEOREM NoVainWait == Spec => []NobodyWaitsInVain
<1>1. ASSUME WInv PROVE NobodyWaitsInVain
  <2> USE <1>1 DEF WInv, IInv
  <2>1. ASSUME NEW t \in Thread, Waits(t)
        PROVE  /\ stack[t] # <<>> /\ Len(stack[t]) \in Nat \ {0} /\ 1 \in 1 .. Len(stack[t])
               /\ Top(t) = stack[t][1] /\ Top(t).hook \in Hook /\ ~ Through(stack[t][1])
    <3>1. In(t, "enter") /\ Whole
      BY <2>1 DEF Waits, Whole
    <3>2. /\ stack[t] # <<>> /\ Top(t).at = "enter" /\ Top(t).hook \in Hook
          /\ Top(t) = stack[t][1]
      BY <3>1, InFacts DEF Stage
    <3>3. Len(stack[t]) \in Nat \ {0}
      BY <3>2, TopFacts
    <3> QED BY <3>2, <3>3 DEF Through
  <2>2. ASSUME NEW t \in Thread, NEW u \in Thread, Waits(t), NEW h, h = stack[t][1].hook,
               NEW i \in 1 .. Len(stack[t]), Through(stack[t][i])
        PROVE  stack[t][i].hook # h /\ Below(h, stack[t][i].hook)
    <3>1. i # 1 /\ 1 < i /\ 1 \in 1 .. Len(stack[t])
      BY <2>1, <2>2
    <3>2. Below(h, stack[t][i].hook)
      BY <2>2, <3>1 DEF Chains, Chain
    <3>3. h \in Hook /\ Ranking(command) \in [Hook -> Nat]
      BY <2>1, <2>2, RankingFacts
    <3> QED BY <3>2, <3>3 DEF Below
  <2>3. ASSUME NEW t \in Thread, Waits(t), NEW u \in Thread, u = once[Top(t).hook]
        PROVE  u # t /\ ~ Waits(u) /\ ~ In(u, "stuck")
    <3>1. PICK h \in Hook : h = Top(t).hook /\ h = stack[t][1].hook /\ once[h] = u
      BY <2>1, <2>3
    <3>2. PICK i \in 1 .. Len(stack[u]) : stack[u][i].hook = h /\ Through(stack[u][i])
      BY <3>1 DEF Held
    <3>3. u # t
      BY <2>2, <2>3, <3>1, <3>2
    <3>4. ~ Waits(u)
      <4> SUFFICES ASSUME Waits(u) PROVE FALSE
        OBVIOUS
      <4>1. PICK k \in Hook : k = Top(u).hook /\ k = stack[u][1].hook /\ once[k] \in Thread
        BY <2>1 DEF Waits
      <4>2. PICK v \in Thread : once[k] = v
        BY <4>1
      <4>3. PICK j \in 1 .. Len(stack[v]) : stack[v][j].hook = k /\ Through(stack[v][j])
        BY <4>2 DEF Held
      <4>4. v = t
        BY <2>2, <3>3, <4>1, <4>3 DEF Thread
      <4>5. Below(k, h) /\ Below(h, k)
        BY <2>2, <2>3, <3>1, <3>2, <4>1, <4>3, <4>4
      <4> QED BY <4>5, RankingFacts DEF Below
    <3>5. ~ In(u, "stuck")
      <4> SUFFICES ASSUME In(u, "stuck") PROVE FALSE
        OBVIOUS
      <4>1. /\ stack[u] # <<>> /\ Len(stack[u]) \in Nat \ {0} /\ 1 \in 1 .. Len(stack[u])
            /\ stack[u][1].at = "stuck" /\ FrameOK(u, stack[u][1])
        BY TopFacts DEF In, Top
      <4>2. Stuck(u) /\ u = "main" /\ t = "signal"
        BY <3>3, <4>1 DEF Stuck, Abandoned, Thread
      <4>3. stack[u][1].hook \in {NoHook, Stopper} /\ Len(stack[u]) = 1
        BY <4>1 DEF FrameOK, Chains, Chain
      <4>4. h = Stopper /\ stack["main"][1].hook = Stopper
        BY <3>2, <4>2, <4>3, HookConstants
      <4>5. stack["signal"][1].hook # Stopper
        BY <2>1, <2>3, <4>2, <4>4 DEF Abandoned
      <4> QED BY <3>1, <4>2, <4>4, <4>5
    <3> QED BY <3>3, <3>4, <3>5
  <2>4. ASSUME gate = "main", pc["signal"] = "gate"
        PROVE  ~ Waits("main") /\ ~ In("main", "stuck")
    <3>1. pc["main"] = "step" /\ stack["signal"] = <<>> /\ Len(stack["signal"]) = 0
      BY <2>4 DEF Gates
    <3>2. ~ Waits("main")
      <4> SUFFICES ASSUME Waits("main") PROVE FALSE
        OBVIOUS
      <4>1. PICK h \in Hook : h = Top("main").hook /\ once[h] \in Thread
        BY <2>1 DEF Waits, Thread
      <4>2. once[h] # "main"
        BY <2>3, <4>1 DEF Thread
      <4>3. once[h] = "signal"
        BY <4>1, <4>2 DEF Thread
      <4> QED BY <3>1, <4>3 DEF Held, Thread
    <3>3. ~ In("main", "stuck")
      <4> SUFFICES ASSUME In("main", "stuck") PROVE FALSE
        OBVIOUS
      <4>1. Top("main").at = "stuck" /\ FrameOK("main", Top("main"))
        BY TopFacts DEF In, Top, Thread
      <4> QED BY <3>1, <4>1 DEF FrameOK
    <3> QED BY <3>2, <3>3
  <2>5. \A t \in Thread : Waits(t) => once[Top(t).hook] \in Thread
    BY DEF Waits
  <2> QED BY <2>3, <2>4, <2>5 DEF NobodyWaitsInVain
<1> QED BY WaitsInvariance, <1>1, PTL

=============================================================================
