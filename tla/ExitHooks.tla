----------------------------- MODULE ExitHooks -----------------------------
(***************************************************************************)
(* What ends an upgrade or a deploy early, and what it leaves behind:      *)
(* onExit, exitNow, runExitHooks, exitGate and exitOnSignal of lock.go.    *)
(* A run registers hooks that undo what it put in the project (its lock,   *)
(* the bundle download); each runs once, called by the run itself or by    *)
(* whoever ends the process, a prompt or a signal.                         *)
(*                                                                         *)
(* Two goroutines: "main" runs the command, "signal" the one exitOnSignal  *)
(* starts.  Each has a stack of the hooks it is in.  A critical section of *)
(* exitMu is one step; everything else interleaves.  The model begins when *)
(* exitOnSignal has returned, with the first hook (the lock) registered.   *)
(***************************************************************************)
EXTENDS Naturals, Sequences

CONSTANTS
    Commands,   \* the commands, of type Command
    Hook,       \* the hooks they register
    NoHook, Nobody

\* A command: the hooks it registers, in order; per hook, the hooks its
\* function calls, in order; and the hook whose function ends in stop(), or
\* NoHook when the command calls stop() itself, before its deferred hooks.
Command == [hooks : Seq(Hook) \ {<<>>}, calls : [Hook -> Seq(Hook)], stopper : Hook \cup {NoHook}]

Thread == {"main", "signal"}

\* Every onExit registers a hook of its own, and none calls the one that stops.
\* A command registers its lock first, and last the download, which calls none.
\* Calls do not go round: a deploy's close calls the hooks made before it and the
\* download's, and those call none (the ranks).
ASSUME HookConstants ==
    /\ Commands \subseteq Command
    /\ \A c \in Commands : \A i, j \in 1 .. Len(c.hooks) : c.hooks[i] = c.hooks[j] => i = j
    /\ \A c \in Commands : \A h \in Hook : \A i \in 1 .. Len(c.calls[h]) :
          c.calls[h][i] # c.stopper
    /\ \A c \in Commands : Len(c.hooks) > 1 /\ c.calls[c.hooks[Len(c.hooks)]] = <<>>
    /\ \A c \in Commands : \E rank \in [Hook -> 0 .. Len(c.hooks)] :
          \A h \in Hook : \A i \in 1 .. Len(c.calls[h]) : rank[c.calls[h][i]] < rank[h]
    /\ NoHook \notin Hook
    /\ Nobody \notin Thread

VARIABLES
    command,   \* the command of this process
    made,      \* how many of its hooks it has registered
    listed,    \* exitHooks: the hooks registered and not begun, which it
               \* keeps in the order of their registration
    once,      \* per hook: its sync.Once: "ready", the goroutine in it, "done"
    stack,     \* per goroutine: the hooks it is in, innermost first
    pc,        \* per goroutine: where it is outside hooks
    todo,      \* per goroutine: what is left of its clone of exitHooks
    found,     \* per goroutine: that clone
    gate,      \* who holds exitGate, or Nobody
    pending,   \* a signal is in the channel
    caught,    \* the channel caught is closed
    stopped,   \* stop(): the signals are the CLI's own again, done is closed
    exiting,   \* the flag of the same name
    ended      \* "no", or what ended the process

vars == <<command, made, listed, once, stack, pc, todo, found, gate, pending, caught,
          stopped, exiting, ended>>

Hooks == command.hooks
Stopper == command.stopper

hooks == <<made, listed, once>>
signals == <<pending, caught, stopped>>
exit == <<todo, found, exiting, ended>>

Made == {Hooks[i] : i \in 1 .. made}

Stage == {"enter", "delete", "calls", "body", "stop", "caught", "stuck", "done"}

TypeOK ==
    /\ command \in Commands
    /\ made \in 1 .. Len(Hooks)
    /\ listed \subseteq {h \in Made : once[h] # "done"}
    /\ once \in [Hook -> {"ready", "done"} \cup Thread]
    /\ stack \in [Thread -> Seq([hook : Hook \cup {NoHook}, at : Stage, left : Seq(Hook)])]
    /\ pc \in [Thread -> {"work", "step", "defers", "select", "gate", "exitnow", "hooks", "gone"}]
    /\ todo \in [Thread -> SUBSET Hook]
    /\ found \in [Thread -> SUBSET Hook]
    /\ gate \in Thread \cup {Nobody}
    /\ <<pending, caught, stopped, exiting>> \in BOOLEAN \X BOOLEAN \X BOOLEAN \X BOOLEAN
    /\ ended \in {"no", "own", "prompt", "interrupted", "killed"}

Init ==
    /\ command \in Commands
    /\ made = 1
    /\ listed = {Hooks[1]}
    /\ once = [h \in Hook |-> "ready"]
    /\ stack = [t \in Thread |-> <<>>]
    /\ pc = [main |-> "work", signal |-> "select"]
    /\ todo = [t \in Thread |-> {}]
    /\ found = [t \in Thread |-> {}]
    /\ gate = Nobody
    /\ pending = FALSE /\ caught = FALSE /\ stopped = FALSE
    /\ exiting = FALSE
    /\ ended = "no"

-----------------------------------------------------------------------------
(* The hooks.                                                              *)

Idle(t) == ended = "no" /\ stack[t] = <<>>

In(t, at) == ended = "no" /\ stack[t] # <<>> /\ Head(stack[t]).at = at

Top(t) == Head(stack[t])

Goto(t, l) == pc' = [pc EXCEPT ![t] = l]

Frame(h, at) == [hook |-> h, at |-> at, left |-> IF h = NoHook THEN <<>> ELSE command.calls[h]]

Push(t, f) == stack' = [stack EXCEPT ![t] = <<f>> \o @]

Pop(t) == stack' = [stack EXCEPT ![t] = Tail(@)]

Replace(t, f) == stack' = [stack EXCEPT ![t] = <<f>> \o Tail(@)]

Move(t, at) == Replace(t, [Top(t) EXCEPT !.at = at])

\* Mutant of Enter: a flag in place of the Once, nobody waits.
EnterOrSkip(t) ==
    /\ In(t, "enter")
    /\ IF once[Top(t).hook] = "ready"
       THEN once' = [once EXCEPT ![Top(t).hook] = t] /\ Move(t, "delete")
       ELSE Pop(t) /\ UNCHANGED once
    /\ UNCHANGED <<made, listed, pc, gate, signals, exit>>

\* sync.Once: the first caller runs the function, the others wait for it.
Enter(t) ==
    /\ In(t, "enter")
    /\ \/ /\ once[Top(t).hook] = "ready"
          /\ once' = [once EXCEPT ![Top(t).hook] = t]
          /\ Move(t, "delete")
       \/ /\ once[Top(t).hook] = "done"
          /\ Pop(t)
          /\ UNCHANGED once
    /\ UNCHANGED <<made, listed, pc, gate, signals, exit>>

\* The hook leaves exitHooks before its function runs.
Delete(t) ==
    /\ In(t, "delete")
    /\ listed' = listed \ {Top(t).hook}
    /\ Move(t, "calls")
    /\ UNCHANGED <<made, once, pc, gate, signals, exit>>

\* The hooks the function calls; one the run has not registered yet is nil.
CallNext(t) ==
    /\ In(t, "calls")
    /\ LET left == Top(t).left
           rest == [Top(t) EXCEPT !.left = Tail(left)]
       IN  \/ left = <<>> /\ Move(t, "body")
           \/ left # <<>> /\ Head(left) \notin Made /\ Replace(t, rest)
           \/ /\ left # <<>> /\ Head(left) \in Made
              /\ stack' = [stack EXCEPT ![t] =
                              <<Frame(Head(left), "enter")>> \o (<<rest>> \o Tail(@))]
    /\ UNCHANGED <<hooks, pc, gate, signals, exit>>

\* What the hook undoes is undone: the lock released, the download removed.
Body(t) ==
    /\ In(t, "body")
    /\ Move(t, IF Top(t).hook = Stopper THEN "stop" ELSE "done")
    /\ UNCHANGED <<hooks, pc, gate, signals, exit>>

Return(t) ==
    /\ In(t, "done")
    /\ once' = IF Top(t).hook = NoHook THEN once ELSE [once EXCEPT ![Top(t).hook] = "done"]
    /\ Pop(t)
    /\ UNCHANGED <<made, listed, pc, gate, signals, exit>>

\* stop(): signal.Stop, close(done) ...
Stop(t) ==
    /\ In(t, "stop")
    /\ stopped' = TRUE
    /\ Move(t, "caught")
    /\ UNCHANGED <<hooks, pc, gate, pending, caught, exit>>

\* Mutant of StopCaught: stop() does not look at exiting.
StopAlways(t) ==
    /\ In(t, "caught")
    /\ Move(t, IF caught THEN "stuck" ELSE "done")
    /\ UNCHANGED <<hooks, pc, gate, signals, exit>>

\* ... and, when a signal is ending the run, leave the exit to it.
StopCaught(t) ==
    /\ In(t, "caught")
    /\ Move(t, IF caught /\ ~exiting THEN "stuck" ELSE "done")
    /\ UNCHANGED <<hooks, pc, gate, signals, exit>>

-----------------------------------------------------------------------------
(* The command.                                                            *)

Register ==
    /\ Idle("main") /\ pc["main"] = "work" /\ made < Len(Hooks)
    /\ made' = made + 1
    /\ listed' = listed \cup {Hooks[made + 1]}
    /\ UNCHANGED <<once, stack, pc, gate, signals, exit>>

\* A step that must not be cut in half: swapIn, writeEnvFile, writeResetSchema.
StepIn ==
    /\ Idle("main") /\ pc["main"] = "work" /\ gate = Nobody
    /\ gate' = "main"
    /\ Goto("main", "step")
    /\ UNCHANGED <<hooks, stack, signals, exit>>

\* Mutant of StepOut: a way out that forgets to unlock the gate.
StepOutLocked ==
    /\ Idle("main") /\ pc["main"] = "step"
    /\ Goto("main", "work")
    /\ UNCHANGED <<hooks, stack, gate, signals, exit>>

StepOut ==
    /\ Idle("main") /\ pc["main"] = "step"
    /\ gate' = Nobody
    /\ Goto("main", "work")
    /\ UNCHANGED <<hooks, stack, signals, exit>>

\* The hook the command leaves for last: the lock, or the one that stops.
LastHook == IF Stopper = NoHook THEN Hooks[1] ELSE Stopper

\* Mutant of Call: the lock is given up before the command's last step.
CallEarly(h) ==
    /\ Idle("main") /\ h \in Made /\ once[h] # "done"
    /\ IF h = LastHook THEN pc["main"] \in {"work", "step", "defers"}
       ELSE h = Hooks[Len(Hooks)] /\ pc["main"] \in {"work", "step"}
    /\ Push("main", Frame(h, "enter"))
    /\ UNCHANGED <<hooks, pc, gate, signals, exit>>

\* cleanup() removes the download, within a gated step too (rollback).
Call(h) ==
    /\ Idle("main") /\ h \in Made /\ once[h] # "done"
    /\ IF h = LastHook THEN pc["main"] = "defers"
       ELSE h = Hooks[Len(Hooks)] /\ pc["main"] \in {"work", "step"}
    /\ Push("main", Frame(h, "enter"))
    /\ UNCHANGED <<hooks, pc, gate, signals, exit>>

\* The deferred calls: upgradeDocker's remove the download, stop() and then
\* unlock; a deploy's end in close, which does it all.
Finish ==
    /\ Idle("main") /\ pc["main"] = "work"
    /\ LastHook \in Made
    /\ Stopper = NoHook => \A h \in Made \ {LastHook} : once[h] = "done"
    /\ Goto("main", "defers")
    /\ IF Stopper = NoHook THEN Push("main", Frame(NoHook, "stop")) ELSE UNCHANGED stack
    /\ UNCHANGED <<hooks, gate, signals, exit>>

Returned ==
    /\ Idle("main") /\ pc["main"] = "defers"
    /\ \A h \in Made : once[h] = "done"
    /\ ended' = "own"
    /\ UNCHANGED <<hooks, stack, pc, gate, signals, todo, found, exiting>>

\* A prompt without an answer: exitNow(1).
Prompt ==
    /\ Idle("main") /\ pc["main"] = "work"
    /\ Goto("main", "exitnow")
    /\ UNCHANGED <<hooks, stack, gate, signals, exit>>

-----------------------------------------------------------------------------
(* Signals, and the end of the process.                                    *)

Signal ==
    /\ ended = "no" /\ ~stopped /\ ~pending
    /\ pending' = TRUE
    /\ UNCHANGED <<hooks, stack, pc, gate, caught, stopped, exit>>

\* Once they are the CLI's own again, a signal ends the process at once.
Kill ==
    /\ ended = "no" /\ stopped
    /\ ended' = "killed"
    /\ UNCHANGED <<hooks, stack, pc, gate, signals, todo, found, exiting>>

Catch ==
    /\ Idle("signal") /\ pc["signal"] = "select" /\ pending
    /\ caught' = TRUE
    /\ Goto("signal", "gate")
    /\ UNCHANGED <<hooks, stack, gate, pending, stopped, exit>>

Dismiss ==
    /\ Idle("signal") /\ pc["signal"] = "select" /\ stopped
    /\ Goto("signal", "gone")
    /\ UNCHANGED <<hooks, stack, gate, signals, exit>>

\* Mutant of TakeGate: the signal does not wait for the step under way.
TakeGateAtOnce ==
    /\ Idle("signal") /\ pc["signal"] = "gate"
    /\ Goto("signal", "exitnow")
    /\ UNCHANGED <<hooks, stack, gate, signals, exit>>

TakeGate ==
    /\ Idle("signal") /\ pc["signal"] = "gate" /\ gate = Nobody
    /\ gate' = "signal"
    /\ Goto("signal", "exitnow")
    /\ UNCHANGED <<hooks, stack, signals, exit>>

SetExiting(t) ==
    /\ Idle(t) /\ pc[t] = "exitnow" /\ ~exiting
    /\ exiting' = TRUE
    /\ UNCHANGED <<hooks, stack, pc, gate, signals, todo, found, ended>>

\* runExitHooks: a clone of exitHooks, worked off newest first.
Clone(t) ==
    /\ Idle(t) /\ pc[t] = "exitnow" /\ exiting
    /\ todo' = [todo EXCEPT ![t] = listed]
    /\ found' = [found EXCEPT ![t] = listed]
    /\ Goto(t, "hooks")
    /\ UNCHANGED <<hooks, stack, gate, signals, exiting, ended>>

NextHook(t) ==
    /\ Idle(t) /\ pc[t] = "hooks"
    /\ \E i \in 1 .. made :
          /\ Hooks[i] \in todo[t]
          /\ \A j \in i + 1 .. made : Hooks[j] \notin todo[t]
          /\ Push(t, Frame(Hooks[i], "enter"))
          /\ todo' = [todo EXCEPT ![t] = @ \ {Hooks[i]}]
    /\ UNCHANGED <<hooks, pc, gate, signals, found, exiting, ended>>

OsExit(t) ==
    /\ Idle(t) /\ pc[t] = "hooks" /\ todo[t] = {}
    /\ ended' = IF t = "main" THEN "prompt" ELSE "interrupted"
    /\ UNCHANGED <<hooks, stack, pc, gate, signals, todo, found, exiting>>

-----------------------------------------------------------------------------
InHook(t) == Enter(t) \/ Delete(t) \/ CallNext(t) \/ Body(t) \/ Return(t) \/ Stop(t) \/ StopCaught(t)

ExitNow(t) == SetExiting(t) \/ Clone(t) \/ NextHook(t) \/ OsExit(t)

Main == Register \/ StepIn \/ StepOut \/ (\E h \in Hook : Call(h)) \/ Finish \/ Returned \/ Prompt

Next ==
    /\ \/ \E t \in Thread : InHook(t) \/ ExitNow(t)
       \/ Main \/ Signal \/ Kill \/ Catch \/ Dismiss \/ TakeGate
    /\ UNCHANGED command

Spec == Init /\ [][Next]_vars

\* The goroutines are scheduled; a gated step comes to an end, and a mutex
\* (exitGate) is handed to a goroutine that keeps waiting for it.
Fairness ==
    /\ \A t \in Thread :
          /\ WF_vars(InHook(t) /\ UNCHANGED command)
          /\ WF_vars(ExitNow(t) /\ UNCHANGED command)
    /\ WF_vars(StepOut /\ UNCHANGED command)
    /\ WF_vars((Catch \/ Dismiss) /\ UNCHANGED command)
    /\ SF_vars(TakeGate /\ UNCHANGED command)

FairSpec == Spec /\ Fairness

-----------------------------------------------------------------------------
(***************************************************************************)
(* What holds of it.                                                       *)
(***************************************************************************)

Finished(h) == once[h] = "done"

\* "A step that must not be cut in half" (exitGate): no signal and no prompt
\* ends the process while the command replaces .env or swaps bundle files.
StepsAreWhole == ended # "no" => gate # "main"

\* "One run at a time": as long as the command is in the middle of .env or of
\* the bundle files, nobody has begun to give its lock up, not its own cleanup
\* and not the exit of a signal that came meanwhile.
StepsUnderLock == pc["main"] = "step" => once[Hooks[1]] = "ready"

\* "Either way f runs once" (onExit): the process does not end by itself
\* before every hook of the run is through, even one the other goroutine has
\* begun, and exitNow waits for every hook it found registered.
FoundHooksFinish ==
    /\ ended = "own" => \A h \in Made : Finished(h)
    /\ ended = "prompt" => \A h \in found["main"] : Finished(h)
    /\ ended = "interrupted" => \A h \in found["signal"] : Finished(h)

Waits(t) == In(t, "enter") /\ once[Top(t).hook] \in Thread

\* Nobody waits for what does not come (sync.Once in onExit, select {} in stop(),
\* exitGate): the goroutine that is in a hook another one waits for neither
\* waits for a hook in turn, its own among them, nor blocks for ever in stop();
\* and the command does neither in a step that a signal waits for.
NobodyWaitsInVain ==
    /\ \A t \in Thread : Waits(t) =>
          LET u == once[Top(t).hook] IN u # t /\ ~ Waits(u) /\ ~ In(u, "stuck")
    /\ gate = "main" /\ pc["signal"] = "gate" => ~ Waits("main") /\ ~ In("main", "stuck")

\* A signal that was caught ends the process, although stop() blocks the
\* command for ever (select {}), even inside a hook the exit has to wait for.
CaughtEnds == caught ~> ended # "no"

=============================================================================
