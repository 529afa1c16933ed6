------------------------------- MODULE Signals -------------------------------
(***************************************************************************)
(* Package os/signal on KolibriOS: Notify, Stop, Reset and Ignore, and the *)
(* goroutine that polls the console for Ctrl-C and for a new size.  A step *)
(* is what happens between two uses of shared state: handlers.Mutex is     *)
(* held over several of them, nativeSignals.Mutex never over more than     *)
(* one, nativeSignalDispatch by the poller over a round.  Two of the       *)
(* signals have a source; a console that was opened stays.                 *)
(***************************************************************************)
EXTENDS Integers, Sequences, FiniteSets, SequencesExt

CONSTANTS
    G,         \* goroutines that call the package
    C,         \* their channels, which have room for one signal
    First,     \* the signal each of them names first
    MaxCalls,  \* bound of the model: calls
    None

Interrupt == "SIGINT"
Winch == "SIGWINCH"
Signal == {Interrupt, Winch}

ASSUME SignalsAssumption ==
    /\ IsFiniteSet(G) /\ IsFiniteSet(C)
    /\ First \in [G -> Signal]
    /\ MaxCalls \in Nat
    /\ None \notin G \cup C /\ \A S \in SUBSET Signal : S # None

VARIABLES
    handlers,  \* handlers.m: the signals each channel wants, or None
    ref,       \* handlers.ref
    stopping,  \* handlers.stopping
    lock,      \* who holds handlers.Mutex
    enabled, ignored,     \* nativeSignals
    wake,      \* nativeSignalWake holds a token
    mode,      \* what the console does with Ctrl-C: 0 queue, 1 capture, 2 drop
    pending,   \* Ctrl-C was captured
    console,   \* there is an active console
    resized,   \* its size is not the one the poller measured last
    poll,      \* the poller: [pc, enabled, measured]
    call,      \* what each goroutine is doing: [pc, c, mask, todo, ignore]
    full,      \* channels with a signal in them, no matter which
    owed,      \* history: see Take
    crossed,   \* history: channels that two Stops were under way for at once
    failed,    \* history: a call panicked
    calls      \* calls so far

table == <<handlers, ref, stopping>>
native == <<enabled, ignored>>
tty == <<mode, pending, console, resized>>
history == <<owed, crossed, failed, calls>>
signalVars == <<table, lock, native, wake, tty, poll, call, full, history>>

Idle == [pc |-> "idle", c |-> None, mask |-> {}, todo |-> {}, ignore |-> FALSE]

SignalsTypeOK ==
    /\ handlers \in [C -> (SUBSET Signal) \cup {None}]
    /\ ref \in [Signal -> Int]
    /\ stopping \in Seq([c : C, mask : SUBSET Signal])
    /\ lock \in G \cup {None}
    /\ enabled \subseteq Signal /\ ignored \subseteq Signal
    /\ wake \in BOOLEAN
    /\ mode \in 0 .. 2 /\ pending \in BOOLEAN /\ console \in BOOLEAN
    /\ resized \in BOOLEAN
    /\ poll \in [pc : {"none", "look", "asleep", "begin", "take",
                       "interrupt", "measure", "resized"},
                 enabled : SUBSET Signal, measured : BOOLEAN]
    /\ call \in [G -> [pc : {"idle", "add", "enable", "wake", "remove", "drop",
                             "barrier", "forget"},
                       c : C \cup {None}, mask : SUBSET Signal,
                       todo : SUBSET Signal, ignore : BOOLEAN]]
    /\ full \subseteq C /\ owed \subseteq C /\ crossed \subseteq C /\ failed \in BOOLEAN
    /\ calls \in 0 .. MaxCalls

SignalsInit ==
    /\ handlers = [c \in C |-> None]
    /\ ref = [n \in Signal |-> 0]
    /\ stopping = <<>> /\ lock = None
    /\ enabled = {} /\ ignored = {} /\ wake = FALSE
    /\ mode = 0 /\ pending = FALSE /\ console \in BOOLEAN /\ resized = FALSE
    /\ poll = [pc |-> "none", enabled |-> {}, measured |-> FALSE]
    /\ call = [g \in G |-> Idle]
    /\ full = {} /\ owed = {} /\ crossed = {} /\ failed = FALSE /\ calls = 0

-----------------------------------------------------------------------------
Wants(c, n) == handlers[c] # None /\ n \in handlers[c]
At(g, p) == call[g].pc = p
Goto(g, p) == call' = [call EXCEPT ![g].pc = p]

\* g's call of the package, under handlers.Mutex.
Enter(g, p, c, mask, todo, ignore) ==
    /\ At(g, "idle") /\ lock = None /\ calls < MaxCalls
    /\ lock' = g /\ calls' = calls + 1
    /\ call' = [call EXCEPT ![g] = [pc |-> p, c |-> c, mask |-> mask,
                                    todo |-> todo, ignore |-> ignore]]

LeaveCall(g) == lock' = None /\ call' = [call EXCEPT ![g] = Idle]

\* The next signal of the call: Stop goes by their numbers, the others by the
\* order in which the caller gave them.
Todo(g) ==
    LET first == IF At(g, "drop") THEN Interrupt ELSE First[g] IN
    {n \in call[g].todo : n = first \/ first \notin call[g].todo}
Did(g, n, p) ==
    call' = [call EXCEPT ![g].todo = @ \ {n}, ![g].pc = p]

-----------------------------------------------------------------------------
\* Notify.
Notify(g, c, S) ==
    /\ Enter(g, "add", c, {}, S, FALSE)
    /\ handlers' = [handlers EXCEPT ![c] = IF @ = None THEN {} ELSE @]
    /\ UNCHANGED <<ref, stopping, native, wake, tty, poll, full,
                   owed, crossed, failed>>

\* A signal the channel has already, or that is enabled for another one.
Add(g) ==
    /\ At(g, "add")
    /\ \E n \in Todo(g) :
          LET c == call[g].c IN
          /\ Wants(c, n) \/ ref[n] # 0
          /\ handlers' = [handlers EXCEPT ![c] = @ \cup {n}]
          /\ ref' = [ref EXCEPT ![n] = IF Wants(c, n) THEN @ ELSE @ + 1]
          /\ Did(g, n, "add")
    /\ UNCHANGED <<stopping, lock, native, wake, tty, poll, full, history>>

\* enableSignal sets the console's mode for the first one, or panics ...
AddFirst(g) ==
    /\ At(g, "add")
    /\ \E n \in Todo(g) :
          LET c == call[g].c IN
          /\ ~Wants(c, n) /\ ref[n] = 0
          /\ handlers' = [handlers EXCEPT ![c] = @ \cup {n}]
          /\ IF n = Interrupt /\ ~console
             THEN LeaveCall(g) /\ failed' = TRUE /\ UNCHANGED mode
             ELSE /\ Goto(g, "enable")
                  /\ mode' = IF n = Interrupt THEN 1 ELSE mode
                  /\ UNCHANGED <<lock, failed>>
    /\ UNCHANGED <<ref, stopping, native, wake, pending, console, resized, poll,
                   full, owed, crossed, calls>>

\* ... enables it ...
Enable(g) ==
    /\ At(g, "enable")
    /\ enabled' = enabled \cup Todo(g) /\ ignored' = ignored \ Todo(g)
    /\ Goto(g, "wake")
    /\ UNCHANGED <<table, lock, wake, tty, poll, full, history>>

\* Mutant: the poller is started, but not woken.
WakeOnce(g) ==
    /\ At(g, "wake")
    /\ wake' = (wake \/ poll.pc = "none")
    /\ poll' = IF poll.pc = "none" THEN [poll EXCEPT !.pc = "look"] ELSE poll
    /\ \E n \in Todo(g) : ref' = [ref EXCEPT ![n] = @ + 1] /\ Did(g, n, "add")
    /\ UNCHANGED <<handlers, stopping, lock, native, tty, full, history>>

\* ... and wakes the poller, which the first call starts.
Wake(g) ==
    /\ At(g, "wake")
    /\ wake' = TRUE
    /\ poll' = IF poll.pc = "none" THEN [poll EXCEPT !.pc = "look"] ELSE poll
    /\ \E n \in Todo(g) : ref' = [ref EXCEPT ![n] = @ + 1] /\ Did(g, n, "add")
    /\ UNCHANGED <<handlers, stopping, lock, native, tty, full, history>>

-----------------------------------------------------------------------------
\* disableSignal, in which a captured Ctrl-C is thrown away.
Disable(n) ==
    /\ enabled' = enabled \ {n} /\ ignored' = ignored \ {n}
    /\ IF n = Interrupt /\ console
       THEN mode' = 0 /\ pending' = FALSE ELSE UNCHANGED <<mode, pending>>

\* Stop, which returns at once for a channel that is not in the table; any other
\* is taken out of it ...
Stop(g, c) ==
    /\ handlers[c] # None
    /\ Enter(g, "drop", c, handlers[c], handlers[c], FALSE)
    /\ handlers' = [handlers EXCEPT ![c] = None]
    /\ crossed' = IF \E k \in G : call[k].c = c THEN crossed \cup {c} ELSE crossed
    /\ UNCHANGED <<ref, stopping, native, wake, tty, poll, full, owed, failed>>

\* Mutant: signals stay enabled.
DropCounted(g) ==
    /\ At(g, "drop")
    /\ \E n \in Todo(g) : ref' = [ref EXCEPT ![n] = @ - 1] /\ Did(g, n, "drop")
    /\ UNCHANGED <<handlers, stopping, lock, native, wake, tty, poll, full,
                   history>>

Drop(g) ==
    /\ At(g, "drop")
    /\ \E n \in Todo(g) :
          /\ ref' = [ref EXCEPT ![n] = @ - 1]
          /\ IF ref[n] = 1 THEN Disable(n) ELSE UNCHANGED <<native, mode, pending>>
          /\ Did(g, n, "drop")
    /\ UNCHANGED <<handlers, stopping, lock, wake, console, resized, poll, full,
                   history>>

\* Mutant: the channel is not put on the list.
ListNot(g) ==
    /\ At(g, "drop") /\ call[g].todo = {}
    /\ lock' = None
    /\ Goto(g, "barrier")
    /\ UNCHANGED <<table, native, wake, tty, poll, full, history>>

\* ... and put on the list of channels being stopped, until the round of the
\* poller is over.
List(g) ==
    /\ At(g, "drop") /\ call[g].todo = {}
    /\ stopping' = Append(stopping, [c |-> call[g].c, mask |-> call[g].mask])
    /\ lock' = None
    /\ Goto(g, "barrier")
    /\ UNCHANGED <<handlers, ref, native, wake, tty, poll, full, history>>

\* The poller holds nativeSignalDispatch.
Dispatching == poll.pc \in {"take", "interrupt", "measure", "resized"}

\* signalWaitUntilIdle.
Barrier(g) ==
    /\ At(g, "barrier") /\ ~Dispatching
    /\ Goto(g, "forget")
    /\ UNCHANGED <<table, lock, native, wake, tty, poll, full, history>>

\* Mutant: the search starts at the second entry.
ForgetSecond(g) ==
    /\ At(g, "forget") /\ lock = None
    /\ LET mine == {i \in 2 .. Len(stopping) : stopping[i].c = call[g].c} IN
       stopping' = IF mine = {} THEN stopping
                   ELSE RemoveAt(stopping, CHOOSE i \in mine :
                                              \A j \in mine : i <= j)
    /\ call' = [call EXCEPT ![g] = Idle]
    /\ UNCHANGED <<handlers, ref, lock, native, wake, tty, poll, full,
                   owed, crossed, failed, calls>>

Forget(g) ==
    /\ At(g, "forget") /\ lock = None
    /\ LET mine == {i \in DOMAIN stopping : stopping[i].c = call[g].c} IN
       stopping' = IF mine = {} THEN stopping
                   ELSE RemoveAt(stopping, CHOOSE i \in mine :
                                              \A j \in mine : i <= j)
    /\ call' = [call EXCEPT ![g] = Idle]
    /\ UNCHANGED <<handlers, ref, lock, native, wake, tty, poll, full,
                   owed, crossed, failed, calls>>

-----------------------------------------------------------------------------
\* Reset and Ignore: cancel.
Cancel(g, S, ignore) ==
    /\ Enter(g, "remove", None, {}, S, ignore)
    /\ UNCHANGED <<table, native, wake, tty, poll, full,
                   owed, crossed, failed>>

Without(h, n) == IF h = {n} THEN None ELSE h \ {n}

\* ignoreSignal, where there is a console.
IgnoreSignal(n) ==
    /\ enabled' = enabled \ {n} /\ ignored' = ignored \cup {n}
    /\ IF n = Interrupt
       THEN mode' = 2 /\ pending' = FALSE ELSE UNCHANGED <<mode, pending>>

CancelOne(g) ==
    /\ At(g, "remove")
    /\ \E n \in Todo(g) :
          LET wanting == {c \in C : Wants(c, n)} IN
          /\ handlers' = [c \in C |-> IF c \in wanting
                                     THEN Without(handlers[c], n)
                                     ELSE handlers[c]]
          /\ ref' = [ref EXCEPT ![n] = @ - Cardinality(wanting)]
          /\ owed' = IF n = Interrupt THEN owed \ wanting ELSE owed
          /\ IF call[g].ignore /\ n = Interrupt /\ ~console
             THEN /\ LeaveCall(g) /\ failed' = TRUE
                  /\ UNCHANGED <<native, mode, pending>>
             ELSE /\ IF call[g].ignore THEN IgnoreSignal(n) ELSE Disable(n)
                  /\ Did(g, n, "remove")
                  /\ UNCHANGED <<lock, failed>>
    /\ UNCHANGED <<stopping, wake, console, resized, poll, full, crossed, calls>>

\* Notify, Reset and Ignore return.
Return(g) ==
    /\ At(g, "add") \/ At(g, "remove")
    /\ call[g].todo = {}
    /\ LeaveCall(g)
    /\ UNCHANGED <<table, native, wake, tty, poll, full, history>>

-----------------------------------------------------------------------------
\* nativeSignalLoop.
Look ==
    /\ poll.pc = "look"
    /\ poll' = [poll EXCEPT !.pc = IF enabled = {} THEN "asleep" ELSE "begin"]
    /\ UNCHANGED <<table, lock, native, wake, tty, call, full, history>>

Awake ==
    /\ poll.pc = "asleep" /\ wake
    /\ wake' = FALSE
    /\ poll' = [poll EXCEPT !.pc = "look"]
    /\ UNCHANGED <<table, lock, native, tty, call, full, history>>

\* The lock for the round, and what is enabled by then.
Begin ==
    /\ poll.pc = "begin"
    /\ poll' = [poll EXCEPT !.pc = "take", !.enabled = enabled]
    /\ UNCHANGED <<table, lock, native, wake, tty, call, full, history>>

EndRound(b) ==
    poll' = [poll EXCEPT !.pc = "look", !.enabled = {}, !.measured = b]

\* Who is to get an interrupt: channels that want it, and those being stopped.
Waiting ==
    {c \in C : \/ Wants(c, Interrupt)
               \/ \E g \in G : /\ call[g].pc \in {"drop", "barrier"}
                               /\ call[g].c = c /\ Interrupt \in call[g].mask}

\* Channels that wait for an interrupt when it is taken are owed it.
Take ==
    /\ poll.pc = "take"
    /\ IF ~console
       THEN EndRound(poll.measured) /\ UNCHANGED <<pending, owed>>
       ELSE IF Interrupt \in poll.enabled /\ pending
       THEN /\ pending' = FALSE /\ owed' = Waiting
            /\ poll' = [poll EXCEPT !.pc = "interrupt"]
       ELSE poll' = [poll EXCEPT !.pc = "measure"] /\ UNCHANGED <<pending, owed>>
    /\ UNCHANGED <<table, lock, native, wake, mode, console, resized, call, full,
                   crossed, failed, calls>>

\* process: nobody waits for room in a channel, and one that holds a signal
\* stays as it is, whichever signal that is.
Send(n) ==
    /\ lock = None
    /\ full' = full \cup {c \in C : Wants(c, n)}
                    \cup {s.c : s \in {t \in ToSet(stopping) : n \in t.mask}}

ProcessInterrupt ==
    /\ poll.pc = "interrupt"
    /\ Send(Interrupt)
    /\ owed' = {}
    /\ poll' = [poll EXCEPT !.pc = "measure"]
    /\ UNCHANGED <<table, lock, native, wake, tty, call, crossed, failed, calls>>

\* A size that differs from the one that was measured before is a signal.
Measure ==
    /\ poll.pc = "measure"
    /\ resized' = (resized /\ Winch \notin poll.enabled)
    /\ IF Winch \notin poll.enabled THEN EndRound(poll.measured)
       ELSE IF ~resized THEN EndRound(TRUE)
       ELSE poll' = [poll EXCEPT !.pc = "resized"]
    /\ UNCHANGED <<table, lock, native, wake, mode, pending, console, call, full,
                   history>>

ProcessResized ==
    /\ poll.pc = "resized"
    /\ Send(Winch)
    /\ EndRound(poll.measured)
    /\ UNCHANGED <<table, lock, native, wake, tty, call, history>>

-----------------------------------------------------------------------------
\* Ctrl-C while it is captured; another size than the one that was measured, or
\* that one again; a console; a program that receives.
Press ==
    /\ console /\ mode = 1 /\ pending' = TRUE
    /\ UNCHANGED <<table, lock, native, wake, mode, console, resized, poll, call,
                   full, history>>

Resize ==
    /\ console /\ poll.measured /\ resized' \in BOOLEAN
    /\ UNCHANGED <<table, lock, native, wake, mode, pending, console, poll, call,
                   full, history>>

OpenConsole ==
    /\ ~console /\ console' = TRUE
    /\ UNCHANGED <<table, lock, native, wake, mode, pending, resized, poll, call,
                   full, history>>

Receive(c) ==
    /\ c \in full /\ full' = full \ {c}
    /\ UNCHANGED <<table, lock, native, wake, tty, poll, call, history>>

-----------------------------------------------------------------------------
Calls(g) ==
    \/ \E c \in C, S \in SUBSET Signal \ {{}} : Notify(g, c, S)
    \/ \E c \in C : Stop(g, c)
    \/ \E S \in SUBSET Signal \ {{}}, ignore \in BOOLEAN : Cancel(g, S, ignore)

CallStep(g) ==
    \/ Add(g) \/ AddFirst(g) \/ Enable(g) \/ Wake(g)
    \/ Drop(g) \/ List(g) \/ Barrier(g) \/ Forget(g)
    \/ CancelOne(g) \/ Return(g)

Poll ==
    \/ Look \/ Awake \/ Begin \/ Take \/ ProcessInterrupt
    \/ Measure \/ ProcessResized

SignalsNext ==
    \/ \E g \in G : Calls(g) \/ CallStep(g)
    \/ Poll
    \/ Press \/ Resize \/ OpenConsole \/ \E c \in C : Receive(c)

SignalsSpec == SignalsInit /\ [][SignalsNext]_signalVars

\* Calls go on and so does the poller.
SignalsFairness ==
    WF_signalVars(Poll) /\ \A g \in G : WF_signalVars(CallStep(g))
SignalsFairSpec == SignalsSpec /\ SignalsFairness

-----------------------------------------------------------------------------
\* Properties.

\* Between calls the table, the counters, the signals the poller looks for and
\* the console's mode agree, whatever mixture of calls came before, unless a
\* call panicked.
InStep ==
    lock = None /\ ~failed =>
        /\ \A n \in Signal : ref[n] = Cardinality({c \in C : Wants(c, n)})
        /\ enabled = {n \in Signal : ref[n] > 0}
        /\ enabled \cap ignored = {}
        /\ mode = CASE Interrupt \in enabled -> 1
                    [] Interrupt \in ignored -> 2
                    [] OTHER -> 0

\* An interrupt that the poller has taken reaches every channel that wanted it
\* at that time and has room, those in the middle of Stop included: afterwards
\* there is a signal in each, the interrupt unless another lay there.  Only
\* Reset and Ignore call it off, and two Stops of one channel at once, of which
\* one takes the other's entry off the list.
TakenDelivered ==
    [][poll.pc = "interrupt" /\ poll'.pc # "interrupt"
       => \A c \in owed \ crossed : c \in full']_signalVars

\* A channel that is in no table entry gets nothing: when the last Stop of a
\* channel returned, the list of those being stopped holds no trace of it.
Stopped(c) ==
    /\ handlers[c] = None
    /\ \A g \in G : call[g].c = c
                    => call[g].pc \notin {"drop", "barrier", "forget"}
StopSilent ==
    [][\A c \in C : Stopped(c) => c \notin full' \ full]_signalVars

\* The poller is never left asleep with a signal enabled: a Ctrl-C that was
\* captured is taken, or thrown away with the last channel that wants it.
PendingTaken == pending ~> ~pending
=============================================================================
