-------------------------------- MODULE Timer --------------------------------
(***************************************************************************)
(* A timer of package time on KolibriOS: every arming starts a goroutine,  *)
(* runTimer, that sleeps to the deadline and fires unless the timer's      *)
(* generation has moved on.  What a call does under t.mu is one step; so   *)
(* are the clock reading before it and the go statement behind it.  Sleep  *)
(* ends at some time after the deadline.  The clock does not run           *)
(* backwards.                                                              *)
(***************************************************************************)
EXTENDS Integers, FiniteSets

CONSTANTS
    U,        \* goroutines that call Stop and Reset and receive from C
    First,    \* the one that makes the timer
    Delays,   \* what the calls for each kind of timer are given
    MaxInt,   \* math.MaxInt64
    MaxNow,   \* bound of the model: the clock
    MaxGen    \* bound of the model: arms and stops of the timer

ASSUME TimerAssumption ==
    /\ IsFiniteSet(U) /\ First \in U
    /\ DOMAIN Delays \subseteq {"channel", "function", "ticker"}
    /\ \A k \in DOMAIN Delays :
          Delays[k] \subseteq (IF k = "ticker" THEN Nat \ {0} ELSE Int)
    /\ MaxInt \in Nat /\ MaxNow \in Nat /\ MaxNow < MaxInt
    /\ MaxGen \in Nat \ {0}

VARIABLES
    now,         \* runtimeNano()
    kind,
    when, period, active,    \* t.when, t.period, t.active
    generation,              \* t.generation
    channel,     \* values in C, which has room for one
    at,          \* what a user does next
    arg,         \* its deadline, period and generation
    runner,      \* where the goroutine of each generation is
    deadline,    \* the deadline it sleeps to
    arms, fired, cancelled,  \* history: armings, calls of f, and calls of Stop
                             \* and Reset that returned true
    quiet,       \* history: stopped since it was armed last
    taken,       \* history: C was read since it was armed last
    start        \* history: the first deadline since, and the calls of f before

timer == <<when, period, active, generation>>
users == <<at, arg>>
runners == <<runner, deadline>>
history == <<arms, fired, cancelled, quiet, taken, start>>
timerVars == <<now, kind, timer, channel, users, runners, history>>

Generations == 1 .. MaxGen
Times == 0 .. MaxInt

TimerTypeOK ==
    /\ now \in 0 .. MaxNow
    /\ kind \in DOMAIN Delays
    /\ when \in Times /\ period \in Nat /\ active \in BOOLEAN
    /\ generation \in 0 .. MaxGen
    /\ channel \in 0 .. 1
    /\ at \in [U -> {"idle", "arm", "go"}]
    /\ arg \in [U -> [when : Times, period : Nat, generation : 0 .. MaxGen]]
    /\ runner \in [Generations -> {"none", "check", "sleep", "done"}]
    /\ deadline \in [Generations -> Times]
    /\ arms \in Nat /\ fired \in Nat /\ cancelled \in Nat
    /\ quiet \in BOOLEAN /\ taken \in BOOLEAN
    /\ start \in [when : Times, fired : Nat]

-----------------------------------------------------------------------------
Clamp(t) == IF t > MaxInt THEN MaxInt ELSE t

\* when(d).
When(d) == IF d <= 0 THEN now ELSE Clamp(now + d)

\* A ticker has a period.
Period(d) == IF kind = "ticker" THEN d ELSE 0

NoArg == [when |-> 0, period |-> 0, generation |-> 0]
Given(d) == [when |-> When(d), period |-> Period(d), generation |-> 0]

\* NewTimer, AfterFunc and NewTicker, up to startTimer.
TimerInit ==
    /\ now = 0 /\ kind \in DOMAIN Delays
    /\ \E d \in Delays[kind] :
          /\ when = When(d) /\ period = Period(d)
          /\ arg = [u \in U |-> IF u = First THEN Given(d) ELSE NoArg]
    /\ active = FALSE /\ generation = 0 /\ channel = 0
    /\ at = [u \in U |-> IF u = First THEN "arm" ELSE "idle"]
    /\ runner = [g \in Generations |-> "none"]
    /\ deadline = [g \in Generations |-> 0]
    /\ arms = 0 /\ fired = 0 /\ cancelled = 0
    /\ quiet = TRUE /\ taken = FALSE
    /\ start = [when |-> 0, fired |-> 0]

-----------------------------------------------------------------------------
\* The users.  Only the first has the timer until it is armed.
Made == generation > 0

\* Timer.Reset and Ticker.Reset read the clock ...
Reset(u) ==
    /\ at[u] = "idle" /\ Made
    /\ \E d \in Delays[kind] :
          arg' = [arg EXCEPT ![u] = Given(d)]
    /\ at' = [at EXCEPT ![u] = "arm"]
    /\ UNCHANGED <<now, kind, timer, channel, runners, history>>

\* ... and startTimer, resetTimer and modTimer arm the timer ...
Arm(u) ==
    /\ at[u] = "arm" /\ generation < MaxGen
    /\ when' = arg[u].when /\ period' = arg[u].period
    /\ active' = TRUE
    /\ generation' = generation + 1
    /\ arg' = [arg EXCEPT ![u].generation = generation + 1]
    /\ at' = [at EXCEPT ![u] = "go"]
    /\ arms' = arms + 1
    /\ cancelled' = cancelled + (IF active THEN 1 ELSE 0)
    /\ quiet' = FALSE /\ taken' = FALSE
    /\ start' = [when |-> arg[u].when, fired |-> fired]
    /\ UNCHANGED <<now, kind, channel, runners, fired>>

\* Mutant: the goroutine of an earlier arming is left to do the work.
GoOnce(u) ==
    /\ at[u] = "go"
    /\ runner' = IF \E g \in Generations : runner[g] \in {"check", "sleep"}
                 THEN runner
                 ELSE [runner EXCEPT ![arg[u].generation] = "check"]
    /\ at' = [at EXCEPT ![u] = "idle"] /\ arg' = [arg EXCEPT ![u] = NoArg]
    /\ UNCHANGED <<now, kind, timer, channel, deadline, history>>

\* ... and start its goroutine.
Go(u) ==
    /\ at[u] = "go"
    /\ runner' = [runner EXCEPT ![arg[u].generation] = "check"]
    /\ at' = [at EXCEPT ![u] = "idle"] /\ arg' = [arg EXCEPT ![u] = NoArg]
    /\ UNCHANGED <<now, kind, timer, channel, deadline, history>>

\* stopTimer.
Stop(u) ==
    /\ at[u] = "idle" /\ Made /\ generation < MaxGen
    /\ active' = FALSE
    /\ generation' = generation + 1
    /\ cancelled' = cancelled + (IF active THEN 1 ELSE 0)
    /\ quiet' = TRUE
    /\ UNCHANGED <<now, kind, when, period, channel, users, runners,
                   arms, fired, taken, start>>

Receive(u) ==
    /\ at[u] = "idle" /\ channel = 1
    /\ channel' = 0
    /\ taken' = TRUE
    /\ UNCHANGED <<now, kind, timer, users, runners,
                   arms, fired, cancelled, quiet, start>>

-----------------------------------------------------------------------------
\* runTimer, of the arming g.
Current(g) == active /\ generation = g

GotoRun(g, p) == runner' = [runner EXCEPT ![g] = p]

Check(g) ==
    /\ runner[g] = "check"
    /\ IF Current(g)
       THEN GotoRun(g, "sleep") /\ deadline' = [deadline EXCEPT ![g] = when]
       ELSE GotoRun(g, "done") /\ UNCHANGED deadline
    /\ UNCHANGED <<now, kind, timer, channel, users, history>>

\* Sleep is over.
Woken(g) == runner[g] = "sleep" /\ now >= deadline[g]

Late(g) ==
    /\ Woken(g) /\ ~Current(g)
    /\ GotoRun(g, "done") /\ deadline' = [deadline EXCEPT ![g] = 0]
    /\ UNCHANGED <<now, kind, timer, channel, users, history>>

\* Mutant: the generation is not looked at again after the sleep.
DueUnchecked(g) == Woken(g) /\ now >= when

\* The timer is still armed for g.  (Sleep never ends early, so that now < t.when
\* does not happen.)
Due(g) == Woken(g) /\ Current(g) /\ now >= when

\* Mutant: the next tick is a period from now.
NextFromNow == Clamp(now + period)

\* The next tick is a whole number of periods from the last one; those that
\* were missed are left out.
NextTick == Clamp(now + (period - ((now - when) % period)))

\* Mutant: a timer that has fired stays active.
MoveOnActive(g) ==
    IF period > 0
    THEN when' = NextTick /\ GotoRun(g, "check") /\ UNCHANGED active
    ELSE GotoRun(g, "done") /\ UNCHANGED <<when, active>>

MoveOn(g) ==
    IF period > 0
    THEN when' = NextTick /\ GotoRun(g, "check") /\ UNCHANGED active
    ELSE active' = FALSE /\ GotoRun(g, "done") /\ UNCHANGED when

\* Mutant: the channel has no room, and nobody is receiving.
SendUnbuffered == UNCHANGED channel

\* sendTime, or goFunc.
Send == channel' = IF kind = "function" THEN channel ELSE 1

Fire(g) ==
    /\ Due(g)
    /\ MoveOn(g) /\ Send
    /\ fired' = fired + 1 /\ deadline' = [deadline EXCEPT ![g] = 0]
    /\ UNCHANGED <<now, kind, period, generation, users,
                   arms, cancelled, quiet, taken, start>>

Tick ==
    /\ now < MaxNow /\ now' = now + 1
    /\ UNCHANGED <<kind, timer, channel, users, runners, history>>

-----------------------------------------------------------------------------
Run(g) == Check(g) \/ Late(g) \/ Fire(g)

TimerNext ==
    \/ \E u \in U : Reset(u) \/ Arm(u) \/ Go(u) \/ Stop(u) \/ Receive(u)
    \/ \E g \in Generations : Check(g) \/ Late(g) \/ Fire(g)
    \/ Tick

TimerSpec == TimerInit /\ [][TimerNext]_timerVars

\* Time passes, and a goroutine that is started or due runs.
TimerFairness ==
    /\ WF_timerVars(Tick)
    /\ \A u \in U : WF_timerVars(Go(u))
    /\ \A g \in Generations : WF_timerVars(Run(g))
TimerFairSpec == TimerSpec /\ TimerFairness

-----------------------------------------------------------------------------
\* Properties.

\* After Stop nothing is sent and no function started until the timer is armed
\* again, however many goroutines of earlier armings wake up.
StopHolds == [][quiet => fired' = fired /\ channel' <= channel]_timerVars

\* What Stop and Reset return adds up: every arming of a timer has fired once,
\* or been cancelled by exactly one call that returned true, or is active.
Accounted ==
    period = 0 => arms = fired + cancelled + (IF active THEN 1 ELSE 0)

\* The drain that Timer.Stop's comment recommends does not block: when Stop
\* returns false for a timer that was armed and not stopped since, the value is
\* in the channel unless the program has read it.
DrainReady ==
    kind = "channel" /\ ~active /\ ~quiet /\ ~taken => channel = 1

\* A ticker keeps its phase and never ticks in a burst: however late its
\* goroutine runs, the ticks are whole periods after the first, at most one for
\* each period that has begun.
InPhase ==
    active /\ period > 0 =>
        /\ when = MaxInt \/ (when - start.when) % period = 0
        /\ fired - start.fired <=
              IF now < start.when THEN 0
              ELSE ((now - start.when) \div period) + 1

\* An arming whose time comes fires or is cancelled, and a ticker goes on, also
\* when timers are stopped and armed again between a goroutine's start and its
\* first look.
Overdue(g) == Current(g) /\ when <= now
Fires == \A g \in Generations : Overdue(g) ~> ~Overdue(g)
=============================================================================
