----------------------------- MODULE EventChannel -----------------------------
(***************************************************************************)
(* The threads of RAMPP and what they wait for: the bounded channel of     *)
(* events, which only the loop drains and into which the loop itself       *)
(* sends; the threads the loop joins; the mutex around the state the       *)
(* window shows; the end of the loop and of the process.                   *)
(*                                                                         *)
(* What the events say is left to EventLoop.  Here an event may have any   *)
(* effect, and all that counts of an effect is what it waits for.          *)
(***************************************************************************)
EXTENDS Naturals, Sequences, FiniteSets

CONSTANTS
    Service,
    Sources,    \* threads that send and that nobody joins: "tick", "tray", pollers, timers
    Capacity,   \* of the channel
    MaxClicks   \* events a click sends at most (three for Start All)

ASSUME ChannelAssumption ==
    /\ IsFiniteSet(Service) /\ Service # {} /\ "tick" \in Sources
    /\ Capacity \in Nat \ {0} /\ MaxClicks \in Nat

VARIABLES
    chan,      \* events sent and not received
    plan,      \* what the loop has yet to do before it receives again
    ended,     \* the loop has returned and the receiver is dropped
    done,      \* the loop has said so on the shutdown channel
    mutex,     \* who holds the shared state
    checker,   \* per service, its health checker
    stop,      \* ... and whether it was told to stop
    watcher,   \* per service, the thread that watches its process
    killed,    \* ... and whether it was told to kill it
    source,    \* per source, what it is sending
    ui,        \* the window and, when it is closed, main()
    clicks,    \* events the window has yet to send for a click
    leaked     \* history: services with a thread nobody can join any more

loop_side == <<plan, ended, done>>
handles   == <<checker, stop, watcher, killed, leaked>>
window    == <<ui, clicks>>
channel_vars == <<chan, loop_side, mutex, handles, source, window>>

-------------------------------------------------------------------------------
(* The channel.  A send waits for room; once the receiver is dropped it    *)
(* returns an error at once.                                               *)
no_cap == TRUE     \* faulty
room == Len(chan) < Capacity
Full == ~room

kept_open == FALSE     \* faulty
closed == ended

send(message) ==
    \/ closed /\ UNCHANGED chan
    \/ ~closed /\ room /\ chan' = Append(chan, message)

Exited == ui \in {"clean", "timed_out"}

-------------------------------------------------------------------------------
(* The loop's work as the sequence of operations in it that wait or that   *)
(* another thread can see.                                                 *)
op(name, svc) == [op |-> name, svc |-> svc]
anyone == CHOOSE svc \in Service : TRUE
self_send == <<op("send", anyone)>>

has_handle(svc) == watcher[svc] # "none" \/ checker[svc] # "none"

do_stop_health(svc) == <<op("stop", svc), op("join_checker", svc)>>
do_kill(svc) == do_stop_health(svc) \o <<op("kill", svc), op("join_watcher", svc)>>
kill_effect(svc) == IF has_handle(svc) THEN do_kill(svc) ELSE self_send
do_spawn(svc) == self_send \o do_kill(svc) \o <<op("launch", svc)>>
check_at_once(svc) == <<op("check", svc)>>     \* faulty
start_health_check(svc) == do_stop_health(svc) \o <<op("check", svc)>>

(* A toggle sends twice, and so does a spawn that cannot write its files.  *)
Effects ==
    {<<>>, self_send, self_send \o self_send}
    \union UNION {{kill_effect(svc), do_stop_health(svc), do_spawn(svc),
                   start_health_check(svc)} : svc \in Service}

(* One effect an event: what a second one waits for, the first effect of   *)
(* the next event waits for too.                                           *)
(*                                                                         *)
(* The state is copied under the mutex.  After ShutdownAll the guard is    *)
(* still alive while the loop kills and joins what has a handle, and while *)
(* it reports.                                                             *)
lock   == <<op("lock", anyone)>>
unlock == <<op("unlock", anyone)>>
done_first(kills) == <<op("done", anyone)>> \o kills     \* faulty
kills_first(kills) == kills \o <<op("done", anyone)>>

(* shutdown_and_join goes through the handles in whatever order the map    *)
(* gives them, and does to each the four steps of do_kill.                 *)
key_orders ==
    {order \in [1 .. Cardinality(Service) -> Service] :
        \A svc \in Service : \E i \in 1 .. Cardinality(Service) : order[i] = svc}
kill_all(order) ==
    [i \in 1 .. 4 * Cardinality(Service) |->
        do_kill(order[((i - 1) \div 4) + 1])[((i - 1) % 4) + 1]]
shutdown_and_join(order) == kills_first(kill_all(order)) \o unlock \o <<op("end", anyone)>>

Receive ==
    /\ plan = <<>> /\ ~ended /\ chan # <<>>
    /\ chan' = Tail(chan)
    /\ \E effect \in Effects, order \in key_orders :
          plan' = effect \o lock
                  \o (IF Head(chan) = "shutdown" THEN shutdown_and_join(order) ELSE unlock)
    /\ UNCHANGED <<ended, done, mutex, handles, source, window>>

-------------------------------------------------------------------------------
(* The operations of the loop, each on the service it names.               *)
is_gone(thread) == thread \in {"none", "gone"}
lost(svc, thread) == leaked' = IF is_gone(thread) THEN leaked ELSE leaked \union {svc}

OpSend == send("event") /\ UNCHANGED <<mutex, handles, ended, done>>

OpStop(svc) ==
    /\ stop' = [stop EXCEPT ![svc] = checker[svc] # "none"]
    /\ UNCHANGED <<chan, mutex, checker, watcher, killed, leaked, ended, done>>

OpJoinChecker(svc) ==
    /\ is_gone(checker[svc]) /\ checker' = [checker EXCEPT ![svc] = "none"]
    /\ UNCHANGED <<chan, mutex, stop, watcher, killed, leaked, ended, done>>

OpKill(svc) ==
    /\ killed' = [killed EXCEPT ![svc] = watcher[svc] # "none"]
    /\ UNCHANGED <<chan, mutex, checker, stop, watcher, leaked, ended, done>>

OpJoinWatcher(svc) ==
    /\ is_gone(watcher[svc]) /\ watcher' = [watcher EXCEPT ![svc] = "none"]
    /\ UNCHANGED <<chan, mutex, checker, stop, killed, leaked, ended, done>>

OpLaunch(svc) ==
    /\ watcher' = [watcher EXCEPT ![svc] = "watching"]
    /\ killed' = [killed EXCEPT ![svc] = FALSE] /\ lost(svc, watcher[svc])
    /\ UNCHANGED <<chan, mutex, checker, stop, ended, done>>

OpCheck(svc) ==
    /\ checker' = [checker EXCEPT ![svc] = "waiting"]
    /\ stop' = [stop EXCEPT ![svc] = FALSE] /\ lost(svc, checker[svc])
    /\ UNCHANGED <<chan, mutex, watcher, killed, ended, done>>

OpLock   == mutex = "free" /\ mutex' = "loop" /\ UNCHANGED <<chan, handles, ended, done>>
OpUnlock == mutex' = "free" /\ UNCHANGED <<chan, handles, ended, done>>
OpDone   == done' = TRUE /\ UNCHANGED <<chan, mutex, handles, ended>>
OpEnd    == ended' = TRUE /\ chan' = <<>> /\ UNCHANGED <<mutex, handles, done>>

(* A spawn may fail, which the loop reports to itself.                     *)
Execute ==
    /\ plan # <<>>
    /\ LET name == Head(plan).op
           svc  == Head(plan).svc
       IN  \/ /\ plan' = Tail(plan)
              /\ \/ name = "send" /\ OpSend
                 \/ name = "stop" /\ OpStop(svc)
                 \/ name = "join_checker" /\ OpJoinChecker(svc)
                 \/ name = "kill" /\ OpKill(svc)
                 \/ name = "join_watcher" /\ OpJoinWatcher(svc)
                 \/ name = "launch" /\ OpLaunch(svc)
                 \/ name = "check" /\ OpCheck(svc)
                 \/ name = "lock" /\ OpLock
                 \/ name = "unlock" /\ OpUnlock
                 \/ name = "done" /\ OpDone
                 \/ name = "end" /\ OpEnd
           \/ /\ name = "launch" /\ plan' = self_send \o Tail(plan)
              /\ UNCHANGED <<chan, mutex, handles, ended, done>>
    /\ UNCHANGED <<source, window>>

-------------------------------------------------------------------------------
(* A health checker waits for its interval or for the word to stop, which  *)
(* it hears only while it waits.  A check may send a diagnostic first.     *)
Checker(svc) ==
    LET becomes(state) == checker' = [checker EXCEPT ![svc] = state]
    IN  /\ \/ checker[svc] = "waiting" /\ stop[svc] /\ becomes("gone") /\ UNCHANGED chan
           \/ /\ checker[svc] = "waiting" /\ ~stop[svc] /\ UNCHANGED chan
              /\ becomes("diagnosing") \/ becomes("sending")
           \/ checker[svc] = "diagnosing" /\ send("event") /\ becomes("sending")
           \/ checker[svc] = "sending" /\ send("event") /\ becomes(IF closed THEN "gone" ELSE "waiting")
        /\ UNCHANGED <<loop_side, mutex, stop, watcher, killed, leaked, source, window>>

(* A watcher that is told to kill reports when the process is dead.        *)
Watcher(svc) ==
    LET becomes(state) == watcher' = [watcher EXCEPT ![svc] = state]
    IN  /\ \/ watcher[svc] = "watching" /\ killed[svc] /\ becomes("reporting") /\ UNCHANGED chan
           \/ watcher[svc] = "diagnosing" /\ send("event") /\ becomes("reporting")
           \/ watcher[svc] = "reporting" /\ send("event") /\ becomes("gone")
        /\ UNCHANGED <<loop_side, mutex, checker, stop, killed, leaked, source, window>>

(* The process ends by itself; a failure is diagnosed before it is         *)
(* reported.                                                               *)
ProcessEnds(svc) ==
    /\ watcher[svc] = "watching" /\ ~killed[svc]
    /\ \E state \in {"diagnosing", "reporting"} : watcher' = [watcher EXCEPT ![svc] = state]
    /\ UNCHANGED <<chan, loop_side, mutex, checker, stop, killed, leaked, source, window>>

(* The other senders.  Only the tick thread notices that nobody listens    *)
(* and ends.  Exit in the tray sends ShutdownAll.                          *)
SourceWants(t) ==
    /\ source[t] = "idle"
    /\ \E message \in (IF t = "tray" THEN {"event", "shutdown"} ELSE {"event"}) :
          source' = [source EXCEPT ![t] = message]
    /\ UNCHANGED <<chan, loop_side, mutex, handles, window>>

SourceSends(t) ==
    /\ source[t] \in {"event", "shutdown"} /\ send(source[t])
    /\ source' = [source EXCEPT ![t] = IF t = "tick" /\ closed THEN "gone" ELSE "idle"]
    /\ UNCHANGED <<loop_side, mutex, handles, window>>

-------------------------------------------------------------------------------
(* The window copies the state under the mutex, lets go of it, and then    *)
(* sends what the user clicked.                                            *)
drawn_locked == "ui"     \* faulty
drawn == "free"

Draw ==
    /\ ui = "idle" /\ mutex = "free" /\ mutex' = "ui" /\ ui' = "drawing"
    /\ UNCHANGED <<chan, loop_side, handles, source, clicks>>

Drawn ==
    /\ ui = "drawing" /\ mutex' = drawn
    /\ ui' = "clicking" /\ clicks' \in 0 .. MaxClicks
    /\ UNCHANGED <<chan, loop_side, handles, source>>

Click ==
    /\ ui = "clicking"
    /\ \/ clicks > 0 /\ send("event") /\ clicks' = clicks - 1 /\ UNCHANGED <<ui, mutex>>
       \/ clicks = 0 /\ ui' = "idle" /\ UNCHANGED <<chan, clicks>>
                     /\ mutex' = IF mutex = "ui" THEN "free" ELSE mutex
    /\ UNCHANGED <<loop_side, handles, source>>

(* on_exit sends ShutdownAll; main() then waits for the loop, but not      *)
(* longer than SHUTDOWN_GRACE_PERIOD, and the process ends with all its    *)
(* threads.                                                                *)
Close ==
    /\ ui = "idle" /\ ui' = "closing"
    /\ UNCHANGED <<chan, loop_side, mutex, handles, source, clicks>>

OnExit ==
    /\ ui = "closing" /\ send("shutdown") /\ ui' = "awaiting"
    /\ UNCHANGED <<loop_side, mutex, handles, source, clicks>>

no_grace == FALSE     \* faulty
grace_over == TRUE

AwaitLoop ==
    /\ ui = "awaiting"
    /\ \/ done /\ ui' = "clean"
       \/ grace_over /\ ui' = "timed_out"
    /\ UNCHANGED <<chan, loop_side, mutex, handles, source, clicks>>

-------------------------------------------------------------------------------
(* The loop begins with a start of each service that was wanted.           *)
restore == {[i \in 1 .. n |-> op("send", anyone)] : n \in 0 .. Cardinality(Service)}

ChannelInit ==
    /\ chan = <<>> /\ plan \in restore /\ ended = FALSE /\ done = FALSE /\ mutex = "free"
    /\ checker = [svc \in Service |-> "none"] /\ watcher = checker
    /\ stop = [svc \in Service |-> FALSE] /\ killed = stop /\ leaked = {}
    /\ source = [t \in Sources |-> "idle"] /\ ui = "idle" /\ clicks = 0

Loop == Receive \/ Execute
Ui   == Draw \/ Drawn \/ Click \/ OnExit

ChannelNext ==
    /\ ~Exited
    /\ \/ Loop
       \/ Ui \/ Close \/ AwaitLoop
       \/ \E svc \in Service : Checker(svc) \/ Watcher(svc) \/ ProcessEnds(svc)
       \/ \E t \in Sources : SourceWants(t) \/ SourceSends(t)

ChannelSpec == ChannelInit /\ [][ChannelNext]_channel_vars

(* Every thread that can run does.  The mutex is fair enough that the loop *)
(* gets it: the window holds it once a frame, for a copy.  The last send   *)
(* of the window finds room sooner or later when there is room ever again: *)
(* the other senders wait for a timer or the user between two of theirs.   *)
ChannelFairness ==
    /\ WF_channel_vars(~Exited /\ Loop) /\ SF_channel_vars(~Exited /\ Execute)
    /\ WF_channel_vars(Ui) /\ SF_channel_vars(OnExit) /\ WF_channel_vars(AwaitLoop)
    /\ \A svc \in Service : /\ WF_channel_vars(~Exited /\ Checker(svc))
                            /\ WF_channel_vars(~Exited /\ Watcher(svc))
    /\ \A t \in Sources : /\ WF_channel_vars(~Exited /\ SourceWants(t))
                          /\ WF_channel_vars(~Exited /\ SourceSends(t))
FairChannelSpec == ChannelSpec /\ ChannelFairness

-------------------------------------------------------------------------------
(* Types, the channel within its capacity, and no mutex held by a thread   *)
(* that has gone on to something else.                                     *)
ChannelTypeOK ==
    /\ chan \in Seq({"event", "shutdown"}) /\ Len(chan) <= Capacity
    /\ \A i \in DOMAIN plan : plan[i].svc \in Service
    /\ ended \in BOOLEAN /\ done \in BOOLEAN /\ mutex \in {"free", "loop", "ui"}
    /\ checker \in [Service -> {"none", "waiting", "diagnosing", "sending", "gone"}]
    /\ watcher \in [Service -> {"none", "watching", "diagnosing", "reporting", "gone"}]
    /\ stop \in [Service -> BOOLEAN] /\ killed \in [Service -> BOOLEAN]
    /\ source \in [Sources -> {"idle", "event", "shutdown", "gone"}]
    /\ ui \in {"idle", "drawing", "clicking", "closing", "awaiting", "clean", "timed_out"}
    /\ clicks \in 0 .. MaxClicks /\ leaked \subseteq Service
    /\ (mutex = "loop" => plan # <<>>) /\ (ended => plan = <<>>)

(* A handle is never overwritten while one of its threads still runs: no   *)
(* checker and no process is left that the loop cannot stop and join.      *)
OneOfEach == leaked = {}

(* RAMPP reports a clean shutdown only when every process is dead and      *)
(* every thread of a handle has been joined (main.rs: the loop "signals    *)
(* this when all processes are dead").                                     *)
CleanExit ==
    ui = "clean" => \A svc \in Service : watcher[svc] = "none" /\ checker[svc] = "none"

(* The loop waits for room that only it could make: it sends to itself, or *)
(* joins a thread that is sending, while the channel is full.              *)
Jammed ==
    /\ Full /\ plan # <<>>
    /\ LET now == Head(plan) IN
          \/ now.op = "send"
          \/ now.op = "join_checker" /\ checker[now.svc] \in {"diagnosing", "sending"}
          \/ now.op = "join_watcher" /\ watcher[now.svc] \in {"diagnosing", "reporting"}

(* The loop always comes back to its channel, or ends: nothing it waits    *)
(* for waits for it, with the one exception of a full channel.             *)
LoopReturns == []<>(plan = <<>> \/ Exited) \/ <>[]Jammed

(* A window that is closed ends RAMPP: main() waits for the loop no longer *)
(* than SHUTDOWN_GRACE_PERIOD (the "safety net"), and only a loop that is  *)
(* stuck on a full channel can keep on_exit from getting that far.         *)
ClosingEnds ==
    /\ ui = "awaiting" ~> Exited
    /\ (ui = "closing" ~> Exited) \/ <>[]Jammed

(* When the loop has ended nobody is left waiting for room: whoever was    *)
(* sending goes on, and the tick thread ends.                              *)
SendersReleased ==
    /\ ended ~> source["tick"] = "gone" \/ Exited
    /\ \A t \in Sources : (ended /\ source[t] = "event") ~> (source[t] # "event" \/ Exited)
    /\ (ended /\ ui = "closing") ~> Exited
===============================================================================
