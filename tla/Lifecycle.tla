----------------------------- MODULE Lifecycle ------------------------------
(***************************************************************************)
(* The Bluetooth daemon and its LE link, two state machines.               *)
(*                                                                         *)
(* `btsensor start` and `btsensor stop`: the daemon's life cycle           *)
(* (btsensor_lifecycle.c), the services it brings up and takes down in     *)
(* order (btsensor_main.c, btsensor_nuttx_peripheral.c) and the Bluetooth  *)
(* transport (btsensor_transport.c). Shell commands and daemon tasks       *)
(* interleave; the two semaphores are counters, a critical section of      *)
(* g_lock is one step. Each service may fail to start. External: the       *)
(* Bluetooth host, whose bt_disable ends the receive callback before it    *)
(* succeeds, and may fail.                                                 *)
(*                                                                         *)
(* The hub's LE link (hub_transport.c) and its visibility                  *)
(* (btsensor_transport.c). Threads: the host's callbacks, the system work  *)
(* queue that restarts advertising, the shell that executes `bt on` and    *)
(* `bt off`, and senders. bt_le_adv_start and bt_le_adv_stop wait for the  *)
(* controller, so the others run between the look at a flag, the call and  *)
(* the note of its result. A connection object may be used again once it   *)
(* is disconnected and nobody refers to it. External: the host and its     *)
(* connections.                                                            *)
(***************************************************************************)
EXTENDS Integers, Sequences, FiniteSets

CONSTANTS Cli,         \* shell tasks
          MaxStarts,   \* bound on the daemons
          MaxStops,    \* bound on the stop commands
          Timeouts     \* a stop may time out

LifecycleAssumption == {MaxStarts, MaxStops} \subseteq Nat /\ Timeouts \in BOOLEAN

VARIABLES
    g_running, stop_request, stopped,
    starts, pc, taken,        \* daemons so far; each one's step; the stop request it took, 0 for none
    held,                     \* services that are up, with the daemon that started them
    g_started, bt, rx, stuck, \* transport; host enabled; receive callback running; bt_disable has failed
    cli, stops,               \* each shell task: step, daemon it means, result
    asked,                    \* the daemons the pending stop requests were meant for
    crossing                  \* history: what was still to be posted when each daemon was started

vars == <<g_running, stop_request, stopped, starts, pc, taken, held, g_started, bt, rx, stuck, cli, stops, asked, crossing>>

Daemon == 1..MaxStarts
Service == <<"scheduler", "tx", "imu", "sensor", "bundle">>
NoCall == [pc |-> "idle", for |-> 0, ok |-> FALSE]

Init ==
    /\ g_running = FALSE /\ stop_request = 0 /\ stopped = 0 /\ starts = 0
    /\ pc = [d \in Daemon |-> "none"] /\ taken = [d \in Daemon |-> 0] /\ held = {}
    /\ g_started = FALSE /\ bt = FALSE /\ rx = FALSE /\ stuck = FALSE
    /\ cli = [c \in Cli |-> NoCall] /\ stops = 0 /\ asked = << >>
    /\ crossing = [d \in Daemon |-> {}]

-----------------------------------------------------------------------------
(* btsensor_lifecycle_start, all of it under g_lock; the posts of an older *)
(* daemon ("post") and of an older command ("ask") come after their own    *)
(* critical sections, and start drains only what has been posted           *)

Unposted == {s \in {"post", "ask"} : (\E d \in Daemon : pc[d] = s) \/ \E c \in Cli : cli[c].pc = s}

Launch ==
    /\ g_running' = TRUE /\ starts' = starts + 1 /\ pc' = [pc EXCEPT ![starts + 1] = "scheduler"]
    /\ crossing' = [crossing EXCEPT ![starts + 1] = Unposted]
LaunchFails == UNCHANGED <<g_running, starts, pc, crossing>>          \* task_create fails

StartKeepsPosts(c) ==               \* mutant: old posts are not drained
    /\ cli[c].pc = "idle" /\ ~g_running /\ starts < MaxStarts
    /\ stop_request' = 0 /\ asked' = << >>
    /\ Launch \/ LaunchFails
    /\ UNCHANGED <<stopped, taken, held, g_started, bt, rx, stuck, cli, stops>>

Start(c) ==
    /\ cli[c].pc = "idle" /\ ~g_running /\ starts < MaxStarts
    /\ stop_request' = 0 /\ stopped' = 0 /\ asked' = << >>
    /\ Launch \/ LaunchFails
    /\ UNCHANGED <<taken, held, g_started, bt, rx, stuck, cli, stops>>

-----------------------------------------------------------------------------
(* daemon_main                                                             *)

To(d, s) == pc' = [pc EXCEPT ![d] = s]
Index(s) == CHOOSE i \in 1..Len(Service) : Service[i] = s
Before(s) == {Service[i] : i \in 1..(Index(s) - 1)}
DaemonKeep == UNCHANGED <<starts, rx, cli, stops, crossing>>

Up(d) ==
    \E s \in {Service[i] : i \in 1..Len(Service)} :
        /\ pc[d] = s
        /\ \/ held' = held \cup {<<s, d>>} /\ To(d, IF s = "bundle" THEN "transport" ELSE Service[Index(s) + 1])
           \/ held' = held \ {<<b, d>> : b \in Before(s)} /\ To(d, "end")
        /\ UNCHANGED <<g_running, stop_request, stopped, taken, g_started, bt, asked, stuck>> /\ DaemonKeep

\* btsensor_transport_start; its error paths disable the host again, which may fail
TransportStart(d) ==
    /\ pc[d] = "transport"
    /\ \/ g_started /\ To(d, "services_stop") /\ UNCHANGED <<g_started, bt>>
       \/ ~g_started /\ g_started' = TRUE /\ bt' = TRUE /\ To(d, "run")
       \/ ~g_started /\ bt' \in BOOLEAN /\ (bt => bt') /\ To(d, "services_stop") /\ UNCHANGED g_started
    /\ UNCHANGED <<g_running, stop_request, stopped, taken, held, asked, stuck>> /\ DaemonKeep

\* daemon_wait_for_stop
TakeRequest(d) ==
    /\ pc[d] = "run" /\ stop_request > 0 /\ stop_request' = stop_request - 1
    /\ taken' = [taken EXCEPT ![d] = Head(asked)] /\ asked' = Tail(asked) /\ To(d, "transport_stop")
    /\ UNCHANGED <<g_running, stopped, held, g_started, bt, stuck>> /\ DaemonKeep

TransportStop(d) ==
    /\ pc[d] = "transport_stop" /\ To(d, "services_stop")
    /\ \/ ~rx /\ bt' = FALSE /\ g_started' = FALSE /\ UNCHANGED stuck
       \/ stuck' = TRUE /\ UNCHANGED <<bt, g_started>>               \* bt_disable fails
    /\ UNCHANGED <<g_running, stop_request, stopped, taken, held, asked>> /\ DaemonKeep

\* services_stop
ServicesStop(d) ==
    /\ pc[d] = "services_stop" /\ held' = {h \in held : h[2] # d} /\ To(d, "end")
    /\ UNCHANGED <<g_running, stop_request, stopped, taken, g_started, bt, asked, stuck>> /\ DaemonKeep

\* g_running is cleared under the lock, the semaphore posted after it
End(d) ==
    /\ pc[d] = "end" /\ g_running' = FALSE /\ To(d, "post")
    /\ UNCHANGED <<stop_request, stopped, taken, held, g_started, bt, asked, stuck>> /\ DaemonKeep

Post(d) ==
    /\ pc[d] = "post" /\ stopped' = stopped + 1 /\ To(d, "ended")
    /\ UNCHANGED <<g_running, stop_request, taken, held, g_started, bt, asked, stuck>> /\ DaemonKeep

-----------------------------------------------------------------------------
(* btsensor_lifecycle_stop                                                 *)

CliKeep == UNCHANGED <<g_running, starts, pc, taken, held, g_started, bt, rx, stuck, crossing>>
Cl(c, s) == cli' = [cli EXCEPT ![c].pc = s]

Stop(c) ==
    /\ cli[c].pc = "idle" /\ g_running /\ stops < MaxStops /\ stops' = stops + 1
    /\ cli' = [cli EXCEPT ![c] = [pc |-> "ask", for |-> starts, ok |-> FALSE]]
    /\ UNCHANGED <<stop_request, stopped, asked>> /\ CliKeep

Ask(c) ==
    /\ cli[c].pc = "ask" /\ stop_request' = stop_request + 1 /\ asked' = Append(asked, cli[c].for) /\ Cl(c, "wait")
    /\ UNCHANGED <<stopped, stops>> /\ CliKeep

Woken(c) ==
    /\ cli[c].pc = "wait" /\ stopped > 0 /\ stopped' = stopped - 1 /\ cli' = [cli EXCEPT ![c].pc = "back", ![c].ok = TRUE]
    /\ UNCHANGED <<stop_request, stops, asked>> /\ CliKeep

TimedOut(c) ==
    /\ Timeouts /\ cli[c].pc = "wait" /\ Cl(c, "back")
    /\ UNCHANGED <<stop_request, stopped, stops, asked>> /\ CliKeep

Return(c) ==
    /\ cli[c].pc = "back" /\ cli' = [cli EXCEPT ![c] = NoCall]
    /\ UNCHANGED <<stop_request, stopped, stops, asked>> /\ CliKeep

-----------------------------------------------------------------------------
\* The host calls back while it is enabled and callbacks are registered.
Receive == bt /\ rx' = ~rx /\ (rx \/ \E d \in Daemon : pc[d] \in {"run", "transport_stop"})
           /\ UNCHANGED <<g_running, stop_request, stopped, starts, pc, taken, held, g_started, bt, stuck, cli, stops, asked, crossing>>

DaemonStep(d) == Up(d) \/ TransportStart(d) \/ TakeRequest(d) \/ TransportStop(d) \/ ServicesStop(d) \/ End(d) \/ Post(d)
StopStep(c) == Ask(c) \/ Woken(c) \/ TimedOut(c) \/ Return(c)
Next == \/ Receive \/ \E c \in Cli : Start(c) \/ Stop(c) \/ StopStep(c)
        \/ \E d \in Daemon : DaemonStep(d)

Spec == Init /\ [][Next]_vars

Returning == rx /\ Receive

\* Tasks run on and a receive callback returns.
FairSpec == Spec /\ WF_vars(Returning) /\ (\A d \in Daemon : SF_vars(DaemonStep(d))) /\ \A c \in Cli : WF_vars(StopStep(c))

-----------------------------------------------------------------------------
\* One daemon at a time has services up, and when none is running none of them is
\* left, whichever step of a start failed; the transport can be started again unless
\* the host could not be disabled.
EndsClean ==
    /\ \A h, k \in held : h[2] = k[2]
    /\ ~g_running => held = {} /\ (g_started => stuck)

\* A receive callback finds the services up, while the host can be disabled.
RxServed == rx /\ ~stuck => \E d \in Daemon : \A i \in 1..Len(Service) : <<Service[i], d>> \in held

\* A daemon stops only for a command that was given to it, or for one that had found the
\* daemon before it running and had not posted its request when this one was started.
OwnRequest == \A d \in Daemon : taken[d] \in {0, d} \/ "ask" \in crossing[d]

Over == {"post", "ended"}
Told(d) == stop_request > 0 \/ pc[d] \in Over \cup {"transport_stop", "services_stop", "end"}

\* A stop that reports success has stopped the daemon it found running: start drains the
\* posts of the daemons before.  Only where one of these had cleared g_running and not yet
\* posted when the daemon was started may the success be that one's; then the daemon has
\* been told and stops later.
StoppedIsDown ==
    \A c \in Cli : cli[c].pc = "back" /\ cli[c].ok =>
        \/ pc[cli[c].for] \in Over
        \/ "post" \in crossing[cli[c].for] /\ Told(cli[c].for)

StopCommandEndsDue(c) == cli[c].pc = "wait"
StopCommandEndsMet(c) == cli[c].pc # "wait"

\* A stop that may wait as long as it takes ends.
StopCommandEnds == \A c \in Cli : StopCommandEndsDue(c) ~> StopCommandEndsMet(c)

-----------------------------------------------------------------------------
(* The hub's LE link *)

CONSTANTS Conn,          \* connection objects of the host
          Sender,        \* threads that send frames
          MaxLinks,      \* bound on the connections
          MaxShell       \* bound on the shell's commands

HubTransportAssumption ==
    {MaxLinks, MaxShell} \subseteq Nat /\ "none" \notin Conn /\ IsFiniteSet(Sender)

VARIABLES
    hc, refs, who,           \* per object: free, up, down; references taken here; the connection it stands for
    links,                   \* connections so far
    le_connection, le_identity, last_le_identity, generation,
    events,                  \* the last state callback: up or down, generation; and whether it was wrong
    host,                    \* the host's callback thread: step and object
    adv, scan,               \* the controller advertises; page and inquiry scan
    g_le_advertising, g_visible, work, wq, sh, shells,
    crossed,                 \* history: a thread waited for the controller while another changed what it had looked at
    snd                      \* each sender: step, identity, object, connection at capture; misdirected

hubVars == <<hc, refs, who, links, le_connection, le_identity, last_le_identity, generation, events, host,
          adv, scan, g_le_advertising, g_visible, work, wq, sh, shells, crossed, snd>>
link == <<hc, refs, who, links, le_connection, le_identity, last_le_identity, generation, events>>
vis == <<adv, scan, g_le_advertising, g_visible, work, wq, sh, shells, crossed>>

None == "none"
HostIdle == [pc |-> "idle", o |-> None]
SndIdle == [pc |-> "idle", identity |-> 0, o |-> None, meant |-> 0, wrong |-> FALSE]

HubInit ==
    /\ hc = [o \in Conn |-> "free"] /\ refs = [o \in Conn |-> 0] /\ who = [o \in Conn |-> 0] /\ links = 0
    /\ le_connection = None /\ le_identity = 0 /\ last_le_identity = 0 /\ generation = 0
    /\ events = [up |-> FALSE, gen |-> 0, bad |-> FALSE] /\ host = HostIdle
    /\ adv = FALSE /\ scan = FALSE /\ g_le_advertising = FALSE /\ g_visible = FALSE /\ work = FALSE
    /\ wq = "idle" /\ sh = "idle" /\ shells = 0 /\ crossed = FALSE /\ snd = [s \in Sender |-> SndIdle]

Tell(up, g) == events' = [up |-> up, gen |-> g, bad |-> events.bad \/ up = events.up \/ (~up /\ g # events.gen)]

-----------------------------------------------------------------------------
(* Host callbacks.  A central connects to the advertising hub; the hub may *)
(* also be the one that connects.                                          *)

Connect(o) ==
    /\ host = HostIdle /\ hc[o] = "free" /\ refs[o] = 0 /\ links < MaxLinks /\ links' = links + 1
    /\ hc' = [hc EXCEPT ![o] = "up"] /\ who' = [who EXCEPT ![o] = links + 1]
    /\ adv /\ adv' = FALSE /\ host' = [pc |-> "connected", o |-> o]
    /\ UNCHANGED <<refs, le_connection, le_identity, last_le_identity, generation, events, scan, g_le_advertising,
                   g_visible, work, wq, sh, shells, crossed, snd>>

\* transport_connected; a second connection ends the advertising and is not reported
Connected ==
    /\ host.pc = "connected"
    /\ IF le_connection # None
       THEN /\ host' = HostIdle /\ crossed' = (crossed \/ g_le_advertising)
            /\ UNCHANGED <<refs, le_connection, le_identity, last_le_identity, generation>>
       ELSE /\ le_connection' = host.o /\ refs' = [refs EXCEPT ![host.o] = @ + 1]
            /\ last_le_identity' = last_le_identity + 1 /\ le_identity' = last_le_identity + 1
            /\ generation' = generation + 1 /\ host' = [host EXCEPT !.pc = "hooks"] /\ UNCHANGED crossed
    /\ UNCHANGED <<hc, who, links, events, snd, adv, scan, g_le_advertising, g_visible, work, wq, sh, shells>>

\* ... and outside the lock the advertising hook and the state callback
ConnectedHooks ==
    /\ host.pc = "hooks" /\ g_le_advertising' = FALSE /\ Tell(TRUE, generation) /\ host' = HostIdle
    /\ crossed' = (adv \/ (crossed /\ wq # "idle"))
    /\ UNCHANGED <<hc, refs, who, links, le_connection, le_identity, last_le_identity, generation, adv, scan, g_visible,
                   work, wq, sh, shells, snd>>

Disconnect(o) ==
    /\ host = HostIdle /\ hc[o] = "up" /\ hc' = [hc EXCEPT ![o] = "down"] /\ host' = [pc |-> "disconnected", o |-> o]
    /\ UNCHANGED <<refs, who, links, le_connection, le_identity, last_le_identity, generation, events, snd>>
    /\ UNCHANGED vis

DisconnectedKeepsRef ==                  \* mutant: the reference is not given back
    /\ host.pc = "disconnected" /\ host' = HostIdle
    /\ IF host.o = le_connection
       THEN le_connection' = None /\ le_identity' = 0 /\ Tell(FALSE, generation)
       ELSE UNCHANGED <<le_connection, le_identity, events>>
    /\ UNCHANGED <<hc, refs, who, links, last_le_identity, generation, snd>> /\ UNCHANGED vis

Disconnected ==
    /\ host.pc = "disconnected" /\ host' = HostIdle
    /\ IF host.o = le_connection
       THEN /\ le_connection' = None /\ le_identity' = 0 /\ Tell(FALSE, generation)
            /\ refs' = [refs EXCEPT ![host.o] = @ - 1]
       ELSE UNCHANGED <<le_connection, le_identity, events, refs>>
    /\ UNCHANGED <<hc, who, links, last_le_identity, generation, snd>> /\ UNCHANGED vis

Recycled(o) ==
    /\ host = HostIdle /\ hc[o] = "down" /\ refs[o] = 0 /\ hc' = [hc EXCEPT ![o] = "free"] /\ work' = TRUE
    /\ UNCHANGED <<refs, who, links, le_connection, le_identity, last_le_identity, generation, events, host, adv, scan,
                   g_le_advertising, g_visible, wq, sh, shells, crossed, snd>>

-----------------------------------------------------------------------------
(* Visibility.                                                             *)

VisKeep == UNCHANGED <<host, snd>> /\ UNCHANGED link
\* bt_le_adv_start fails while advertising is on or no connection object is left.
CanAdvertise == ~adv /\ \E o \in Conn : hc[o] = "free"

\* advertising_restart, le_advertising_restart
RestartLook ==
    /\ work /\ wq = "idle" /\ work' = FALSE
    /\ wq' = IF g_visible /\ ~g_le_advertising THEN "start" ELSE "idle"
    /\ UNCHANGED <<adv, scan, g_le_advertising, g_visible, sh, shells, crossed>> /\ VisKeep

RestartStart ==
    /\ wq = "start" /\ IF CanAdvertise THEN adv' = TRUE /\ wq' = "note" ELSE wq' = "idle" /\ UNCHANGED adv
    /\ UNCHANGED <<scan, g_le_advertising, g_visible, work, sh, shells, crossed>> /\ VisKeep

RestartNote ==
    /\ wq = "note" /\ g_le_advertising' = TRUE /\ wq' = "idle" /\ crossed' = (crossed \/ ~adv)
    /\ UNCHANGED <<adv, scan, g_visible, work, sh, shells>> /\ VisKeep

\* btsensor_transport_set_visible
Shell(on) ==
    /\ sh = "idle" /\ shells < MaxShell /\ shells' = shells + 1
    /\ g_visible' = on /\ sh' = (IF on THEN "on" ELSE "off")
    /\ crossed' = (crossed \/ (~on /\ wq # "idle"))
    /\ scan' = (on \/ scan)
    /\ UNCHANGED <<adv, g_le_advertising, work, wq>> /\ VisKeep

On ==
    /\ sh = "on"
    /\ IF g_le_advertising THEN sh' = "idle" /\ UNCHANGED <<adv, scan>>
       ELSE IF CanAdvertise THEN adv' = TRUE /\ sh' = "note" /\ UNCHANGED scan
       ELSE scan' = FALSE /\ sh' = "idle" /\ UNCHANGED adv
    /\ UNCHANGED <<g_le_advertising, g_visible, work, wq, shells, crossed>> /\ VisKeep

OnNote ==
    /\ sh = "note" /\ g_le_advertising' = TRUE /\ sh' = "idle" /\ crossed' = (crossed \/ ~adv)
    /\ UNCHANGED <<adv, scan, g_visible, work, wq, shells>> /\ VisKeep

Off ==
    /\ sh = "off" /\ sh' = "scan"
    /\ IF g_le_advertising THEN adv' = FALSE /\ g_le_advertising' = FALSE ELSE UNCHANGED <<adv, g_le_advertising>>
    /\ crossed' = (crossed /\ (wq # "idle" \/ ~g_le_advertising))
    /\ UNCHANGED <<scan, g_visible, work, wq, shells>> /\ VisKeep

OffScan ==
    /\ sh = "scan" /\ scan' = FALSE /\ sh' = "idle"
    /\ UNCHANGED <<adv, g_le_advertising, g_visible, work, wq, shells, crossed>> /\ VisKeep

-----------------------------------------------------------------------------
(* brickwright_hub_transport_capture_ble, brickwright_hub_transport_send_ble *)

SndKeep == UNCHANGED host /\ UNCHANGED vis
Snd(s, r) == snd' = [snd EXCEPT ![s] = r]

Capture(s) ==
    /\ snd[s].pc = "idle" /\ le_identity # 0
    /\ Snd(s, [SndIdle EXCEPT !.pc = "send", !.identity = le_identity, !.meant = who[le_connection],
                              !.wrong = snd[s].wrong])
    /\ UNCHANGED link /\ SndKeep

Send(s) ==
    /\ snd[s].pc = "send"
    /\ IF le_connection = None \/ le_identity # snd[s].identity
       THEN Snd(s, [SndIdle EXCEPT !.wrong = snd[s].wrong]) /\ UNCHANGED refs
       ELSE /\ refs' = [refs EXCEPT ![le_connection] = @ + 1]
            /\ Snd(s, [snd[s] EXCEPT !.pc = "notify", !.o = le_connection])
    /\ UNCHANGED <<hc, who, links, le_connection, le_identity, last_le_identity, generation, events>> /\ SndKeep

\* brickwright_fd02_notify, bt_conn_unref
Notify(s) ==
    /\ snd[s].pc = "notify"
    /\ Snd(s, [SndIdle EXCEPT !.wrong = snd[s].wrong \/ who[snd[s].o] # snd[s].meant])
    /\ refs' = [refs EXCEPT ![snd[s].o] = @ - 1]
    /\ UNCHANGED <<hc, who, links, le_connection, le_identity, last_le_identity, generation, events>> /\ SndKeep

HubNext ==
    \/ \E o \in Conn : Connect(o) \/ Disconnect(o) \/ Recycled(o)
    \/ Connected \/ ConnectedHooks \/ Disconnected
    \/ RestartLook \/ RestartStart \/ RestartNote \/ Shell(TRUE) \/ Shell(FALSE) \/ On \/ OnNote \/ Off \/ OffScan
    \/ \E s \in Sender : Capture(s) \/ Send(s) \/ Notify(s)

HubSpec == HubInit /\ [][HubNext]_hubVars

-----------------------------------------------------------------------------
\* A frame goes to the connection it was captured for or to none, although the
\* object may stand for another connection by the time it is sent.
SentToItsOwn == \A s \in Sender : ~snd[s].wrong

\* The link's references are balanced: one for the link and one for each frame on its
\* way, so that a finished connection is recycled and no other one loses its object.
RefsBalanced ==
    \A o \in Conn : refs[o] = (IF le_connection = o THEN 1 ELSE 0) + Cardinality({s \in Sender : snd[s].o = o})

\* The upper layers see the link go up and down in turn, each end with the generation
\* of its beginning, however many connections the host holds.
Alternating == ~events.bad

Quiescent == sh = "idle" /\ wq = "idle" /\ ~work /\ host = HostIdle

\* Once `bt off` and everything queued are done, the hub does not scan, and it does not
\* advertise, unless a restart that had looked before was still waiting for the controller
\* when the command came, or started it while a connection was being reported.
OffIsOff == Quiescent /\ ~g_visible => ~scan /\ (~adv \/ crossed)

\* A hub that is meant to be visible and has no connection can be found again: the flag
\* that guards the restart agrees with the controller after every connection, unless one
\* came between a start of the advertising and the note of it, or was a second one.
FoundAgain == Quiescent /\ g_visible /\ scan /\ (\A o \in Conn : hc[o] = "free") => adv \/ crossed
=============================================================================
