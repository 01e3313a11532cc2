---------------------------- MODULE SensorClass -----------------------------
(***************************************************************************)
(* The sensor class devices (legosensor_uorb.c): six topics, each bound to *)
(* at most one port; the port's LUMP callbacks bind, publish and unbind,   *)
(* and descriptors claim a class to write to the port behind it.           *)
(*                                                                         *)
(* g_bind_lock and the port locks are never held together: one step per    *)
(* critical section, and one for a push, which holds neither.  Each port's *)
(* callbacks come from its own engine thread, one after the other.  seq    *)
(* and generation of a sample are left out; sessions number the devices.   *)
(***************************************************************************)
EXTENDS Naturals, FiniteSets

CONSTANTS Ports,      \* port numbers
          Types,      \* device types, a subset of those classify knows and "other"
          Fds,        \* open descriptors
          MaxSess,    \* sessions of a port
          None

Classes == {"color", "ultrasonic", "force", "motor_m", "motor_r", "motor_l"}

SensorClassAssumption ==
    /\ Ports \subseteq Nat /\ MaxSess \in Nat /\ None \notin Ports \cup Fds
    /\ Types \subseteq {"color", "ultrasonic", "force", "large", "medium", "other"}

VARIABLES
    bound,   \* bound_port of a class
    bgen,    \* bind_generation
    claim,   \* claim_owner and claim_bind_gen
    bsess,   \* the session the binding was made in
    port,    \* per port: synced, type, pending select, session of the latest sample, and
             \* whether it lost its class to a lower port since it synchronised
    sess,    \* per port: its session
    cb,      \* per port: where its engine thread is, with its locals
    fd,      \* per descriptor: where its ioctl is, with its locals
    topic,   \* the last event pushed to a class
    out      \* per descriptor: what its last GET_LATEST or write reached

binding == <<bound, bgen, bsess>>
vars == <<binding, claim, port, sess, cb, fd, topic, out>>

NoEvent == [kind |-> "none", port |-> None]
NoFd == [at |-> "idle", class |-> None, port |-> None, gen |-> 0, sess |-> 0]
NoOut == [kind |-> "none", class |-> None, port |-> None, sess |-> 0]
Off == [at |-> "off", class |-> None, next |-> "off", disp |-> None, ev |-> NoEvent]
Blank == [synced |-> FALSE, type |-> None, pend |-> FALSE, latest |-> 0, lost |-> FALSE]

\* legosensor_classify: the parity of the port tells the two medium motors apart.
Classify(t, p) ==
    CASE t = "large"  -> "motor_m"
      [] t = "medium" -> IF p % 2 = 0 THEN "motor_r" ELSE "motor_l"
      [] t = "other"  -> None
      [] OTHER        -> t

\* legosensor_class_of
ClassOf(p) == IF \E c \in Classes : bound[c] = p THEN CHOOSE c \in Classes : bound[c] = p ELSE None

TypeOK ==
    /\ \A c \in Classes : bound[c] \in Ports \cup {None} /\ bgen[c] \in Nat
                          /\ claim[c].owner \in Fds \cup {None} /\ claim[c].gen <= bgen[c]
    /\ \A p \in Ports : /\ cb[p].at \in {"off", "bind", "displace", "greet", "push", "on", "look",
                                         "record", "reset"}
                        /\ port[p].latest \in 0..MaxSess /\ sess[p] \in 0..MaxSess
    /\ \A f \in Fds : fd[f].at \in {"idle", "copy", "verify", "arm", "select", "write"}

Init ==
    /\ bound = [c \in Classes |-> None] /\ bgen = [c \in Classes |-> 0]
    /\ claim = [c \in Classes |-> [owner |-> None, gen |-> 0]]
    /\ bsess = [c \in Classes |-> 0]
    /\ port = [p \in Ports |-> Blank] /\ sess = [p \in Ports |-> 0]
    /\ cb = [p \in Ports |-> Off] /\ fd = [f \in Fds |-> NoFd]
    /\ topic = [c \in Classes |-> NoEvent] /\ out = [f \in Fds |-> NoOut]

-----------------------------------------------------------------------------
Event(k, p) == [kind |-> k, port |-> p]
Go(p, r) == cb' = [cb EXCEPT ![p] = r]

\* legosensor_on_sync, phase A: the port's state is replaced under its lock.
OnSync(p, t) ==
    /\ cb[p].at = "off" /\ sess[p] < MaxSess /\ sess' = [sess EXCEPT ![p] = @ + 1]
    /\ port' = [port EXCEPT ![p] = [synced |-> TRUE, type |-> t, pend |-> FALSE, latest |-> 0,
                                     lost |-> FALSE]]
    /\ Go(p, IF Classify(t, p) = None THEN [Off EXCEPT !.at = "on"]
             ELSE [Off EXCEPT !.at = "bind", !.class = Classify(t, p)])
    /\ UNCHANGED <<binding, claim, fd, topic, out>>

Wins(p, c) == bound[c] = None \/ bound[c] > p

TryBind(p) ==
    /\ cb[p].at = "bind"
    /\ LET c == cb[p].class IN
       IF Wins(p, c)
       THEN /\ bound' = [bound EXCEPT ![c] = p] /\ bgen' = [bgen EXCEPT ![c] = @ + 1]
            /\ bsess' = [bsess EXCEPT ![c] = sess[p]]
            /\ Go(p, [cb[p] EXCEPT !.at = IF bound[c] = None THEN "greet" ELSE "displace",
                                   !.disp = bound[c]])
            /\ port' = [q \in Ports |-> IF q = bound[c] THEN [port[q] EXCEPT !.lost = @ \/ p < q] ELSE port[q]]
       ELSE /\ Go(p, [Off EXCEPT !.at = "on"]) /\ UNCHANGED binding
            /\ port' = [port EXCEPT ![p].lost = TRUE]
    /\ UNCHANGED <<claim, sess, fd, topic, out>>

\* Phase C: the disconnect sentinel of the displaced port, then the port's own sentinel.
Displace(p) ==
    /\ cb[p].at = "displace"
    /\ Go(p, [cb[p] EXCEPT !.at = "push", !.next = "greet", !.ev = Event("gone", cb[p].disp)])
    /\ UNCHANGED <<binding, claim, port, sess, fd, topic, out>>

Greet(p) ==
    /\ cb[p].at = "greet"
    /\ Go(p, [cb[p] EXCEPT !.at = "push", !.next = "on", !.ev = Event("sync", p)])
    /\ UNCHANGED <<binding, claim, port, sess, fd, topic, out>>

\* push_event, outside both locks.
Push(p) ==
    /\ cb[p].at = "push" /\ topic' = [topic EXCEPT ![cb[p].class] = cb[p].ev]
    /\ Go(p, IF cb[p].next = "greet"
             THEN [Off EXCEPT !.at = "greet", !.class = cb[p].class] ELSE [Off EXCEPT !.at = cb[p].next])
    /\ UNCHANGED <<binding, claim, port, sess, fd, out>>

\* legosensor_on_data: the class is looked up under g_bind_lock ...
OnData(p) ==
    /\ cb[p].at = "on" /\ ClassOf(p) # None
    /\ Go(p, [Off EXCEPT !.at = "record", !.class = ClassOf(p)])
    /\ UNCHANGED <<binding, claim, port, sess, fd, topic, out>>

\* ... the sample is kept under the port lock, a pending select confirmed, expired
\* or left, and the sample pushed.
Record(p) ==
    /\ cb[p].at = "record"
    /\ \E b \in {FALSE, port[p].pend} :
          port' = [port EXCEPT ![p].latest = sess[p], ![p].pend = b]
    /\ Go(p, [cb[p] EXCEPT !.at = "push", !.next = "on", !.ev = Event("data", p)])
    /\ UNCHANGED <<binding, claim, sess, fd, topic, out>>

OnError(p) ==
    /\ cb[p].at = "on"
    /\ LET c == ClassOf(p) IN
       /\ IF c = None THEN UNCHANGED binding
          ELSE bound' = [bound EXCEPT ![c] = None] /\ bgen' = [bgen EXCEPT ![c] = @ + 1]
               /\ UNCHANGED bsess
       /\ Go(p, [Off EXCEPT !.at = "reset", !.class = c])
    /\ UNCHANGED <<claim, port, sess, fd, topic, out>>

Reset(p) ==
    /\ cb[p].at = "reset" /\ port' = [port EXCEPT ![p] = Blank]
    /\ Go(p, IF cb[p].class = None THEN Off
             ELSE [cb[p] EXCEPT !.at = "push", !.next = "off", !.ev = Event("gone", p)])
    /\ UNCHANGED <<binding, claim, sess, fd, topic, out>>

-----------------------------------------------------------------------------
\* LEGOSENSOR_GET_LATEST: the binding's identity, the copy, the identity again.
LatestBegin(f, c) ==
    /\ fd[f].at = "idle" /\ bound[c] # None
    /\ fd' = [fd EXCEPT ![f] = [at |-> "copy", class |-> c, port |-> bound[c], gen |-> bgen[c], sess |-> 0]]
    /\ out' = [out EXCEPT ![f] = NoOut]
    /\ UNCHANGED <<binding, claim, port, sess, cb, topic>>

LatestCopy(f) ==
    /\ fd[f].at = "copy"
    /\ fd' = [fd EXCEPT ![f].at = "verify", ![f].sess = port[fd[f].port].latest]
    /\ UNCHANGED <<binding, claim, port, sess, cb, topic, out>>

SameAny(f) == TRUE               \* mutant: the identity is not compared

Same(f) == bound[fd[f].class] = fd[f].port /\ bgen[fd[f].class] = fd[f].gen

LatestVerify(f) ==
    /\ fd[f].at = "verify" /\ fd' = [fd EXCEPT ![f] = NoFd]
    /\ out' = [out EXCEPT ![f] =
          IF Same(f) /\ fd[f].sess # 0
          THEN [kind |-> "latest", class |-> fd[f].class, port |-> fd[f].port, sess |-> fd[f].sess]
          ELSE NoOut]
    /\ UNCHANGED <<binding, claim, port, sess, cb, topic>>

\* LEGOSENSOR_CLAIM: a free or stale claim is taken over.
FreeAny(c, f) == TRUE            \* mutant: a claim that holds is overwritten

Free(c, f) == claim[c].owner \in {None, f} \/ claim[c].gen # bgen[c]

Claim(f, c) ==
    /\ fd[f].at = "idle" /\ bound[c] # None /\ Free(c, f)
    /\ claim' = [claim EXCEPT ![c] = [owner |-> f, gen |-> bgen[c]]]
    /\ UNCHANGED <<binding, port, sess, cb, fd, topic, out>>

\* LEGOSENSOR_RELEASE by the owner of a current claim; legosensor_close by any owner.
Release(f, c) ==
    /\ fd[f].at = "idle" /\ claim[c].owner = f
    /\ claim' = [claim EXCEPT ![c] = [owner |-> None, gen |-> 0]]
    /\ UNCHANGED <<binding, port, sess, cb, fd, topic, out>>

\* legosensor_check_write_claim
MayWrite(f, c) == bound[c] # None /\ claim[c].owner = f /\ claim[c].gen = bgen[c]

\* LEGOSENSOR_SELECT, SEND, SET_PWM, COAST and BRAKE: the check ...
WriteCheck(f, c, what) ==
    /\ fd[f].at = "idle" /\ MayWrite(f, c)
    /\ fd' = [fd EXCEPT ![f] = [at |-> what, class |-> c, port |-> bound[c], gen |-> bgen[c], sess |-> 0]]
    /\ out' = [out EXCEPT ![f] = NoOut]
    /\ UNCHANGED <<binding, claim, port, sess, cb, topic>>

\* ... a select arms its tracker before it posts ...
Arm(f) ==
    /\ fd[f].at = "arm" /\ fd' = [fd EXCEPT ![f].at = "select"]
    /\ port' = [port EXCEPT ![fd[f].port].pend = TRUE]
    /\ UNCHANGED <<binding, claim, sess, cb, topic, out>>

\* ... and the port's engine or bridge is reached, or refuses, which disarms it.
Write(f) ==
    /\ fd[f].at \in {"write", "select"} /\ fd' = [fd EXCEPT ![f] = NoFd]
    /\ \/ /\ out' = [out EXCEPT ![f] = [kind |-> "write", class |-> fd[f].class, port |-> fd[f].port,
                                       sess |-> IF Same(f) THEN 1 ELSE 0]]
          /\ UNCHANGED port
       \/ /\ port' = IF fd[f].at = "select" THEN [port EXCEPT ![fd[f].port].pend = FALSE] ELSE port
          /\ UNCHANGED out
    /\ UNCHANGED <<binding, claim, sess, cb, topic>>

Next ==
    \/ \E p \in Ports : \/ \E t \in Types : OnSync(p, t)
                        \/ TryBind(p) \/ Displace(p) \/ Greet(p) \/ Push(p)
                        \/ OnData(p) \/ Record(p) \/ OnError(p) \/ Reset(p)
    \/ \E f \in Fds : \/ LatestCopy(f) \/ LatestVerify(f) \/ Arm(f) \/ Write(f)
                      \/ \E c \in Classes : \/ LatestBegin(f, c) \/ Claim(f, c) \/ Release(f, c)
                                            \/ WriteCheck(f, c, "arm") \/ WriteCheck(f, c, "write")

Spec == Init /\ [][Next]_vars

-----------------------------------------------------------------------------
(* Properties *)

Settled(p) == cb[p].at \in {"on", "off"}

\* A class whose port's callback has returned is bound to a port that is
\* connected, with a device of that class, and no port has two classes.
BoundIsConnected ==
    \A c \in Classes : bound[c] # None =>
        /\ Settled(bound[c]) => port[bound[c]].synced /\ Classify(port[bound[c]].type, bound[c]) = c
        /\ \A d \in Classes \ {c} : bound[d] # bound[c]

\* In whatever order the devices of a class come and go, a connected port that
\* has not lost to a lower one since it synchronised holds its class.
LowestWins ==
    \A p \in Ports : Settled(p) /\ port[p].synced /\ ~port[p].lost /\ Classify(port[p].type, p) # None
        => bound[Classify(port[p].type, p)] = p

\* A sample GET_LATEST returns was sent by the device behind the binding that
\* holds when it returns, never by a device that was there before.
LatestIsCurrent ==
    \A f \in Fds : out'[f].kind = "latest" /\ out'[f] # out[f]
       => bound[out'[f].class] = out'[f].port /\ bsess[out'[f].class] = out'[f].sess

\* Two descriptors never write under the same binding of a class.
OneWriter ==
    \A f, g \in Fds : f # g /\ {fd[f].at, fd[g].at} \subseteq {"arm", "select", "write"}
        => fd[f].class # fd[g].class \/ fd[f].gen # fd[g].gen

\* "only the bound port pushes to the class lower-half" (sensor.md).
PushIsBound ==
    \A c \in Classes : topic'[c] # topic[c] /\ topic'[c].kind = "data"
       => bound[c] = topic'[c].port

\* A write reaches the port only under the binding its claim was made on: "The
\* owner fd's next write ioctl returns `-ENODEV`" (sensor.md).
WriteIsCurrent == \A f \in Fds : out[f].kind = "write" => out[f].sess = 1
=============================================================================
