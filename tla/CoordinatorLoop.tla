-------------------------- MODULE CoordinatorLoop --------------------------
(***************************************************************************)
(* The coordinator clients of the drives (coordinator.rs).  Every call of  *)
(* spawn_mount makes one, before it knows whether the mount succeeds: a    *)
(* task that subscribes over a WebSocket, forwards pushed invalidations    *)
(* through a bounded channel to the receiver task of the volume            *)
(* (winfsp_vfs.rs), and tells the interface whether it is connected.  Two  *)
(* calls for one drive may overlap, and an event names the drive only.     *)
(*                                                                         *)
(* Frames, tokens and prefixes are abstract: a push is its number.  The    *)
(* server and the network are outside: a connection may fail at any await  *)
(* until the network is calm, or go silent so that nobody notices, and the *)
(* server accepts a good licence.                                          *)
(***************************************************************************)
EXTENDS Integers, Sequences, FiniteSets

CONSTANTS
    Drives,      \* the drives
    Loops,       \* calls of spawn_mount that make a client
    Of,          \* the drive of each
    Capacity,    \* of the channel of invalidations (64)
    MaxPushes,   \* pushes the server sends on a connection's behalf
    MaxFailures, \* failed connections, of each kind, between two acks
    Good, Bad,   \* licence tokens the server accepts and refuses
    None

ASSUME CoordinatorAssumption ==
    /\ IsFiniteSet(Loops) /\ Of \in [Loops -> Drives]
    /\ {Capacity, MaxPushes, MaxFailures} \subseteq Nat
    /\ Capacity > 0 /\ Good # Bad /\ None \notin Loops

VARIABLES
    licence,   \* the license_jwt preference
    calm,      \* the network no longer fails
    stage,     \* how far the mount is: before, opening, open, over
    jwt,       \* the token the task was spawned with
    loop,      \* where subscribe_loop is
    silent,    \* what it waits for will not come, and it has not been told
    step,      \* index into BACKOFF_STEPS
    delay,     \* the length of the last sleep, none since the last ack: 0
    acked,     \* ack_received
    failures,  \* connections that failed since the last ack (not in the code)
    told,      \* a drive's last coordinator_status, and whose it was
    receiver,  \* the receiving end of the channel is alive
    channel,   \* invalidations on their way
    applied,   \* invalidations the receiver has applied
    dropped,   \* invalidations that found the channel full
    sent       \* how many the server has sent

link == <<loop, silent, step, delay, acked, failures, told>>
flow == <<receiver, channel, applied, dropped, sent>>
outer == <<licence, calm, stage, jwt>>
vars == <<link, flow, outer>>

BACKOFF_STEPS == <<1, 2, 5, 15, 60, 60, 60, 60, 60, 60, 300, 300, 300, 3600>>

\* A sleep of the loop, in seconds, at a step counted from 0.
Backoff(s) == BACKOFF_STEPS[s + 1]
LastStep == Len(BACKOFF_STEPS) - 1

Least(a, b) == IF a <= b THEN a ELSE b

TypeOK ==
    /\ licence \in {Good, Bad} /\ calm \in BOOLEAN
    /\ stage \in [Loops -> {"before", "opening", "open", "over"}]
    /\ jwt \in [Loops -> {Good, Bad}]
    /\ loop \in [Loops -> {"none", "start", "connect", "send", "read", "sleep", "stopped"}]
    /\ silent \in [Loops -> BOOLEAN]
    /\ step \in [Loops -> 0..LastStep]
    /\ delay \in [Loops -> {0, 1, 2, 5, 15, 60, 300, 3600}]
    /\ acked \in [Loops -> BOOLEAN]
    /\ failures \in [Loops -> Nat]
    /\ told \in [Drives -> [by : Loops \cup {None}, connected : BOOLEAN]]
    /\ receiver \in [Loops -> BOOLEAN]
    /\ channel \in [Loops -> Seq(1..MaxPushes)]
    /\ \A l \in Loops : Len(channel[l]) <= Capacity
    /\ applied \in [Loops -> Seq(1..MaxPushes)]
    /\ dropped \in [Loops -> SUBSET (1..MaxPushes)]
    /\ sent \in [Loops -> 0..MaxPushes]

Init ==
    /\ licence \in {Good, Bad} /\ calm = FALSE
    /\ stage = [l \in Loops |-> "before"]
    /\ jwt = [l \in Loops |-> Bad]
    /\ loop = [l \in Loops |-> "none"]
    /\ silent = [l \in Loops |-> FALSE]
    /\ step = [l \in Loops |-> 0]
    /\ delay = [l \in Loops |-> 0]
    /\ acked = [l \in Loops |-> FALSE]
    /\ failures = [l \in Loops |-> 0]
    /\ told = [d \in Drives |-> [by |-> None, connected |-> FALSE]]
    /\ receiver = [l \in Loops |-> FALSE]
    /\ channel = [l \in Loops |-> <<>>]
    /\ applied = [l \in Loops |-> <<>>]
    /\ dropped = [l \in Loops |-> {}]
    /\ sent = [l \in Loops |-> 0]

-----------------------------------------------------------------------------
(* emit_status: an event for the interface, which names the drive. *)
Tell(l, connected) == told' = [told EXCEPT ![Of[l]] = [by |-> l, connected |-> connected]]

\* Mutant of Closed: nobody is told that the connection is gone.
ClosedSilently(l) == UNCHANGED told

\* What the loop tells at the end of a connection.
Closed(l) == Tell(l, FALSE)

(* spawn: a task and a channel, for the licence of this moment, whatever   *)
(* other mounts of the drive there are.  The receiver task comes later.    *)
Spawn(l) ==
    /\ stage[l] = "before"
    /\ stage' = [stage EXCEPT ![l] = "opening"]
    /\ jwt' = [jwt EXCEPT ![l] = licence]
    /\ loop' = [loop EXCEPT ![l] = "start"]
    /\ receiver' = [receiver EXCEPT ![l] = TRUE]
    /\ UNCHANGED <<silent, step, delay, acked, failures, told>>
    /\ UNCHANGED <<licence, calm, channel, applied, dropped, sent>>

Open(l) ==
    /\ stage[l] = "opening"
    /\ stage' = [stage EXCEPT ![l] = "open"]
    /\ UNCHANGED <<link, flow, licence, calm, jwt>>

\* Connecting, sending and reading have no time limit.
Silence(l) ==
    /\ loop[l] \in {"connect", "send", "read"} /\ ~calm /\ ~silent[l]
    /\ silent' = [silent EXCEPT ![l] = TRUE]
    /\ UNCHANGED <<loop, step, delay, acked, failures, told, flow, outer>>

\* The await ends with an error; it may do so at any later time if it is silent.
Fails(l) ==
    /\ ~calm \/ silent[l]
    /\ silent' = [silent EXCEPT ![l] = FALSE]
    /\ failures[l] < MaxFailures
    /\ failures' = [failures EXCEPT ![l] = @ + 1]

\* The await ends with what it waits for.
Goes(l) == ~silent[l] /\ UNCHANGED silent

(* The sleep before the next attempt, by the table. *)
BackOff(l) ==
    /\ loop' = [loop EXCEPT ![l] = "sleep"]
    /\ delay' = [delay EXCEPT ![l] = Backoff(step[l])]
    /\ step' = [step EXCEPT ![l] = Least(step[l] + 1, LastStep)]

ConnectFails(l) ==
    /\ loop[l] = "connect" /\ Fails(l)
    /\ BackOff(l)
    /\ UNCHANGED <<acked, told, flow, outer>>

\* Mutant of Connects: the back-off starts over with the connection.
ConnectsAfresh(l) ==
    /\ loop[l] = "connect" /\ Goes(l)
    /\ loop' = [loop EXCEPT ![l] = "send"]
    /\ step' = [step EXCEPT ![l] = 0]
    /\ UNCHANGED <<delay, acked, failures, told, flow, outer>>

Connects(l) ==
    /\ loop[l] = "connect" /\ Goes(l)
    /\ loop' = [loop EXCEPT ![l] = "send"]
    /\ UNCHANGED <<step, delay, acked, failures, told, flow, outer>>

Subscribes(l) ==
    /\ loop[l] = "send" /\ Goes(l)
    /\ loop' = [loop EXCEPT ![l] = "read"]
    /\ UNCHANGED <<step, delay, acked, failures, told, flow, outer>>

(* The subscription cannot be sent: one second, whatever the step. *)
SendFails(l) ==
    /\ loop[l] = "send" /\ Fails(l)
    /\ loop' = [loop EXCEPT ![l] = "sleep"]
    /\ delay' = [delay EXCEPT ![l] = 1]
    /\ UNCHANGED <<step, acked, told, flow, outer>>

\* The head of the loop, after a sleep or at the start.
Wakes(l) ==
    /\ loop[l] \in {"start", "sleep"}
    /\ loop' = [loop EXCEPT ![l] = "connect"]
    /\ acked' = [acked EXCEPT ![l] = FALSE]
    /\ Tell(l, FALSE)
    /\ UNCHANGED <<silent, step, delay, failures, flow, outer>>

(* The first frame of a connection is taken for its acceptance, and those  *)
(* after it change nothing.                                                *)
Accepted(l) ==
    /\ acked' = [acked EXCEPT ![l] = TRUE]
    /\ step' = [step EXCEPT ![l] = 0]
    /\ delay' = [delay EXCEPT ![l] = 0]
    /\ failures' = [failures EXCEPT ![l] = 0]
TellsAccepted(l) == IF acked[l] THEN UNCHANGED told ELSE Tell(l, TRUE)

\* The subscribed ack, or a frame of a kind the client does not know.
OtherFrame(l) ==
    /\ loop[l] = "read" /\ jwt[l] = Good /\ ~acked[l] /\ Goes(l)
    /\ Accepted(l) /\ TellsAccepted(l)
    /\ UNCHANGED <<loop, flow, outer>>

(* A pushed invalidation: try_send never waits for a slow receiver. *)
Push(l) ==
    /\ loop[l] = "read" /\ jwt[l] = Good /\ Goes(l)
    /\ sent[l] < MaxPushes
    /\ sent' = [sent EXCEPT ![l] = @ + 1]
    /\ Accepted(l)
    /\ UNCHANGED <<receiver, applied, outer>>
    /\ \/ /\ receiver[l] /\ Len(channel[l]) < Capacity
          /\ channel' = [channel EXCEPT ![l] = Append(@, sent[l] + 1)]
          /\ TellsAccepted(l)
          /\ UNCHANGED <<dropped, loop>>
       \/ /\ receiver[l] /\ Len(channel[l]) = Capacity
          /\ dropped' = [dropped EXCEPT ![l] = @ \cup {sent[l] + 1}]
          /\ TellsAccepted(l)
          /\ UNCHANGED <<channel, loop>>
       \/ /\ ~receiver[l]
          /\ loop' = [loop EXCEPT ![l] = "stopped"]
          /\ Closed(l)
          /\ UNCHANGED <<channel, dropped>>

(* Close 4001: the licence is refused, and the loop ends for good. *)
Rejected(l) ==
    /\ loop[l] = "read" /\ jwt[l] = Bad /\ Goes(l)
    /\ loop' = [loop EXCEPT ![l] = "stopped"]
    /\ Closed(l)
    /\ UNCHANGED <<step, delay, acked, failures, flow, outer>>

\* Mutant of Disconnects: every end of a connection ends the loop.
DisconnectsForGood(l) ==
    /\ loop[l] = "read" /\ Fails(l)
    /\ loop' = [loop EXCEPT ![l] = "stopped"]
    /\ Closed(l)
    /\ UNCHANGED <<step, delay, acked, flow, outer>>

(* Any other end of a connection. *)
Disconnects(l) ==
    /\ loop[l] = "read" /\ Fails(l)
    /\ BackOff(l)
    /\ Closed(l)
    /\ UNCHANGED <<acked, flow, outer>>

\* Mutant of Receive: the newest invalidation first.
ReceiveNewest(l) ==
    /\ stage[l] # "opening" /\ receiver[l] /\ channel[l] # <<>>
    /\ channel' = [channel EXCEPT ![l] = SubSeq(@, 1, Len(@) - 1)]
    /\ applied' = [applied EXCEPT ![l] = Append(@, channel[l][Len(channel[l])])]
    /\ UNCHANGED <<receiver, dropped, sent, link, outer>>

(* start_coordinator_receiver drops what ListingCache's Pushed drops. *)
Receive(l) ==
    /\ stage[l] # "opening" /\ receiver[l] /\ channel[l] # <<>>
    /\ channel' = [channel EXCEPT ![l] = Tail(@)]
    /\ applied' = [applied EXCEPT ![l] = Append(@, Head(channel[l]))]
    /\ UNCHANGED <<receiver, dropped, sent, link, outer>>

-----------------------------------------------------------------------------
(* A mount that fails or ends drops the runtime: its tasks end where they  *)
(* await, in any order, and tell nobody.                                   *)
Close(l) ==
    /\ stage[l] \in {"opening", "open"}
    /\ stage' = [stage EXCEPT ![l] = "over"]
    /\ UNCHANGED <<link, flow, licence, calm, jwt>>

ReceiverEnds(l) ==
    /\ stage[l] = "over" /\ receiver[l]
    /\ receiver' = [receiver EXCEPT ![l] = FALSE]
    /\ channel' = [channel EXCEPT ![l] = <<>>]
    /\ UNCHANGED <<applied, dropped, sent, link, outer>>

LoopEnds(l) ==
    /\ stage[l] = "over" /\ loop[l] # "none"
    /\ loop' = [loop EXCEPT ![l] = "none"]
    /\ UNCHANGED <<silent, step, delay, acked, failures, told, flow, outer>>

(* Activation writes another token; a running task keeps its own. *)
SetLicence ==
    /\ licence = Bad
    /\ licence' = Good
    /\ UNCHANGED <<calm, stage, jwt, link, flow>>

NetworkCalms ==
    /\ ~calm /\ calm' = TRUE
    /\ UNCHANGED <<licence, stage, jwt, link, flow>>

LoopStep(l) == \/ ConnectFails(l) \/ Connects(l) \/ Subscribes(l) \/ SendFails(l)
               \/ Wakes(l) \/ OtherFrame(l) \/ Rejected(l) \/ Disconnects(l)

Next ==
    \/ \E l \in Loops : \/ LoopStep(l) \/ Silence(l) \/ Push(l) \/ Receive(l)
                        \/ Spawn(l) \/ Open(l) \/ Close(l) \/ ReceiverEnds(l) \/ LoopEnds(l)
    \/ SetLicence \/ NetworkCalms

Spec == Init /\ [][Next]_vars

\* The runtime polls its tasks, timers end, and the server answers a
\* subscription; that a silent connection is ever noticed is not assumed.
Fairness ==
    \A l \in Loops : /\ WF_vars(~silent[l] /\ LoopStep(l))
                     /\ WF_vars(Receive(l))
                     /\ WF_vars(LoopEnds(l)) /\ WF_vars(ReceiverEnds(l))

FairSpec == Spec /\ Fairness

-----------------------------------------------------------------------------
\* As far as the loop knows.
Connected(l) == loop[l] = "read" /\ acked[l]

(***************************************************************************)
(* "emit_status is invoked whenever the connection state flips": as long   *)
(* as no other client of the drive has spoken since, what a client said    *)
(* last is what its connection is, whatever mounts of the drive overlap.   *)
(* And every variable has its type, the step never past the table          *)
(* (coordinator.rs subscribe_loop, mounts.rs spawn_mount).                 *)
(***************************************************************************)
MountedIsTold ==
    /\ TypeOK
    /\ \A l \in Loops : loop[l] # "none" /\ told[Of[l]].by = l
          => (told[Of[l]].connected <=> Connected(l))

(***************************************************************************)
(* Invalidations are applied in the order they were pushed, none twice,    *)
(* and all but those that found the channel full or the mount over are     *)
(* applied or on their way (coordinator.rs try_send, winfsp_vfs.rs         *)
(* start_coordinator_receiver).                                            *)
(***************************************************************************)
PushesInOrder ==
    \A l \in Loops :
        LET seen == applied[l] \o channel[l]
        IN  /\ \A i, j \in DOMAIN seen : i < j => seen[i] < seen[j]
            /\ receiver[l]
                 => {seen[i] : i \in DOMAIN seen} \cup dropped[l] = 1..sent[l]

(***************************************************************************)
(* "Prevents fast-loop hammer": as long as no frame has come, a refused or *)
(* closed connection is never retried sooner than the one before it        *)
(* (coordinator.rs subscribe_loop).                                        *)
(***************************************************************************)
NeverSooner ==
    [][\A l \in Loops : ~acked[l] /\ loop[l] \in {"connect", "read"} /\ loop'[l] = "sleep"
                           => delay'[l] >= delay[l]]_vars

(***************************************************************************)
(* Once the network is calm a client with a good licence connects, or its  *)
(* mount ends, unless its connection went silent before: no failure it was *)
(* told of keeps it away for ever (coordinator.rs subscribe_loop).         *)
(***************************************************************************)
Reconnects ==
    \A l \in Loops :
        (calm /\ stage[l] \in {"opening", "open"} /\ jwt[l] = Good /\ ~silent[l])
            ~> (Connected(l) \/ stage[l] = "over")

=============================================================================
