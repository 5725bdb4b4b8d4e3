----------------------------- MODULE Supervision -----------------------------
(***************************************************************************)
(* How a panicked actor comes back: its supervisor puts it into the panic  *)
(* channel, and the loop of the node's main function has the ActorManager  *)
(* respawn it (crates/node/src/main.rs, crates/actors/src/manager.rs, the  *)
(* supervisors of crates/actors/src/*.rs).                                 *)
(*                                                                         *)
(* The actor library is external: an actor whose handler returned an error *)
(* or panicked is Stopping when its supervisor is notified, and becomes    *)
(* Stopped on its own time.                                                *)
(***************************************************************************)
EXTENDS Integers, Sequences

CONSTANTS Actors,
          MaxPanics,   \* bound: panics that no other panic causes
          Capacity     \* of the panic channel, 120 in the node

ASSUME SupervisionConstants == MaxPanics \in Nat /\ Capacity \in Nat \ {0}

VARIABLES status,       \* of the last incarnation of each actor
          incarnation,  \* how often the actor was respawned
          events,       \* ActorPanicked events in the mailbox of each supervisor
          channel,      \* the panic channel: incarnations
          early,        \* history: incarnations whose signal was read before they had stopped
          panics

superVars == <<status, incarnation, events, channel, early, panics>>

SuperInit ==
    /\ status = [a \in Actors |-> "running"]
    /\ incarnation = [a \in Actors |-> 0]
    /\ events = [a \in Actors |-> <<>>]
    /\ channel = <<>>
    /\ early = {}
    /\ panics = 0

Running(a) == status[a] = "running"

\* The handler of a running actor fails: its supervisor is notified.
Dies(a) ==
    /\ Running(a)
    /\ status' = [status EXCEPT ![a] = "stopping"]
    /\ events' = [events EXCEPT ![a] = Append(@, incarnation[a])]
    /\ UNCHANGED <<incarnation, channel, early>>

Panic(a) == panics < MaxPanics /\ panics' = panics + 1 /\ Dies(a)

Stop(a) ==
    /\ status[a] = "stopping"
    /\ status' = [status EXCEPT ![a] = "stopped"]
    /\ UNCHANGED <<incarnation, events, channel, early, panics>>

ForwardWithoutRoom(a) ==
    /\ events[a] # <<>>
    /\ channel' = Append(channel, <<a, Head(events[a])>>)
    /\ events' = [events EXCEPT ![a] = Tail(@)]
    /\ UNCHANGED <<status, incarnation, early, panics>>
TryForward(a) ==
    /\ events[a] # <<>>
    /\ channel' = IF Len(channel) < Capacity
                  THEN Append(channel, <<a, Head(events[a])>>) ELSE channel
    /\ events' = [events EXCEPT ![a] = Tail(@)]
    /\ UNCHANGED <<status, incarnation, early, panics>>
\* handle_supervisor_evt: the supervisor awaits room in the channel.
Forward(a) ==
    /\ events[a] # <<>>
    /\ Len(channel) < Capacity
    /\ channel' = Append(channel, <<a, Head(events[a])>>)
    /\ events' = [events EXCEPT ![a] = Tail(@)]
    /\ UNCHANGED <<status, incarnation, early, panics>>

Stopped(a, i) == i < incarnation[a] \/ status[a] = "stopped"

\* respawn_*: the actor is spawned under its supervisor and its name, and the manager
\* keeps the new reference.
Respawn(a) ==
    /\ status' = [status EXCEPT ![a] = "running"]
    /\ incarnation' = [incarnation EXCEPT ![a] = @ + 1]
    /\ UNCHANGED early

\* The loop of main: a signal of an actor that has not stopped yet is dropped.
Supervise ==
    /\ channel # <<>>
    /\ LET a == Head(channel)[1] IN
          IF Stopped(a, Head(channel)[2])
          THEN Respawn(a)
          ELSE UNCHANGED <<status, incarnation>> /\ early' = early \union {Head(channel)}
    /\ channel' = Tail(channel)
    /\ UNCHANGED <<events, panics>>

SuperStep == Supervise \/ \E a \in Actors : Stop(a) \/ Forward(a)

-----------------------------------------------------------------------------
\* In the end every actor runs, or main dropped the signal of its last panic because it
\* read it before the actor had stopped. A full channel delays a respawn, and no more.
RespawnedUnlessEarly ==
    <>[](\A a \in Actors : Running(a) \/ <<a, incarnation[a]>> \in early)
=============================================================================
