------------------------------ MODULE EventLog ------------------------------
(***************************************************************************)
(* What a component may rely on when it subscribes to the event bus of a   *)
(* run (ctx "eventsBucket"): each event name is an append-only log, and    *)
(* every handler hears the whole log of its name, from the first event, in *)
(* order, each event once, whenever it subscribed.                         *)
(*                                                                         *)
(* Nothing is promised about the relative order in which events of two     *)
(* different names are heard.                                              *)
(***************************************************************************)
EXTENDS Naturals, Sequences

CONSTANTS
  Name,      \* event names
  Handler,   \* subscriptions
  Event,     \* event payloads
  NameOf     \* the name each handler subscribes to

VARIABLES
  log,       \* log[n]: the events published under n so far
  heard      \* heard[h]: the events handler h was called with, in order

vars == <<log, heard>>

Init ==
  /\ log   = [n \in Name |-> <<>>]
  /\ heard = [h \in Handler |-> <<>>]

Publish(n, e) ==
  /\ log' = [log EXCEPT ![n] = Append(@, e)]
  /\ UNCHANGED heard

\* The next event h hears is the first of the log it has not heard.
Hear(h) ==
  /\ Len(heard[h]) < Len(log[NameOf[h]])
  /\ heard' = [heard EXCEPT ![h] = Append(@, log[NameOf[h]][Len(@) + 1])]
  /\ UNCHANGED log

Next ==
  \/ \E n \in Name, e \in Event : Publish(n, e)
  \/ \E h \in Handler : Hear(h)

Spec == Init /\ [][Next]_vars

=============================================================================
