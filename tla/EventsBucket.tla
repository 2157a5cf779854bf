---------------------------- MODULE EventsBucket ----------------------------
(***************************************************************************)
(* The event bus of a kontinuous run, packages/common/utils/               *)
(* events-bucket.js: the deployers, the sidecars and the signal handlers   *)
(* of the CLI talk through it.                                             *)
(*                                                                         *)
(* A bucket keeps every event of its name (fullstack) and one asynchronous *)
(* iterator per subscription.  An iterator is a stack of events not yet    *)
(* pulled and, when its consumer waits on an empty stack, the resolver of  *)
(* the promise it waits on (next).  A resolved promise reaches the         *)
(* consumer only in a later microtask: until then its value is in flight.  *)
(*                                                                         *)
(* Emit and On are synchronous functions, Deliver is one turn of a         *)
(* subscription's "for await" loop.                                        *)
(***************************************************************************)
EXTENDS Naturals, Sequences

CONSTANTS
  Name,      \* event names ("resource:ready", "deploy-with:finish", ...)
  Handler,   \* subscriptions; each is registered at most once
  Event,     \* event payloads
  NameOf,    \* the name each handler subscribes to
  MaxLog     \* bound on the events emitted under one name

ASSUME NameOfType == NameOf \in [Handler -> Name]
ASSUME MaxLogType == MaxLog \in Nat

VARIABLES
  fullstack,   \* fullstack[n]: every event emitted under n
  registered,  \* handlers that called on()
  stack,       \* stack[h]: events pushed to h's iterator, not pulled yet
  parked,      \* handlers whose iterator holds a resolver (next is set)
  inflight,    \* inflight[h]: the resolved value h has not consumed, 0 or 1
  heard        \* heard[h]: history of the calls of h's callback

vars == <<fullstack, registered, stack, parked, inflight, heard>>

TypeOK ==
  /\ fullstack \in [Name -> Seq(Event)]
  /\ registered \in SUBSET Handler
  /\ stack \in [Handler -> Seq(Event)]
  /\ parked \in SUBSET Handler
  /\ inflight \in [Handler -> Seq(Event)]
  /\ heard \in [Handler -> Seq(Event)]

Init ==
  /\ fullstack = [n \in Name |-> <<>>]
  /\ registered = {}
  /\ stack = [h \in Handler |-> <<>>]
  /\ parked = {}
  /\ inflight = [h \in Handler |-> <<>>]
  /\ heard = [h \in Handler |-> <<>>]

-----------------------------------------------------------------------------
(* Faulty variants of the definitions below, each a slip this code could   *)
(* contain: a generator that takes the newest event, a subscription        *)
(* without replay, one that pushes the log itself and not its events.      *)
PullNewest(h, s) ==
  /\ inflight' = [inflight EXCEPT ![h] = IF s = <<>> THEN s ELSE <<s[Len(s)]>>]
  /\ stack' = [stack EXCEPT ![h] = IF s = <<>> THEN s ELSE SubSeq(s, 1, Len(s) - 1)]
  /\ parked' = IF s = <<>> THEN parked \union {h} ELSE parked \ {h}
NoReplay(n) == <<>>
ReplayNested(n) == <<fullstack[n]>>

\* A turn of the generator on an iterator whose stack is s: take the oldest
\* event, or park.
PullFrom(h, s) ==
  IF s # <<>>
  THEN /\ inflight' = [inflight EXCEPT ![h] = <<Head(s)>>]
       /\ stack' = [stack EXCEPT ![h] = Tail(s)]
       /\ parked' = parked \ {h}
  ELSE /\ inflight' = [inflight EXCEPT ![h] = <<>>]
       /\ stack' = [stack EXCEPT ![h] = <<>>]
       /\ parked' = parked \union {h}

\* What a new subscription is given at once: the whole log of its name.
Replay(n) == fullstack[n]

\* The resolvers left after the iterators in woken were resolved.
ParkedAfter(woken) == parked \ woken

On(h) ==
  /\ h \notin registered
  /\ registered' = registered \union {h}
  /\ PullFrom(h, Replay(NameOf[h]))
  /\ UNCHANGED <<fullstack, heard>>

Subscribers(n) == {h \in registered : NameOf[h] = n}

\* iterator.push on every iterator of the bucket: a parked consumer is
\* resolved with the event, the others find it on their stack.
Emit(n, e) ==
  /\ Len(fullstack[n]) < MaxLog
  /\ fullstack' = [fullstack EXCEPT ![n] = Append(@, e)]
  /\ LET woken == Subscribers(n) \intersect parked
         late  == Subscribers(n) \ parked
     IN /\ inflight' = [h \in Handler |->
                          IF h \in woken THEN <<e>> ELSE inflight[h]]
        /\ stack' = [h \in Handler |->
                       IF h \in late THEN Append(stack[h], e) ELSE stack[h]]
        /\ parked' = ParkedAfter(woken)
  /\ UNCHANGED <<registered, heard>>

\* The consumer calls the callback with the value in flight and asks the
\* generator for the next one.
Deliver(h) ==
  /\ inflight[h] # <<>>
  /\ heard' = [heard EXCEPT ![h] = Append(@, Head(inflight[h]))]
  /\ PullFrom(h, stack[h])
  /\ UNCHANGED <<fullstack, registered>>

Next ==
  \/ \E n \in Name, e \in Event : Emit(n, e)
  \/ \E h \in Handler : On(h)
  \/ \E h \in Handler : Deliver(h)

\* The event loop runs every pending microtask; nobody has to emit or listen.
Fairness == \A h \in Handler : WF_vars(Deliver(h))

Spec == Init /\ [][Next]_vars /\ Fairness

-----------------------------------------------------------------------------
\* An iterator that holds a resolver has nothing waiting: the consumer is not
\* left asleep while an event sits in its stack (events-bucket.js:16-24).
ParkedIsIdle ==
  \A h \in parked : stack[h] = <<>> /\ inflight[h] = <<>>

\* The history of a registered handler, then the value in flight, then the
\* stack, are the log of its name, position by position.
Counted(h) ==
  /\ Len(inflight[h]) \in {0, 1}
  /\ Len(heard[h]) + Len(inflight[h]) + Len(stack[h]) = Len(fullstack[NameOf[h]])

HeardAligned(h) ==
  \A i \in 1..Len(heard[h]) : heard[h][i] = fullstack[NameOf[h]][i]

InflightAligned(h) ==
  Len(inflight[h]) = 1 =>
    inflight[h][1] = fullstack[NameOf[h]][Len(heard[h]) + 1]

StackAligned(h) ==
  \A i \in 1..Len(stack[h]) :
    stack[h][i] = fullstack[NameOf[h]][Len(heard[h]) + Len(inflight[h]) + i]

Aligned(h) ==
  Counted(h) /\ HeardAligned(h) /\ InflightAligned(h) /\ StackAligned(h)

\* Whatever the moment of its subscription, no event is lost, duplicated or
\* reordered for a handler (events-bucket.js:32-43, the replay of fullstack).
ExactlyOnceInOrder == \A h \in registered : Aligned(h)

\* Every event emitted under a name is eventually heard by every handler of
\* that name (a dependent waiting for resource:ready is woken).
EverythingHeard ==
  \A h \in Handler : \A k \in 1..MaxLog :
    (h \in registered /\ Len(fullstack[NameOf[h]]) >= k) ~> (Len(heard[h]) >= k)

\* The bucket implements the event log its clients rely on.
Abstract == INSTANCE EventLog WITH log <- fullstack
ImplementsEventLog == Abstract!Spec

=============================================================================
