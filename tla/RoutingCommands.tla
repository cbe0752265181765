-------------------------- MODULE RoutingCommands --------------------------
(***************************************************************************)
(* How commands reach the RoutingHub: clients publish them to a Redis      *)
(* stream (redis_bus.rs), the daemon's main loop reads them (main.rs,      *)
(* Commands::Daemon) and the hub applies them to its assets (routing       *)
(* lib.rs).                                                                *)
(*                                                                         *)
(* The main loop is a select! over routing_hub.next() and                  *)
(* subscriber.next(): whenever the latter ends, with a command or after    *)
(* 100ms without one, the former is dropped wherever it awaits, and called *)
(* anew.  What it does between two awaits is one step.                     *)
(*                                                                         *)
(* A command's number is its place in the stream.  A limit's id is fresh   *)
(* when its New is applied (Uuid::now_v7), so it also has the daemon's run *)
(* in it.  Where a book comes from is not in the repository: it takes some *)
(* time, or none.                                                          *)
(***************************************************************************)
EXTENDS Integers, Sequences, FiniteSetsExt, Functions

CONSTANTS
  Assets,
  MaxCommands,   \* bound: commands published
  MaxRuns        \* bound: starts of the daemon

ASSUME RoutingAssumption == {MaxCommands, MaxRuns} \subseteq Nat

VARIABLES
  stream,       \* the commands published, in order; never trimmed
  checked,      \* a client has seen an active consumer and is about to publish
  group,        \* number of the last entry delivered to the group
  fresh,        \* the group has a consumer that was idle for less than 10s
  run,          \* number of starts so far
  sub,          \* where subscriber.next() is; "down": no daemon
  cmd,          \* number of the command it holds
  command_queue,
  hub,          \* where routing_hub.next() is
  batch,        \* commands it took and has yet to apply
  dirty,        \* assets whose ticks it has yet to subscribe to
  assets,       \* [asset in use -> its limits]
  listen_books, \* assets whose next tick is awaited
  applied,      \* history: the commands this run applied, in order
  inherited,    \* history: entries earlier runs read and never acknowledged
  cancelled     \* history: routing_hub.next() was dropped with work in hand

busVars == <<stream, checked, group, fresh>>
hubVars == <<hub, batch, dirty, assets, listen_books, applied, cancelled>>
vars == <<busVars, run, sub, cmd, command_queue, hubVars, inherited>>

NoAssets == [a \in {} |-> {}]

FreshHub == \* RoutingHub::default(), before the main loop
  /\ cmd' = 0 /\ command_queue' = <<>>
  /\ hub' = "start" /\ batch' = <<>> /\ dirty' = {}
  /\ assets' = NoAssets /\ listen_books' = {}
  /\ applied' = <<>> /\ cancelled' = FALSE

Init ==
  /\ stream = <<>> /\ checked = FALSE /\ group = 0 /\ fresh = FALSE
  /\ run = 0 /\ sub = "down" /\ cmd = 0 /\ command_queue = <<>>
  /\ hub = "start" /\ batch = <<>> /\ dirty = {} /\ assets = NoAssets /\ listen_books = {}
  /\ applied = <<>> /\ inherited = {} /\ cancelled = FALSE

LimitsIn(as) == UNION {as[a] : a \in DOMAIN as}
Limits == LimitsIn(assets)

-----------------------------------------------------------------------------
(***************************************************************************)
(* Clients: publish(..) looks for an active consumer first.                *)
(***************************************************************************)
Commands ==
  [op : {"New"}, asset : Assets]
    \union [op : {"Adj"}, id : Limits] \union [op : {"Del"}, id : Limits, weak : BOOLEAN]

RequireActiveConsumer ==
  /\ ~checked
  /\ fresh
  /\ Len(stream) < MaxCommands
  /\ checked' = TRUE
  /\ UNCHANGED <<stream, group, fresh, run, sub, cmd, command_queue, hubVars, inherited>>

Publish ==
  /\ checked
  /\ checked' = FALSE
  /\ \E c \in Commands : stream' = Append(stream, c)
  /\ UNCHANGED <<group, fresh, run, sub, cmd, command_queue, hubVars, inherited>>

\* The consumer of a dead daemon stays listed, but is idle after 10s.
ConsumerGoesIdle ==
  /\ sub = "down"
  /\ fresh
  /\ fresh' = FALSE
  /\ UNCHANGED <<stream, checked, group, run, sub, cmd, command_queue, hubVars, inherited>>

-----------------------------------------------------------------------------
(***************************************************************************)
(* The daemon's life.                                                      *)
(***************************************************************************)
\* MUTANT of NewGroup: the group is not destroyed (BUSYGROUP), and keeps its place
OldGroup == group

\* The group is destroyed and created anew at "0", the start of the stream.
NewGroup == 0

StreamSubscriber ==
  /\ sub = "down"
  /\ run < MaxRuns
  /\ run' = run + 1
  /\ sub' = "read"
  /\ inherited' = inherited \union ({cmd} \ {0})
  /\ group' = NewGroup
  /\ fresh' = FALSE
  /\ FreshHub
  /\ UNCHANGED <<stream, checked>>

\* ctrl-c, a kill, or the todo!() behind the first tick of a book.
Stop ==
  /\ sub # "down"
  /\ sub' = "down"
  /\ UNCHANGED <<busVars, run, cmd, command_queue, hubVars, inherited>>

-----------------------------------------------------------------------------
(***************************************************************************)
(* StreamSubscriber::next.                                                 *)
(***************************************************************************)
ReadGroup ==
  /\ sub = "read"
  /\ fresh' = TRUE
  /\ IF group < Len(stream)
     THEN group' = group + 1 /\ cmd' = group + 1 /\ sub' = "ack"
     ELSE sub' = "sleep" /\ UNCHANGED <<group, cmd>>
  /\ UNCHANGED <<stream, checked, run, command_queue, hubVars, inherited>>

NoLocals == {}

\* subscriber.next() ends, and routing_hub.next() is dropped.
EndSelect ==
  /\ sub' = "read"
  /\ hub' = "start" /\ batch' = <<>> /\ dirty' = NoLocals
  /\ cancelled' = (cancelled \/ batch # <<>> \/ dirty # {})
  /\ UNCHANGED <<assets, listen_books, applied>>

OnlyLast(queue, n) == <<n>>  \* MUTANT of Pushed: the queue is a single slot

Pushed(queue, n) == Append(queue, n)

\* The entry is acknowledged and the command pushed to the hub's queue.
Acknowledge ==
  /\ sub = "ack"
  /\ command_queue' = Pushed(command_queue, cmd)
  /\ cmd' = 0
  /\ EndSelect
  /\ UNCHANGED <<busVars, run, inherited>>

NothingRead ==
  /\ sub = "sleep"
  /\ EndSelect
  /\ UNCHANGED <<busVars, run, cmd, command_queue, inherited>>

-----------------------------------------------------------------------------
(***************************************************************************)
(* RoutingHub::next and apply_commands.                                    *)
(***************************************************************************)
\* A weak Del gives way to a later Adj of the same limit in the batch.
NeverDominated(queue, n) == FALSE  \* MUTANT of Dominated

Dominated(queue, n) ==
  LET del == stream[queue[n]]
  IN del.weak /\ \E m \in (n + 1)..Len(queue) :
                   LET later == stream[queue[m]] IN later.op = "Adj" /\ later.id = del.id

\* The limits that the first k commands ask to delete or to adjust.
Deleted(queue, k) ==
  {stream[queue[n]].id : n \in {m \in 1..k : stream[queue[m]].op = "Del" /\ ~Dominated(queue, m)}}

Adjusted(queue, k) == {stream[queue[n]].id : n \in {m \in 1..k : stream[queue[m]].op = "Adj"}}

\* How many commands of the queue come before its first New.
Ready(queue) ==
  Min({n \in DOMAIN queue : stream[queue[n]].op = "New"} \union {Len(queue) + 1}) - 1

\* Dirty assets without limits are removed as the loop comes across them,
\* which is up to the await of the first other one, or all of them.
Sweep(as, ds) ==
  LET empty == {a \in ds : as[a] = {}}
  IN \E gone \in SUBSET empty :
       /\ ds = empty => gone = empty
       /\ assets' = [a \in DOMAIN as \ gone |-> as[a]]
       /\ dirty' = ds \ gone
       /\ hub' = IF dirty' = {} THEN "listen" ELSE "tick"

\* Everything up to the next await: the Adjs and Dels before the first New,
\* each at the asset of its limit, if that is still there; what is deleted is
\* not found again.  A New creates the executor of its asset before it awaits
\* the book.
Proceed(queue, as, ds, did) ==
  LET k == Ready(queue)
      gone == Deleted(queue, k)
      left == [a \in DOMAIN as |-> as[a] \ gone]
      found == {a \in DOMAIN as : as[a] \intersect (gone \union Adjusted(queue, k)) # {}}
      new == stream[queue[k + 1]].asset
  IN /\ batch' = SubSeq(queue, k + 1, Len(queue))
     /\ applied' = did \o SubSeq(queue, 1, k)
     /\ IF k = Len(queue)
        THEN Sweep(left, ds \union found)
        ELSE /\ assets' = [a \in DOMAIN as \union {new} |-> IF a \in DOMAIN as THEN left[a] ELSE {}]
             /\ dirty' = ds \union found
             /\ hub' = "book"

QueueKept == command_queue  \* MUTANT of QueueTaken: cloned, not taken

QueueTaken == <<>>

TakeCommands ==
  /\ sub # "down"
  /\ hub = "start"
  /\ command_queue' = QueueTaken
  /\ Proceed(command_queue, assets, {}, applied)
  /\ UNCHANGED <<busVars, run, sub, cmd, listen_books, inherited, cancelled>>

NotDirty(asset) == dirty  \* MUTANT of DirtyWith: the asset of a New is left out

DirtyWith(asset) == dirty \union {asset}

AddLimit ==
  /\ sub # "down"
  /\ hub = "book"
  /\ LET new == Head(batch)
         asset == stream[new].asset
         added == [assets EXCEPT ![asset] = @ \union {[run |-> run, new |-> new]}]
     IN Proceed(Tail(batch), added, DirtyWith(asset), Append(applied, new))
  /\ UNCHANGED <<busVars, run, sub, cmd, command_queue, listen_books, inherited, cancelled>>

\* listen_books holds a future per call; here, whether there is one.
PushAssetTick ==
  /\ sub # "down"
  /\ hub = "tick"
  /\ \E a \in dirty :
       /\ assets[a] # {}
       /\ listen_books' = listen_books \union {a}
       /\ Sweep(assets, dirty \ {a})
  /\ UNCHANGED <<busVars, run, sub, cmd, command_queue, batch, applied, inherited, cancelled>>

-----------------------------------------------------------------------------
Client == RequireActiveConsumer \/ Publish \/ ConsumerGoesIdle
Subscriber == ReadGroup \/ Acknowledge \/ NothingRead
RoutingHub == TakeCommands \/ AddLimit \/ PushAssetTick

Next == Client \/ StreamSubscriber \/ Stop \/ Subscriber \/ RoutingHub

Spec == Init /\ [][Next]_vars

\* A running daemon keeps polling its subscriber and calls next() anew for
\* every command; nothing makes a client publish, or a book arrive in 100ms.
FairSpec == Spec /\ WF_vars(Subscriber) /\ WF_vars(TakeCommands)

-----------------------------------------------------------------------------
(***************************************************************************)
(* Properties.                                                             *)
(***************************************************************************)
Numbers == 0..Len(stream)
AllLimits == [run : 1..run, new : Numbers]

\* Every variable keeps its shape, and what apply_commands keeps in locals
\* exists only while it awaits.
TypeOK ==
  /\ stream \in Seq([op : {"New"}, asset : Assets] \union [op : {"Adj"}, id : AllLimits]
                      \union [op : {"Del"}, id : AllLimits, weak : BOOLEAN])
  /\ group \in Numbers /\ run \in 0..MaxRuns /\ cmd \in Numbers
  /\ {checked, fresh, cancelled} \subseteq BOOLEAN
  /\ sub \in {"down", "read", "ack", "sleep"}
  /\ hub \in {"start", "book", "tick", "listen"}
  /\ (hub = "book") = (batch # <<>>)
  /\ hub \in {"start", "listen"} => dirty = {}
  /\ {command_queue, batch, applied} \subseteq Seq(Numbers)
  /\ assets \in [DOMAIN assets -> SUBSET AllLimits]
  /\ dirty \union DOMAIN assets \union listen_books \subseteq Assets
  /\ inherited \subseteq Numbers

InHand == IF cmd = 0 THEN <<>> ELSE <<cmd>>

\* The state keeps its shape; and what the daemon has applied, then what it is
\* applying, what waits in the queue and what it just read are the commands
\* published from the very first on, in order, without a gap or a repetition,
\* until routing_hub.next() is dropped with work in hand (redis_bus.rs:107:
\* created at "0").
HandlesAllInOrder ==
  /\ TypeOK
  /\ (sub # "down" /\ ~cancelled) =>
       applied \o batch \o command_queue \o InHand
         = [n \in 1..group |-> n]

\* However often routing_hub.next() is dropped, no run of the daemon applies a
\* command twice or before an earlier one (std::mem::take, lib.rs:148).
AppliesInOrderOnce ==
  \A m, n \in DOMAIN applied : m < n => applied[m] < applied[n]

\* When the hub waits for ticks it waits for one of every asset that has a
\* limit, unless routing_hub.next() was dropped before (lib.rs:200-212).
ListensToAllAssets ==
  (hub = "listen" /\ ~cancelled) => \A a \in DOMAIN assets : assets[a] # {} => a \in listen_books

\* A limit disappears only because of a Del for it that has just been applied
\* and, if weak, has no later adjustment of the limit among the commands taken
\* with it (lib.rs:36-37).
WeakDelYields ==
  [][run' = run =>
       LET new == SubSeq(applied', Len(applied) + 1, Len(applied'))
           taken == new \o batch'
       IN \A l \in Limits \ Limits' : \E n \in DOMAIN new :
            LET c == stream[new[n]]
            IN /\ c.op = "Del" /\ c.id = l
               /\ c.weak => \A m \in (n + 1)..Len(taken) :
                     LET later == stream[taken[m]] IN ~(later.op = "Adj" /\ later.id = l)]_vars

\* A daemon that stays up applies every command in the stream in the end, or
\* has dropped routing_hub.next() with work in hand (main.rs:180-194).
AppliesEventually ==
  \A n \in 1..MaxCommands :
    <>[](sub # "down" /\ ~cancelled /\ n <= Len(stream)) => <>(n \in Range(applied))

\* The comment at redis_bus.rs:32: what a dead consumer read and never
\* acknowledged is not delivered to the next one.
NothingInherited == (1..group) \intersect inherited = {}
=============================================================================
