------------------------------ MODULE DrawSync ------------------------------
(***************************************************************************)
(* The drawing of one turn on its way from the drawer to the canvases of   *)
(* the others: the draw handlers of GameGateway (apps/backend/src/game/    *)
(* game.gateway.ts:165-174, 340-397), DrawingRelay (game/drawing.relay.ts) *)
(* and the replay buffer in Redis (redis/room.store.ts:140-158).           *)
(*                                                                         *)
(* The relay of the drawer's node collects operations and flushes them.    *)
(* The sockets of that node get a broadcast at once; those of another node *)
(* when it has come through the Redis adapter.  A node's Redis commands go *)
(* over one connection, in order; the pipeline of an append is one step.   *)
(* A socket delivers in order, and what it delivers is applied when it is  *)
(* sent: what is lost with a connection is of no account, because the      *)
(* viewer's next connection starts with a replay.                          *)
(*                                                                         *)
(* The turn has begun with blank canvases and an empty buffer.  The drawer *)
(* keeps his connection, stays within the rate limit, and sends operations *)
(* that draw-validation accepts as they are.                               *)
(***************************************************************************)
EXTENDS CanvasEngine

CONSTANTS Viewers,    \* who looks on
          Nodes,      \* backend processes
          Desk,       \* the node the drawer is connected to
          Cap,        \* how many operations the buffer keeps (5000)
          MaxOps,     \* bound: operations of the drawer
          MaxLosses,  \* bound: connections lost
          Overtaking  \* may handlers overtake the one that opens a rate-limit window?

ASSUME DrawSyncAssumption == /\ Desk \in Nodes
                             /\ Cap \in Nat /\ MaxOps \in Nat /\ MaxLosses \in Nat
                             /\ Overtaking \in BOOLEAN

VARIABLES mine,      \* the drawer's own canvas
          sent,      \* handlers of his operations that await assertDrawer, in order
          pending,   \* DrawingRelay.buffers of the drawer's node
          commands,  \* the Redis commands of each node on their way
          buffer,    \* the replay buffer in Redis
          clearing,  \* how many draw:clear handlers have yet to announce the clear
          bus,       \* broadcasts on their way to each other node
          home,      \* the node each viewer is connected to, or was last
          stage,     \* how far each viewer has come into the room
          captured,  \* the buffer that is being replayed to a viewer
          canvas,    \* each viewer's canvas
          watching,  \* viewers whose page shows it (drawingBridge has an engine)
          made,      \* history: how many operations the drawer has made
          losses,    \* history: how many connections were lost
          trimmed,   \* history: the buffer has lost its beginning
          raced,     \* history: viewers whose replay was raced by what was drawn
          missed,    \* history: viewers whose page dropped its replay
          hasty      \* history: a clear was raced by what was drawn next

server == <<sent, pending, commands, buffer, clearing, bus, trimmed>>
viewers == <<home, stage, captured, canvas, watching, losses, raced, missed>>
drawer == <<mine, made>>
vars == <<server, viewers, drawer, hasty>>

Stages == {"away", "bound", "asked", "read", "in"}
Command == [do : {"append"}, ops : Seq(Op)] \cup [do : {"del"}] \cup [do : {"read"}, viewer : Viewers]

\* The buffer stays within its cap, whatever is appended to it (room.store.ts:146).
TypeOK == /\ mine \in Canvas /\ canvas \in [Viewers -> Canvas]
          /\ sent \in Seq([op : Op, slow : BOOLEAN])
          /\ pending \in Seq(Op)
          /\ commands \in [Nodes -> Seq(Command)]
          /\ buffer \in Seq(Op) /\ Len(buffer) <= Cap
          /\ clearing \in 0..MaxOps
          /\ bus \in [Nodes -> Seq(Seq(Op))]
          /\ home \in [Viewers -> Nodes] /\ stage \in [Viewers -> Stages]
          /\ captured \in [Viewers -> Seq(Op)]
          /\ made \in 0..MaxOps /\ losses \in 0..MaxLosses
          /\ {trimmed, hasty} \subseteq BOOLEAN /\ raced \cup missed \cup watching \subseteq Viewers

Send(n, command) == commands' = [commands EXCEPT ![n] = Append(@, command)]

\* Something is on its way from the drawer's node to node n, or to the buffer.
Underway(n) == \/ \E i \in DOMAIN commands[Desk] : commands[Desk][i].do # "read"
               \/ clearing > 0
               \/ bus[n] # << >>

InRoom(v) == stage[v] # "away"
Settled(v) == stage[v] = "in" /\ v \in watching
Joining(v) == InRoom(v) /\ ~Settled(v)

\* The sockets of node n that are in the room get a message; a page without a canvas
\* drops it.
Show(n, ops) == canvas' = [v \in Viewers |-> IF InRoom(v) /\ home[v] = n /\ v \in watching
                                             THEN ApplyMany(canvas[v], ops) ELSE canvas[v]]

Clear == [type |-> "clear", id |-> 0]

-----------------------------------------------------------------------------
(***************************************************************************)
(* Faulty variants of steps below.                                         *)
(***************************************************************************)
\* draw:clear leaves the relay's pending operations alone.
AuthoriseKeepsPending(i) ==
    /\ \A j \in 1..(i - 1) : sent[j].slow
    /\ sent' = RemoveAt(sent, i)
    /\ IF sent[i].op = Clear
       THEN Send(Desk, [do |-> "del"]) /\ clearing' = clearing + 1 /\ UNCHANGED pending
       ELSE pending' = Append(pending, sent[i].op) /\ UNCHANGED <<commands, clearing>>
    /\ UNCHANGED <<buffer, bus, trimmed, viewers, drawer, hasty>>

\* Only the sockets of the drawer's node get the broadcast.
BroadcastHere(ops) == Show(Desk, ops) /\ UNCHANGED bus

\* The buffer is not trimmed.
AllOf(ops) == ops

-----------------------------------------------------------------------------
(***************************************************************************)
(* The drawer.                                                             *)
(***************************************************************************)
\* One pointer: a stroke has ended before anything else begins.
NextOps ==
    IF mine.live = {}
    THEN [type : {"start", "fill"}, id : {made + 1}] \cup [type : {"undo", "clear"}, id : {0}]
    ELSE [type : {"move", "end"}, id : {s.id : s \in mine.live}]

\* The drawer's canvas shows the operation at once, and it is emitted.  A frame's
\* points are one move.  Its handler is slow when it opens a rate-limit window and
\* has to set the expiry.
Draw(op, slow) == /\ made < MaxOps
                  /\ slow => Overtaking
                  /\ mine' = Apply(mine, op)
                  /\ made' = made + 1
                  /\ sent' = Append(sent, [op |-> op, slow |-> slow])
                  /\ UNCHANGED <<pending, commands, buffer, clearing, bus, trimmed, viewers, hasty>>

-----------------------------------------------------------------------------
(***************************************************************************)
(* The server.                                                             *)
(***************************************************************************)
\* toRoomExcept: here at once, elsewhere through the adapter.
Broadcast(ops) ==
    /\ Show(Desk, ops)
    /\ bus' = [n \in Nodes |-> IF n = Desk THEN bus[n] ELSE Append(bus[n], ops)]

\* assertDrawer is over: the operation is queued; a clear drops the queue and
\* deletes the buffer.
Authorise(i) ==
    /\ \A j \in 1..(i - 1) : sent[j].slow
    /\ sent' = RemoveAt(sent, i)
    /\ IF sent[i].op = Clear
       THEN pending' = << >> /\ Send(Desk, [do |-> "del"]) /\ clearing' = clearing + 1
       ELSE pending' = Append(pending, sent[i].op) /\ UNCHANGED <<commands, clearing>>
    /\ raced' = raced \cup IF sent[i].op = Clear THEN {v \in Viewers : Joining(v)} ELSE {}
    /\ UNCHANGED <<buffer, bus, trimmed, home, stage, captured, canvas, watching, losses, missed, drawer, hasty>>

\* flushAll, every 40 ms.  While a clear has yet to be announced, the others see
\* the operations before it.
Flush == /\ pending # << >>
         /\ pending' = << >>
         /\ Broadcast(pending)
         /\ Send(Desk, [do |-> "append", ops |-> pending])
         /\ raced' = raced \cup {v \in Viewers : Joining(v)}
         /\ hasty' = (hasty \/ clearing > 0)
         /\ UNCHANGED <<sent, buffer, clearing, trimmed, home, stage, captured, watching, losses, missed,
                        drawer>>

\* LTRIM -Cap -1.
Trimmed(ops) == IF Len(ops) > Cap THEN SubSeq(ops, Len(ops) - Cap + 1, Len(ops)) ELSE ops

\* Redis executes the next command of a node.
Execute(n) ==
    LET command == Head(commands[n])
    IN /\ commands[n] # << >>
       /\ commands' = [commands EXCEPT ![n] = Tail(@)]
       /\ \/ /\ command.do = "append"
             /\ buffer' = Trimmed(buffer \o command.ops)
             /\ trimmed' = (trimmed \/ Len(buffer) + Len(command.ops) > Cap)
             /\ UNCHANGED <<stage, captured>>
          \/ /\ command.do = "del"
             /\ buffer' = << >>
             /\ trimmed' = FALSE
             /\ UNCHANGED <<stage, captured>>
          \/ /\ command.do = "read"
             /\ stage' = [stage EXCEPT ![command.viewer] = "read"]
             /\ captured' = [captured EXCEPT ![command.viewer] = buffer]
             /\ UNCHANGED <<buffer, trimmed>>
       /\ UNCHANGED <<sent, pending, clearing, bus, home, canvas, watching, losses, raced, missed,
                      drawer, hasty>>

\* The DEL of a draw:clear has been answered: drawing:cleared.
Dels == {i \in DOMAIN commands[Desk] : commands[Desk][i].do = "del"}
Announce == /\ clearing > Cardinality(Dels)
            /\ clearing' = clearing - 1
            /\ Broadcast(<<Clear>>)
            /\ UNCHANGED <<sent, pending, commands, buffer, trimmed, home, stage, captured,
                           watching, losses, raced, missed, drawer, hasty>>

\* The adapter of another node hands a broadcast to its sockets.
Deliver(n) == /\ bus[n] # << >>
              /\ Show(n, Head(bus[n]))
              /\ bus' = [bus EXCEPT ![n] = Tail(@)]
              /\ UNCHANGED <<sent, pending, commands, buffer, clearing, trimmed, home, stage,
                             captured, watching, losses, raced, missed, drawer, hasty>>

-----------------------------------------------------------------------------
(***************************************************************************)
(* A viewer comes, or comes back.                                          *)
(***************************************************************************)
\* bindToRoom, for room:join and session:resume.
Bind(v, n) == /\ stage[v] = "away"
              /\ home' = [home EXCEPT ![v] = n]
              /\ stage' = [stage EXCEPT ![v] = "bound"]
              /\ raced' = IF trimmed \/ Underway(n) THEN raced \cup {v} ELSE raced
              /\ UNCHANGED <<server, captured, canvas, watching, losses, missed, drawer, hasty>>

\* replayForLateJoiner asks for the buffer...
AskBuffer(v) == /\ stage[v] = "bound"
                /\ stage' = [stage EXCEPT ![v] = "asked"]
                /\ Send(home[v], [do |-> "read", viewer |-> v])
                /\ UNCHANGED <<sent, pending, buffer, clearing, bus, trimmed, home,
                               captured, canvas, watching, losses, raced, missed, drawer, hasty>>

\* ... and sends it.
Replay(v) == /\ stage[v] = "read"
             /\ stage' = [stage EXCEPT ![v] = "in"]
             /\ captured' = [captured EXCEPT ![v] = << >>]
             /\ canvas' = IF v \in watching THEN [canvas EXCEPT ![v] = ApplyMany(@, captured[v])]
                                            ELSE canvas
             /\ missed' = IF v \notin watching /\ captured[v] # << >> THEN missed \cup {v} ELSE missed
             /\ UNCHANGED <<server, home, watching, losses, raced, drawer, hasty>>

\* The lobby page has its answer and goes to the page of the room, which mounts a canvas.
EnterRoom(v) == /\ stage[v] = "in"
                /\ v \notin watching
                /\ watching' = watching \cup {v}
                /\ UNCHANGED <<server, home, stage, captured, canvas, losses, raced, missed, drawer, hasty>>

\* The connection is lost.  The page stays open with its canvas, or is loaded anew.
Lose(v) == /\ Settled(v)
           /\ losses < MaxLosses
           /\ losses' = losses + 1
           /\ stage' = [stage EXCEPT ![v] = "away"]
           /\ canvas' \in {canvas, [canvas EXCEPT ![v] = Blank]}
           /\ raced' = IF canvas'[v] = Blank THEN raced \ {v} ELSE raced \cup {v}
           /\ missed' = missed \ {v}
           /\ UNCHANGED <<server, home, captured, watching, drawer, hasty>>

-----------------------------------------------------------------------------
Init == /\ mine = Blank /\ canvas = [v \in Viewers |-> Blank]
        /\ sent = << >> /\ pending = << >> /\ buffer = << >>
        /\ commands = [n \in Nodes |-> << >>] /\ bus = [n \in Nodes |-> << >>]
        /\ clearing = 0 /\ made = 0 /\ losses = 0
        /\ home \in [Viewers -> Nodes]
        /\ stage \in [Viewers -> {"away", "in"}]
        /\ captured = [v \in Viewers |-> << >>]
        /\ watching \in SUBSET Viewers
        /\ \A v \in Viewers : InRoom(v) => v \in watching
        /\ trimmed = FALSE /\ hasty = FALSE /\ raced = {} /\ missed = {}

Next == \/ \E op \in NextOps, slow \in BOOLEAN : Draw(op, slow)
        \/ \E i \in DOMAIN sent : Authorise(i)
        \/ Flush \/ Announce
        \/ \E n \in Nodes : Execute(n) \/ Deliver(n)
        \/ \E v \in Viewers, n \in Nodes : Bind(v, n)
        \/ \E v \in Viewers : AskBuffer(v) \/ Replay(v) \/ EnterRoom(v) \/ Lose(v)

Spec == Init /\ [][Next]_vars

-----------------------------------------------------------------------------
(***************************************************************************)
(* Properties.                                                             *)
(***************************************************************************)
\* Everything the drawer made has reached the buffer.
Stored == /\ sent = << >> /\ pending = << >> /\ clearing = 0
          /\ \A i \in DOMAIN commands[Desk] : commands[Desk][i].do = "read"

\* Replayed on a blank canvas, the buffer gives the drawer's canvas, undo and clear
\* included, unless it has been trimmed (ARCHITECTURE.md:312-314).
BufferIsCanvas == Stored /\ ~trimmed => ApplyMany(Blank, buffer) = mine

\* Everything has reached viewer v.
Delivered(v) == Stored /\ Settled(v) /\ bus[home[v]] = << >>

\* A viewer ends up with the drawer's canvas if he was there from the beginning, or came
\* with a blank canvas, before the buffer was trimmed, while nothing was on its way and
\* nothing was drawn until he was in; if his page was there to take the replay; and if no
\* clear was raced by what the drawer drew next.
InSync == ~hasty => \A v \in Viewers :
                        Delivered(v) /\ v \notin raced \cup missed => canvas[v] = mine

\* "Reconnecting/late-joining players replay the exact canvas" (ARCHITECTURE.md:312-313):
\* the same of every page.
ExactReplay == ~hasty => \A v \in Viewers : Delivered(v) /\ v \notin raced => canvas[v] = mine
=============================================================================
