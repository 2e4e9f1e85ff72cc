----------------------------- MODULE Membership -----------------------------
(***************************************************************************)
(* Who is in a room: RoomService and the connection side of GameGateway    *)
(* (apps/backend/src/rooms/room.service.ts, game/game.gateway.ts:113-308), *)
(* for one room, its sockets on one or more nodes, and its grace timers.   *)
(*                                                                         *)
(* A handler in flight is a task: a slot of `tasks` whose label says where *)
(* it resumes.  One action is one stretch between two awaits.  mutate() is *)
(* one step, at its write (RoomLock), but for deleteRoom, which takes no   *)
(* lock and may fall between its read and its write: `holder` is then the  *)
(* mutate() in flight that will write the deleted record again.  What a    *)
(* departure does to a running game is GameFlow's part.  Left out: the     *)
(* settings, the public list, the canvas replay, and the session keys (a   *)
(* player may ask for the room again at any time here, with the code or    *)
(* with the session).                                                      *)
(***************************************************************************)
EXTENDS PlayerOrder, FiniteSets

CONSTANTS Players,    \* identities, as the access token gives them
          Sockets,    \* connections; each is opened once
          NoSocket,   \* no connection
          Nodes,      \* backend processes
          Owner,      \* whose connection a socket is
          Home,       \* the node a socket is connected to
          Creator,    \* the socket on which the room was created
          MaxPlayers, \* settings.maxPlayers
          MaxTasks,   \* bound: handlers in flight at once
          Late,       \* may a lost connection be noticed after its successor joined?
          Prompt      \* is nobody faster than a handler in flight about him?

ASSUME MembershipAssumption ==
    /\ IsFiniteSet(Players)
    /\ NoSocket \notin Sockets
    /\ Owner \in [Sockets -> Players]
    /\ Home \in [Sockets -> Nodes]
    /\ Creator \in Sockets
    /\ MaxPlayers \in Nat \ {0} /\ MaxTasks \in Nat
    /\ Late \in BOOLEAN /\ Prompt \in BOOLEAN

Slots == 1..MaxTasks

VARIABLES room,    \* the LiveRoom record in Redis, or as its holder has read it
          holder,  \* the mutate() in flight that outlives the deletion; 0: none
          revived, \* history: has deleteRoom removed this record before?
          conn,    \* the state of each connection
          bound,   \* the sockets with socket.data.roomId set
          grace,   \* graceTimers of every node
          tasks    \* the handlers in flight

record == <<room, holder, revived>>
vars == <<room, holder, revived, conn, bound, grace, tasks>>

Room == [exists    : BOOLEAN,
         players   : Seq(Players),       \* in the order they came
         connected : SUBSET Players,     \* the ones with connected = true
         isHost    : SUBSET Players,     \* the ones with isHost = true
         hostId    : Players]

\* A connection that is lost is not closed until the server notices.
Conns == {"new", "open", "lost", "closed"}
\* Where a handler goes on with a mutate().
Mutating == {"join", "mark", "ready", "remove", "transfer"}
Labels == Mutating \cup {"bind", "check", "delete", "forget", "evict"}

Task == [at : Labels, node : Nodes, socket : Sockets \cup {NoSocket},
         player : Players, then : {"forget", "evict", "grace"}]

NoTask == [at |-> "idle"]

Members == {room.players[i] : i \in DOMAIN room.players}

\* The record is well formed: the list names nobody twice, however joins and
\* reconnects interleave, and only its players are connected or host
\* (room.service.ts:118-183).
TypeOK == /\ room \in Room
          /\ holder \in Slots \cup {0} /\ revived \in BOOLEAN
          /\ \A i, j \in DOMAIN room.players : room.players[i] = room.players[j] => i = j
          /\ room.connected \cup room.isHost \subseteq Members
          /\ conn \in [Sockets -> Conns]
          /\ bound \subseteq Sockets
          /\ grace \subseteq Nodes \X Players
          /\ tasks \in [Slots -> Task \cup {NoTask}]

InFlight == {s \in Slots : tasks[s].at # "idle"}
Spawn(task) == \E s \in Slots \ InFlight :
                  /\ \A x \in Slots \ InFlight : s <= x
                  /\ tasks' = [tasks EXCEPT ![s] = task]
Goto(s, label) == tasks' = [tasks EXCEPT ![s].at = label]
Finish(s) == tasks' = [tasks EXCEPT ![s] = NoTask]

\* A client sends one request at a time, and Prompt lets no handler in flight
\* be about its player when it acts.
Waiting(s) == \A t \in InFlight : /\ tasks[t].socket # s
                                  /\ Prompt => tasks[t].player # Owner[s]

Handler(label, s, then) ==
    [at |-> label, node |-> Home[s], socket |-> s, player |-> Owner[s], then |-> then]

(***************************************************************************)
(* The record.  getRoom finds none while its holder has yet to write it,   *)
(* and every other mutate() waits for the lock that the holder has.        *)
(***************************************************************************)
Stored == room.exists /\ holder = 0
HasLock(t) == holder \in {0, t}

Write(next) == room' = next /\ holder' = 0 /\ UNCHANGED revived

Erase == /\ room' = [room EXCEPT !.exists = FALSE, !.players = << >>,
                                !.connected = {}, !.isHost = {}]
         /\ holder' = 0
         /\ revived' = FALSE

\* mutate() ends without a write: what was deleted meanwhile stays deleted.
NoWrite(t) == IF holder = t THEN Erase ELSE UNCHANGED record

-----------------------------------------------------------------------------
(***************************************************************************)
(* Faulty variants of what follows: the bugs that the properties detect.   *)
(***************************************************************************)
MarkWithoutTimer(t) == /\ tasks[t].at = "mark" /\ HasLock(t)
                       /\ IF room.exists
                          THEN Write([room EXCEPT !.connected = @ \ {tasks[t].player}])
                          ELSE NoWrite(t)
                       /\ Finish(t)
                       /\ UNCHANGED <<conn, bound, grace>>

JoinAppends(t) == /\ tasks[t].at = "join" /\ HasLock(t)
                  /\ room.exists
                  /\ Write([room EXCEPT !.connected = @ \cup {tasks[t].player},
                                        !.players = Append(@, tasks[t].player)])
                  /\ Goto(t, "bind")
                  /\ UNCHANGED <<conn, bound, grace>>

CheckTrusts(t) == /\ tasks[t].at = "check"
                  /\ Goto(t, "remove")
                  /\ UNCHANGED <<record, conn, bound, grace>>

RemoveWithoutHeir(p) ==
    Write([room EXCEPT !.players = Without(@, p), !.connected = @ \ {p}, !.isHost = @ \ {p}])


-----------------------------------------------------------------------------
(***************************************************************************)
(* Connections.                                                            *)
(***************************************************************************)
\* The client's next connection.  Without Late the server has noticed the loss
\* of the ones before it, and has marked it.
Connect(s) == /\ conn[s] = "new"
              /\ ~Late => /\ \A r \in Sockets : Owner[r] = Owner[s] => conn[r] \in {"new", "closed"}
                          /\ \A t \in InFlight : tasks[t].player = Owner[s] => tasks[t].at # "mark"
              /\ conn' = [conn EXCEPT ![s] = "open"]
              /\ UNCHANGED <<record, bound, grace, tasks>>

\* The transport breaks.
Lose(s) == /\ conn[s] = "open"
           /\ Prompt => Waiting(s)
           /\ conn' = [conn EXCEPT ![s] = "lost"]
           /\ UNCHANGED <<record, bound, grace, tasks>>

\* handleDisconnect, at the latest when a ping times out.
Disconnect(s) == /\ conn[s] = "lost"
                 /\ conn' = [conn EXCEPT ![s] = "closed"]
                 /\ IF s \in bound THEN Spawn(Handler("mark", s, "grace")) ELSE UNCHANGED tasks
                 /\ UNCHANGED <<record, bound, grace>>

\* markDisconnected, then the grace timer of this node is set anew.
Mark(t) == /\ tasks[t].at = "mark" /\ HasLock(t)
           /\ IF room.exists /\ tasks[t].player \in Members
              THEN Write([room EXCEPT !.connected = @ \ {tasks[t].player}])
              ELSE NoWrite(t)
           /\ grace' = grace \cup {<<tasks[t].node, tasks[t].player>>}
           /\ Finish(t)
           /\ UNCHANGED <<conn, bound>>

-----------------------------------------------------------------------------
(***************************************************************************)
(* Joining.                                                                *)
(***************************************************************************)
\* room:join, with the code, or session:resume after a reconnect.
RequestJoin(s) == /\ conn[s] = "open"
                  /\ Stored
                  /\ Waiting(s)
                  /\ Spawn(Handler("join", s, "forget"))
                  /\ UNCHANGED <<record, conn, bound, grace>>

\* RoomService.join: the mutation.
Join(t) ==
    LET p == tasks[t].player
    IN /\ tasks[t].at = "join" /\ HasLock(t)
       /\ IF room.exists /\ (p \in Members \/ Cardinality(room.connected) < MaxPlayers)
          THEN /\ Write([room EXCEPT !.connected = @ \cup {p},
                                     !.players = IF p \in Members THEN @ ELSE Append(@, p)])
               /\ Goto(t, "bind")
          ELSE NoWrite(t) /\ Finish(t)
       /\ UNCHANGED <<conn, bound, grace>>

\* bindToRoom.
Bind(t) == /\ tasks[t].at = "bind"
           /\ bound' = bound \cup {tasks[t].socket}
           /\ Finish(t)
           /\ UNCHANGED <<record, conn, grace>>

-----------------------------------------------------------------------------
(***************************************************************************)
(* Leaving.                                                                *)
(***************************************************************************)
\* room:leave.
RequestLeave(s) == /\ conn[s] = "open"
                   /\ s \in bound
                   /\ Waiting(s)
                   /\ Spawn(Handler("remove", s, "forget"))
                   /\ UNCHANGED <<record, conn, bound, grace>>

\* room:kick, after kick() has seen that the host asks for it.
RequestKick(s, target) == /\ conn[s] = "open"
                          /\ s \in bound
                          /\ Stored
                          /\ room.hostId = Owner[s]
                          /\ Waiting(s)
                          /\ Prompt => \A t \in InFlight : tasks[t].player # target
                          /\ target # Owner[s]
                          /\ target \in Members
                          /\ Spawn([Handler("remove", s, "evict") EXCEPT !.player = target])
                          /\ UNCHANGED <<record, conn, bound, grace>>

\* The grace window of a player is over: finalizeLeave.  Prompt: its 30 s are
\* longer than a removal takes to delete the room.
GraceTimeout(n, p) == /\ <<n, p>> \in grace
                      /\ Prompt => holder = 0 /\ \A t \in InFlight : tasks[t].at # "delete"
                      /\ grace' = grace \ {<<n, p>>}
                      /\ Spawn([at |-> "check", node |-> n, socket |-> NoSocket,
                                player |-> p, then |-> "grace"])
                      /\ UNCHANGED <<record, conn, bound>>

\* finalizeLeave reads the room: has the player come back?
Check(t) == /\ tasks[t].at = "check"
            /\ IF Stored /\ tasks[t].player \in Members \ room.connected
               THEN Goto(t, "remove")
               ELSE Finish(t)
            /\ UNCHANGED <<record, conn, bound, grace>>

\* players.find(p => p.connected) ?? players[0].
Succeeds(q, rest) ==
    \/ \E i \in DOMAIN rest : /\ rest[i] = q /\ q \in room.connected
                              /\ \A j \in 1..(i - 1) : rest[j] \notin room.connected
    \/ rest[1] = q /\ \A i \in DOMAIN rest : rest[i] \notin room.connected

\* What removePlayer() makes of the record: a host who goes is succeeded by the
\* first player who is connected, or else by the first.
RemovePlayer(p) ==
    LET rest == Without(room.players, p)
        left == [room EXCEPT !.players = rest, !.connected = @ \ {p}, !.isHost = @ \ {p}]
    IN IF p \in room.isHost /\ rest # << >>
       THEN \E q \in Players :
               /\ Succeeds(q, rest)
               /\ Write([left EXCEPT !.isHost = @ \cup {q}, !.hostId = q])
       ELSE Write(left)

\* After a removal: room:leave and room:kick go on, finalizeLeave is done.
Proceed(t) == IF tasks[t].then = "grace" THEN Finish(t) ELSE Goto(t, tasks[t].then)

\* removePlayer: the mutation.
Remove(t) ==
    /\ tasks[t].at = "remove" /\ HasLock(t)
    /\ IF room.exists
       THEN /\ RemovePlayer(tasks[t].player)
            /\ IF room'.players = << >> THEN Goto(t, "delete") ELSE Proceed(t)
       ELSE Proceed(t) /\ UNCHANGED record
    /\ UNCHANGED <<conn, bound, grace>>

\* removePlayer: the room without players is deleted, without a lock.  Whoever
\* has joined since goes with it, and a mutate() that has read the record by now
\* holds it.
Delete(t) == /\ tasks[t].at = "delete"
             /\ IF Stored
                THEN \/ Erase
                     \/ \E x \in InFlight : /\ tasks[x].at \in Mutating
                                            /\ holder' = x /\ revived' = TRUE
                                            /\ UNCHANGED room
                ELSE UNCHANGED record
             /\ Proceed(t)
             /\ UNCHANGED <<conn, bound, grace>>

\* onLeave: in the end the socket has no room.
Forget(t) == /\ tasks[t].at = "forget"
             /\ bound' = bound \ {tasks[t].socket}
             /\ Finish(t)
             /\ UNCHANGED <<record, conn, grace>>

\* onKick: the sockets of the target lose the room; socket.data of a socket on
\* another node is a copy, and stays as it is.
Evict(t) == /\ tasks[t].at = "evict"
            /\ bound' = {s \in bound : Owner[s] # tasks[t].player \/ Home[s] # tasks[t].node}
            /\ Finish(t)
            /\ UNCHANGED <<record, conn, grace>>

-----------------------------------------------------------------------------
(***************************************************************************)
(* What else mutates the record.                                           *)
(***************************************************************************)
\* player:ready, from whoever is bound to the room.
RequestReady(s) == /\ conn[s] = "open"
                   /\ s \in bound
                   /\ Waiting(s)
                   /\ Spawn(Handler("ready", s, "forget"))
                   /\ UNCHANGED <<record, conn, bound, grace>>

\* setReady writes the record for somebody who is not in it, too.
Ready(t) == /\ tasks[t].at = "ready" /\ HasLock(t)
            /\ IF room.exists THEN Write(room) ELSE NoWrite(t)
            /\ Finish(t)
            /\ UNCHANGED <<conn, bound, grace>>

\* host:transfer.
RequestTransfer(s, target) == /\ conn[s] = "open"
                              /\ s \in bound
                              /\ target # Owner[s]
                              /\ Waiting(s)
                              /\ Spawn([Handler("transfer", s, "forget") EXCEPT !.player = target])
                              /\ UNCHANGED <<record, conn, bound, grace>>

\* transferHost: the mutation.
TransferHost(t) ==
    LET target == tasks[t].player
    IN /\ tasks[t].at = "transfer" /\ HasLock(t)
       /\ IF room.exists /\ room.hostId = Owner[tasks[t].socket] /\ target \in Members
          THEN Write([room EXCEPT !.isHost = {target}, !.hostId = target])
          ELSE NoWrite(t)
       /\ Finish(t)
       /\ UNCHANGED <<conn, bound, grace>>

-----------------------------------------------------------------------------
\* onCreateRoom has answered its caller.
Init == /\ room = [exists |-> TRUE, players |-> <<Owner[Creator]>>,
                   connected |-> {Owner[Creator]}, isHost |-> {Owner[Creator]},
                   hostId |-> Owner[Creator]]
        /\ holder = 0
        /\ revived = FALSE
        /\ conn = [s \in Sockets |-> IF s = Creator THEN "open" ELSE "new"]
        /\ bound = {Creator}
        /\ grace = {}
        /\ tasks = [s \in Slots |-> NoTask]

Resume(t) == Mark(t) \/ Join(t) \/ Bind(t) \/ Check(t) \/ Remove(t) \/ Delete(t)
             \/ Forget(t) \/ Evict(t) \/ Ready(t) \/ TransferHost(t)

Next == \/ \E s \in Sockets : \/ Connect(s) \/ Lose(s) \/ Disconnect(s)
                              \/ RequestJoin(s) \/ RequestLeave(s) \/ RequestReady(s)
                              \/ \E p \in Players : RequestKick(s, p) \/ RequestTransfer(s, p)
        \/ \E n \in Nodes, p \in Players : GraceTimeout(n, p)
        \/ \E t \in Slots : Resume(t)

Spec == Init /\ [][Next]_vars

(***************************************************************************)
(* Handlers run to their end, grace timers fire, and a lost connection is  *)
(* noticed when its ping times out; strongly, for the bound on the tasks   *)
(* must not keep an event from a node.  Nobody has to connect or leave.    *)
(***************************************************************************)
Fairness == /\ \A t \in Slots : WF_vars(Resume(t))
            /\ \A s \in Sockets : SF_vars(Disconnect(s))
            /\ \A n \in Nodes, p \in Players : SF_vars(GraceTimeout(n, p))

FairSpec == Spec /\ Fairness

-----------------------------------------------------------------------------
(***************************************************************************)
(* Properties.                                                             *)
(***************************************************************************)
\* hostId and the isHost flags name one and the same player of the room, through
\* departures, kicks, transfers and expired grace windows.  Without a host are only
\* the room that somebody enters while it is about to be deleted, and the one that
\* a mutation in flight has brought back after that (room.service.ts:154-183,
\* 222-234, room.store.ts:81-107).
HostIsPlayer ==
    \/ room.isHost = {room.hostId}
    \/ /\ room.isHost = {}
       /\ \/ room.players = << >>
          \/ \E t \in InFlight : tasks[t].at = "delete"
          \/ revived

\* The grace window takes the slot of nobody who is back: whoever finalizeLeave
\* finds gone has no connection that the server has bound to the room
\* (game.gateway.ts:142-147).
LivePlayer(p) == \E s \in bound : Owner[s] = p /\ conn[s] = "open"
GraceSparesTheLiving ==
    [][\A t \in Slots :
          LET p == tasks[t].player
          IN tasks[t].at = "check" /\ tasks'[t].at = "remove" => ~LivePlayer(p)]_vars


\* An absent host comes back or is followed by a player who is there, or the room
\* ends, or it has been deleted and brought back: that one has no host, and is
\* given none (room.service.ts:165-171).
HostComesBack == room.exists /\ room.hostId \notin room.connected
                    ~> ~room.exists \/ room.hostId \in room.connected \/ revived
=============================================================================
