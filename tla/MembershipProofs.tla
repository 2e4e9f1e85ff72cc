-------------------------- MODULE MembershipProofs --------------------------
(***************************************************************************)
(* Theorems about Membership, for any players, sockets, nodes and bounds,  *)
(* hasty clients included; late disconnections too, but for the last one.  *)
(***************************************************************************)
EXTENDS Membership, CommonProofs

-----------------------------------------------------------------------------
(***************************************************************************)
(* The inductive invariant.  HostIsPlayer does not keep itself up: whoever *)
(* joins a room that has just been emptied finds nobody in it with the     *)
(* isHost flag.  It rests on EmptyIsDoomed: a room without players has its *)
(* deletion under way, which ends it, or it has been deleted before, and a *)
(* mutate() in flight has brought it back.                                 *)
(***************************************************************************)
USE DEF record

RoomOK == /\ room \in Room
          /\ SoundFor(room.players, Players)
          /\ room.connected \cup room.isHost \subseteq Members

TasksOK == tasks \in [Slots -> Task \cup {NoTask}]

HeldOK == holder \in Slots \cup {0} /\ revived \in BOOLEAN /\ (holder # 0 => revived)

RestOK == conn \in [Sockets -> Conns] /\ bound \subseteq Sockets /\ grace \subseteq Nodes \X Players

\* Only a timer's handler has no socket, and it binds none.
Tied == \A t \in Slots : tasks[t].at \in {"join", "bind"} => tasks[t].socket \in Sockets

Deleting == \E t \in Slots : tasks[t].at = "delete"

EmptyIsDoomed == IF room.exists THEN room.players = << >> => Deleting \/ revived
                                ELSE room.players = << >>

HostOK == /\ EmptyIsDoomed
          /\ \/ room.isHost = {room.hostId}
             \/ room.isHost = {} /\ (room.players = << >> \/ Deleting \/ revived)

IInv == RoomOK /\ HeldOK /\ TasksOK /\ Tied /\ RestOK /\ HostOK

\* The invariant is at least as strong as the two properties.
LEMMA IInvImplies == IInv => TypeOK /\ HostIsPlayer
BY DEF IInv, RoomOK, HeldOK, TasksOK, RestOK, HostOK, TypeOK, HostIsPlayer, SoundFor, Deleting, InFlight

-----------------------------------------------------------------------------
(***************************************************************************)
(* The handlers in flight.                                                 *)
(***************************************************************************)
\* The task of a handler in flight has a player, a node and a label.
LEMMA TaskInFlight ==
    ASSUME TasksOK, NEW t \in Slots, tasks[t].at # "idle"
    PROVE  tasks[t] \in Task
BY DEF TasksOK, NoTask

\* What a request spawns is a task, also when it is about another player.
LEMMA HandlerIsTask ==
    ASSUME NEW label \in Labels, NEW s \in Sockets, NEW p \in Players,
           NEW then \in {"forget", "evict", "grace"}
    PROVE  /\ Handler(label, s, then) \in Task
           /\ [Handler(label, s, then) EXCEPT !.player = p] \in Task
BY MembershipAssumption DEF Handler, Task

\* A new handler takes a free slot, so a deletion under way goes on.
LEMMA SpawnKeeps ==
    ASSUME TasksOK, NEW task \in Task, Spawn(task)
    PROVE  TasksOK' /\ (Deleting => Deleting')
<1>1. PICK s \in Slots \ InFlight : tasks' = [tasks EXCEPT ![s] = task]
  BY DEF Spawn
<1>2. TasksOK'
  BY <1>1 DEF TasksOK
<1>3. tasks[s].at = "idle"
  BY <1>1 DEF InFlight
<1>4. \A t \in Slots : t # s => tasks'[t] = tasks[t]
  BY <1>1 DEF TasksOK
<1>. QED  BY <1>2, <1>3, <1>4 DEF Deleting

\* A handler that is not a deletion goes on or ends, and leaves the others alone.
LEMMA ResumeKeeps ==
    ASSUME TasksOK, NEW t \in Slots, tasks[t].at # "idle",
           Finish(t) \/ \E label \in Labels : Goto(t, label)
    PROVE  TasksOK' /\ (Deleting /\ tasks[t].at # "delete" => Deleting')
<1>1. tasks[t] \in Task
  BY TaskInFlight
<1>2. TasksOK'
  <2>1. CASE Finish(t)
    BY <2>1 DEF Finish, TasksOK
  <2>2. ASSUME NEW label \in Labels, Goto(t, label) PROVE TasksOK'
    <3>1. [tasks[t] EXCEPT !.at = label] \in Task
      BY <1>1 DEF Task
    <3>. QED  BY <2>2, <3>1 DEF Goto, TasksOK
  <2>. QED  BY <2>1, <2>2
<1>3. \A s \in Slots : s # t => tasks'[s] = tasks[s]
  BY DEF Finish, Goto, TasksOK
<1>. QED  BY <1>2, <1>3 DEF Deleting

\* After a removal a handler goes on or ends, as ResumeKeeps has it.
LEMMA ProceedGoesOn ==
    ASSUME NEW t \in Slots, tasks[t] \in Task, Proceed(t)
    PROVE  Finish(t) \/ \E label \in Labels : Goto(t, label)
BY DEF Proceed, Task, Labels, Mutating

\* Whatever step is taken, the handlers in flight stay well formed, and a deletion
\* under way goes on until it is carried out.
LEMMA TasksStep ==
    ASSUME TasksOK, [Next]_vars
    PROVE  TasksOK' /\ (Deleting => Deleting' \/ \E t \in Slots : Delete(t))
<1>. DEFINE Goal == TasksOK' /\ (Deleting => Deleting' \/ \E t \in Slots : Delete(t))
<1>1. CASE UNCHANGED tasks
  BY <1>1 DEF TasksOK, Deleting
<1>2. ASSUME NEW task \in Task, Spawn(task) PROVE Goal
  BY <1>2, SpawnKeeps
<1>3. ASSUME NEW t \in Slots, tasks[t].at \notin {"idle", "delete"},
             Finish(t) \/ \E label \in Labels : Goto(t, label)
      PROVE  Goal
  BY <1>3, ResumeKeeps
<1>4. ASSUME NEW s \in Sockets, Connect(s) \/ Lose(s) PROVE Goal
  BY <1>1, <1>4 DEF Connect, Lose
<1>5. ASSUME NEW s \in Sockets, Disconnect(s) PROVE Goal
  <2>1. Owner[s] \in Players /\ Handler("mark", s, "grace") \in Task
    BY MembershipAssumption DEF Handler, Task, Labels, Mutating
  <2>. QED  BY <1>1, <1>2, <1>5, <2>1 DEF Disconnect
<1>6. ASSUME NEW s \in Sockets, RequestJoin(s) \/ RequestLeave(s) \/ RequestReady(s) PROVE Goal
  <2>1. /\ Handler("join", s, "forget") \in Task /\ Handler("remove", s, "forget") \in Task
        /\ Handler("ready", s, "forget") \in Task
    BY MembershipAssumption DEF Handler, Task, Labels, Mutating
  <2>. QED  BY <1>2, <1>6, <2>1 DEF RequestJoin, RequestLeave, RequestReady
<1>7. ASSUME NEW s \in Sockets, NEW p \in Players, RequestKick(s, p) \/ RequestTransfer(s, p)
      PROVE  Goal
  <2>1. /\ [Handler("remove", s, "evict") EXCEPT !.player = p] \in Task
        /\ [Handler("transfer", s, "forget") EXCEPT !.player = p] \in Task
    BY HandlerIsTask DEF Labels, Mutating
  <2>. QED  BY <1>2, <1>7, <2>1 DEF RequestKick, RequestTransfer
<1>9. ASSUME NEW n \in Nodes, NEW p \in Players, GraceTimeout(n, p) PROVE Goal
  <2>1. [at |-> "check", node |-> n, socket |-> NoSocket, player |-> p, then |-> "grace"] \in Task
    BY DEF Task, Labels, Mutating
  <2>. QED  BY <1>2, <1>9, <2>1 DEF GraceTimeout
<1>10. ASSUME NEW t \in Slots, Resume(t) PROVE Goal
  <2>1. CASE Mark(t) \/ Bind(t) \/ Forget(t) \/ Evict(t) \/ Ready(t) \/ TransferHost(t)
    BY <1>3, <2>1 DEF Mark, Bind, Forget, Evict, Ready, TransferHost
  <2>2. CASE Join(t) \/ Check(t)
    BY <1>3, <2>2 DEF Join, Check, Labels, Mutating
  <2>3. CASE Remove(t)
    <3>1. tasks[t].at = "remove" /\ (Goto(t, "delete") \/ Proceed(t))
      BY <2>3 DEF Remove
    <3>2. Finish(t) \/ \E label \in Labels : Goto(t, label)
      BY <3>1, TaskInFlight, ProceedGoesOn DEF Labels, Mutating
    <3>. QED  BY <1>3, <3>1, <3>2
  <2>4. CASE Delete(t)
    <3>1. tasks[t].at = "delete" /\ Proceed(t)
      BY <2>4 DEF Delete
    <3>. QED  BY <2>4, <3>1, TaskInFlight, ProceedGoesOn, ResumeKeeps
  <2>. QED  BY <1>10, <2>1, <2>2, <2>3, <2>4 DEF Resume
<1>. QED  BY <1>1, <1>4, <1>5, <1>6, <1>7, <1>9, <1>10 DEF Next, vars

\* A handler that binds a socket has one.
LEMMA TiedStep == TasksOK /\ Tied /\ [Next]_vars => Tied'
<1>. SUFFICES ASSUME TasksOK, Tied, [Next]_vars PROVE Tied'
  OBVIOUS
<1>1. CASE UNCHANGED tasks
  BY <1>1 DEF Tied
<1>2. ASSUME NEW task, task.at \in {"join", "bind"} => task.socket \in Sockets, Spawn(task)
      PROVE  Tied'
  BY <1>2 DEF Spawn, TasksOK, Tied
<1>3. ASSUME NEW t \in Slots, Finish(t) PROVE Tied'
  BY <1>3 DEF Finish, NoTask, TasksOK, Tied
<1>4. ASSUME NEW t \in Slots, tasks[t].at # "idle", NEW label \in Labels, Goto(t, label),
             label = "bind" => tasks[t].at = "join", label # "join"
      PROVE  Tied'
  <2>1. tasks'[t].at = label /\ tasks'[t].socket = tasks[t].socket
    BY <1>4, TaskInFlight DEF Goto, Task, TasksOK
  <2>2. \A x \in Slots : x # t => tasks'[x] = tasks[x]
    BY <1>4 DEF Goto, TasksOK
  <2>. QED  BY <1>4, <2>1, <2>2 DEF Tied
<1>5. ASSUME NEW s \in Sockets, \/ Connect(s) \/ Lose(s) \/ Disconnect(s)
                                \/ RequestJoin(s) \/ RequestLeave(s) \/ RequestReady(s)
                                \/ \E p \in Players : RequestKick(s, p) \/ RequestTransfer(s, p)
      PROVE  Tied'
  <2>1. \A label, then : Handler(label, s, then).socket = s
    BY DEF Handler
  <2>2. \A p : /\ [Handler("remove", s, "evict") EXCEPT !.player = p].at = "remove"
               /\ [Handler("transfer", s, "forget") EXCEPT !.player = p].at = "transfer"
    BY DEF Handler
  <2>3. CASE Connect(s) \/ Lose(s)
    BY <1>1, <2>3 DEF Connect, Lose
  <2>4. CASE Disconnect(s)
    BY <1>1, <1>2, <2>1, <2>4 DEF Disconnect
  <2>5. CASE RequestJoin(s) \/ RequestLeave(s) \/ RequestReady(s)
    BY <1>2, <2>1, <2>5 DEF RequestJoin, RequestLeave, RequestReady
  <2>6. ASSUME NEW p \in Players, RequestKick(s, p) \/ RequestTransfer(s, p) PROVE Tied'
    BY <1>2, <2>2, <2>6 DEF RequestKick, RequestTransfer
  <2>. QED  BY <1>5, <2>3, <2>4, <2>5, <2>6
<1>6. ASSUME NEW n \in Nodes, NEW p \in Players, GraceTimeout(n, p) PROVE Tied'
  BY <1>2, <1>6 DEF GraceTimeout
<1>7. ASSUME NEW t \in Slots, \/ Mark(t) \/ Bind(t) \/ Forget(t) \/ Evict(t)
                              \/ Ready(t) \/ TransferHost(t)
      PROVE  Tied'
  BY <1>3, <1>7 DEF Mark, Bind, Forget, Evict, Ready, TransferHost
<1>8. ASSUME NEW t \in Slots, Join(t) \/ Check(t) PROVE Tied'
  BY <1>3, <1>4, <1>8 DEF Join, Check, Labels, Mutating
<1>9. ASSUME NEW t \in Slots, Remove(t) \/ Delete(t) PROVE Tied'
  <2>1. tasks[t].at \in {"remove", "delete"} /\ (Goto(t, "delete") \/ Proceed(t))
    BY <1>9 DEF Remove, Delete
  <2>2. tasks[t].then \in {"forget", "evict", "grace"}
    BY <2>1, TaskInFlight DEF Task
  <2>3. CASE Goto(t, "delete")
    BY <1>4, <2>1, <2>3 DEF Labels, Mutating
  <2>4. CASE Proceed(t)
    BY <1>3, <1>4, <2>1, <2>2, <2>4 DEF Proceed, Labels, Mutating
  <2>. QED  BY <2>1, <2>3, <2>4
<1>. QED  BY <1>1, <1>5, <1>6, <1>7, <1>8, <1>9 DEF Next, Resume, vars

\* The connections and the grace timers.
LEMMA RestStep == TasksOK /\ Tied /\ RestOK /\ [Next]_vars => RestOK'
<1>. SUFFICES ASSUME TasksOK, Tied, RestOK, [Next]_vars PROVE RestOK'
  OBVIOUS
<1>. USE DEF RestOK, Conns
<1>1. CASE UNCHANGED <<conn, bound, grace>>
  BY <1>1
<1>2. ASSUME NEW s \in Sockets, \/ Connect(s) \/ Lose(s) \/ Disconnect(s)
                                \/ RequestJoin(s) \/ RequestLeave(s) \/ RequestReady(s)
                                \/ \E p \in Players : RequestKick(s, p) \/ RequestTransfer(s, p)
      PROVE  RestOK'
  BY <1>2 DEF Connect, Lose, Disconnect, RequestJoin, RequestLeave, RequestReady, RequestKick,
     RequestTransfer
<1>3. ASSUME NEW n \in Nodes, NEW p \in Players, GraceTimeout(n, p) PROVE RestOK'
  BY <1>3 DEF GraceTimeout
<1>4. ASSUME NEW t \in Slots, Mark(t) PROVE RestOK'
  BY <1>4, TaskInFlight DEF Mark, Task
<1>5. ASSUME NEW t \in Slots, Bind(t) PROVE RestOK'
  <2>1. tasks[t].socket \in Sockets
    BY <1>5 DEF Bind, Tied
  <2>. QED  BY <1>5, <2>1 DEF Bind
<1>6. ASSUME NEW t \in Slots, \/ Join(t) \/ Check(t) \/ Remove(t) \/ Delete(t)
                              \/ Ready(t) \/ TransferHost(t)
      PROVE  RestOK'
  BY <1>6 DEF Join, Check, Remove, Delete, Ready, TransferHost
<1>7. ASSUME NEW t \in Slots, Forget(t) \/ Evict(t) PROVE RestOK'
  BY <1>7 DEF Forget, Evict
<1>. QED  BY <1>1, <1>2, <1>3, <1>4, <1>5, <1>6, <1>7 DEF Next, Resume, vars

-----------------------------------------------------------------------------
(***************************************************************************)
(* The record of the room.                                                 *)
(***************************************************************************)
\* Whoever is in the list without p, and nobody else, is a player other than p.
LEMMA MembersWithout ==
    ASSUME NEW o, SoundFor(o, Players), NEW p
    PROVE  /\ SoundFor(Without(o, p), Players)
           /\ {Without(o, p)[i] : i \in DOMAIN Without(o, p)} = {o[i] : i \in DOMAIN o} \ {p}
<1>. DEFINE S == {o[i] : i \in DOMAIN o}
<1>1. SoundFor(o, S)
  BY DEF SoundFor
<1>2. SoundFor(Without(o, p), S \ {p})
  BY <1>1, WithoutSound
<1>3. SoundFor(Without(o, p), Players)
  <2>1. SoundFor(Without(o, p), Players \ {p})
    BY WithoutSound
  <2>. QED  BY <2>1 DEF SoundFor
<1>4. \A q \in S \ {p} : \E i \in DOMAIN Without(o, p) : Without(o, p)[i] = q
  <2>1. ASSUME NEW i \in DOMAIN o, o[i] # p
        PROVE  \E j \in DOMAIN Without(o, p) : Without(o, p)[j] = o[i]
    BY <2>1, WithoutKeepsOthers
  <2>. QED  BY <2>1
<1>5. \A i \in DOMAIN Without(o, p) : Without(o, p)[i] \in S \ {p}
  <2>. DEFINE T == S \ {p}
              w == Without(o, p)
  <2>1. w \in Seq(T)
    BY <1>2 DEF SoundFor
  <2>. HIDE DEF T, w
  <2>2. \A i \in DOMAIN w : w[i] \in T
    BY <2>1
  <2>. QED  BY <2>2 DEF T, w
<1>. QED  BY <1>3, <1>4, <1>5

\* Whoever is in the list with p at its end is p or was in the list before.
LEMMA MembersAppended ==
    ASSUME NEW o, SoundFor(o, Players), NEW p \in Players, p \notin {o[i] : i \in DOMAIN o}
    PROVE  /\ SoundFor(Append(o, p), Players)
           /\ {o[i] : i \in DOMAIN o} \cup {p} \subseteq {Append(o, p)[i] : i \in DOMAIN Append(o, p)}
           /\ Append(o, p) # << >>
<1>1. /\ SoundFor(Append(o, p), Players)
      /\ Append(o, p) # << >>
      /\ \A i \in DOMAIN o : i \in DOMAIN Append(o, p) /\ Append(o, p)[i] = o[i]
      /\ \E i \in DOMAIN Append(o, p) : Append(o, p)[i] = p
  BY AppendSound
<1>. QED  BY <1>1

\* removePlayer keeps the record good, and leaves the players one host or nobody.
LEMMA RemovalSound ==
    ASSUME RoomOK, NEW p \in Players, RemovePlayer(p)
    PROVE  /\ RoomOK'
           /\ room'.exists = room.exists
           /\ holder' = 0 /\ UNCHANGED revived
           /\ room.isHost \in {{}, {room.hostId}} =>
                \/ room'.isHost = {room'.hostId}
                \/ room'.isHost = {} /\ (room.isHost = {} \/ room'.players = << >>)
<1>. USE DEF Write
<1>. DEFINE rest == Without(room.players, p)
            left == [room EXCEPT !.players = rest, !.connected = @ \ {p}, !.isHost = @ \ {p}]
<1>1. SoundFor(rest, Players) /\ {rest[i] : i \in DOMAIN rest} = Members \ {p}
  BY MembersWithout DEF RoomOK, Members
<1>2. rest \in Seq(Players)
  BY <1>1 DEF SoundFor
<1>. HIDE DEF rest
<1>3. CASE p \in room.isHost /\ rest # << >>
  <2>1. PICK q \in Players : /\ Succeeds(q, rest)
                             /\ room' = [left EXCEPT !.isHost = @ \cup {q}, !.hostId = q]
    BY <1>3 DEF RemovePlayer, rest
  <2>2. q \in {rest[i] : i \in DOMAIN rest}
    BY <1>2, <1>3, <2>1 DEF Succeeds
  <2>3. /\ room'.players = rest /\ room'.connected = room.connected \ {p}
        /\ room'.isHost = (room.isHost \ {p}) \cup {q} /\ room'.hostId = q
        /\ room'.exists = room.exists /\ room' \in Room
    BY <1>2, <2>1 DEF RoomOK, Room
  <2>4. RoomOK'
    BY <1>1, <2>2, <2>3 DEF RoomOK, Members
  <2>5. holder' = 0 /\ UNCHANGED revived
    BY <1>3 DEF RemovePlayer, rest
  <2>. QED  BY <1>3, <2>3, <2>4, <2>5
<1>4. CASE ~(p \in room.isHost /\ rest # << >>)
  <2>1. room' = left
    BY <1>4 DEF RemovePlayer, rest
  <2>2. /\ room'.players = rest /\ room'.connected = room.connected \ {p}
        /\ room'.isHost = room.isHost \ {p} /\ room'.hostId = room.hostId
        /\ room'.exists = room.exists /\ room' \in Room
    BY <1>2, <2>1 DEF RoomOK, Room
  <2>3. RoomOK'
    BY <1>1, <2>2 DEF RoomOK, Members
  <2>4. rest = << >> => room'.isHost = {}
    BY <2>2, <2>3 DEF RoomOK, Members
  <2>5. holder' = 0 /\ UNCHANGED revived
    BY <1>4 DEF RemovePlayer, rest
  <2>6. rest # << >> => p \notin room.isHost /\ room'.isHost = room.isHost
    BY <1>4, <2>2
  <2>. QED  BY <2>2, <2>3, <2>4, <2>5, <2>6
<1>. QED  BY <1>3, <1>4

\* A record that is gone is well formed, and has nobody in it.
LEMMA ErasureSound ==
    ASSUME RoomOK, Erase
    PROVE  /\ RoomOK'
           /\ room'.players = << >> /\ room'.isHost = {} /\ ~room'.exists
<1>1. << >> \in Seq(Players) /\ DOMAIN << >> = {}
  OBVIOUS
<1>2. /\ room'.players = << >> /\ room'.connected = {} /\ room'.isHost = {}
      /\ ~room'.exists /\ room' \in Room
  BY <1>1 DEF Erase, RoomOK, Room
<1>. QED  BY <1>1, <1>2 DEF RoomOK, SoundFor, Members

\* The holder is a handler, or nobody.
LEMMA HeldStep ==
    ASSUME RoomOK, HeldOK, TasksOK, [Next]_vars
    PROVE  HeldOK'
<1>. USE DEF HeldOK
<1>1. CASE UNCHANGED record
  BY <1>1
<1>2. ASSUME NEW next, Write(next) PROVE HeldOK'
  BY <1>2 DEF Write
<1>3. CASE Erase
  BY <1>3 DEF Erase
<1>4. ASSUME NEW t, NoWrite(t) PROVE HeldOK'
  BY <1>1, <1>3, <1>4 DEF NoWrite
<1>5. ASSUME NEW t \in Slots, Delete(t) PROVE HeldOK'
  BY <1>1, <1>3, <1>5 DEF Delete, InFlight
<1>6. ASSUME NEW t \in Slots, Join(t) \/ Mark(t) \/ Ready(t) \/ TransferHost(t) PROVE HeldOK'
  BY <1>2, <1>4, <1>6 DEF Join, Mark, Ready, TransferHost
<1>7. ASSUME NEW t \in Slots, Remove(t) PROVE HeldOK'
  <2>1. tasks[t].player \in Players
    BY <1>7, TaskInFlight DEF Remove, Task
  <2>. QED  BY <1>1, <1>7, <2>1, RemovalSound DEF Remove
<1>8. ASSUME NEW s \in Sockets, \/ Connect(s) \/ Lose(s) \/ Disconnect(s)
                                \/ RequestJoin(s) \/ RequestLeave(s) \/ RequestReady(s)
                                \/ \E p \in Players : RequestKick(s, p) \/ RequestTransfer(s, p)
      PROVE  UNCHANGED record
  BY <1>8 DEF Connect, Lose, Disconnect, RequestJoin, RequestLeave, RequestReady, RequestKick,
     RequestTransfer
<1>9. ASSUME NEW t \in Slots, Bind(t) \/ Check(t) \/ Forget(t) \/ Evict(t) PROVE UNCHANGED record
  BY <1>9 DEF Bind, Check, Forget, Evict
<1>10. ASSUME NEW n \in Nodes, NEW p \in Players, GraceTimeout(n, p) PROVE UNCHANGED record
  BY <1>10 DEF GraceTimeout
<1>. QED  BY <1>1, <1>5, <1>6, <1>7, <1>8, <1>9, <1>10 DEF Next, Resume, vars

\* Every step keeps the record of the room well formed.
LEMMA RoomStep ==
    ASSUME RoomOK, TasksOK, [Next]_vars
    PROVE  RoomOK'
<1>1. CASE UNCHANGED room
  BY <1>1 DEF RoomOK, Members
<1>11. ASSUME NEW t, NoWrite(t) PROVE RoomOK'
  BY <1>1, <1>11, ErasureSound DEF NoWrite
<1>2. ASSUME NEW t \in Slots, TransferHost(t) PROVE RoomOK'
  <2>1. PICK p : p = tasks[t].player
    OBVIOUS
  <2>2. CASE NoWrite(t)
    BY <1>11, <2>2
  <2>3. CASE p \in Members /\ room' = [room EXCEPT !.isHost = {p}, !.hostId = p]
    <3>1. p \in Players
      BY <1>2, <2>1, TaskInFlight DEF TransferHost, Task
    <3>2. /\ room'.players = room.players /\ room'.connected = room.connected
          /\ room'.isHost = {p} /\ room' \in Room
      BY <2>3, <3>1 DEF RoomOK, Room
    <3>. QED  BY <2>3, <3>2 DEF RoomOK, Members
  <2>. QED  BY <1>2, <2>1, <2>2, <2>3 DEF TransferHost, Write
<1>3. ASSUME NEW t \in Slots, Mark(t) PROVE RoomOK'
  <2>1. CASE NoWrite(t)
    BY <1>11, <2>1
  <2>2. CASE room' = [room EXCEPT !.connected = @ \ {tasks[t].player}]
    <3>1. /\ room'.players = room.players /\ room'.connected \subseteq room.connected
          /\ room'.isHost = room.isHost /\ room' \in Room
      BY <2>2 DEF RoomOK, Room
    <3>. QED  BY <3>1 DEF RoomOK, Members
  <2>. QED  BY <1>3, <2>1, <2>2 DEF Mark, Write
<1>4. ASSUME NEW t \in Slots, Join(t) PROVE RoomOK'
  <2>. DEFINE p == tasks[t].player
  <2>1. p \in Players
    BY <1>4, TaskInFlight DEF Join, Task
  <2>2. CASE p \in Members /\ room' = [room EXCEPT !.connected = @ \cup {p}]
    <3>1. /\ room'.players = room.players /\ room'.connected = room.connected \cup {p}
          /\ room'.isHost = room.isHost /\ room' \in Room
      BY <2>1, <2>2 DEF RoomOK, Room
    <3>. QED  BY <2>2, <3>1 DEF RoomOK, Members
  <2>3. CASE p \notin Members /\ room' = [room EXCEPT !.connected = @ \cup {p},
                                                     !.players = Append(@, p)]
    <3>1. /\ SoundFor(Append(room.players, p), Players)
          /\ Members \cup {p} \subseteq
               {Append(room.players, p)[i] : i \in DOMAIN Append(room.players, p)}
      <4>1. SoundFor(room.players, Players)
        BY DEF RoomOK
      <4>2. p \notin {room.players[i] : i \in DOMAIN room.players}
        BY <2>3 DEF Members
      <4>. HIDE DEF p
      <4>. QED  BY <2>1, <4>1, <4>2, MembersAppended DEF Members
    <3>2. Append(room.players, p) \in Seq(Players)
      BY <3>1 DEF SoundFor
    <3>3. /\ room'.players = Append(room.players, p)
          /\ room'.connected = room.connected \cup {p}
          /\ room'.isHost = room.isHost /\ room' \in Room
      BY <2>1, <2>3, <3>2 DEF RoomOK, Room
    <3>. QED  BY <3>1, <3>3 DEF RoomOK, Members
  <2>4. room = [room EXCEPT !.players = @]
    BY DEF RoomOK, Room
  <2>. QED  BY <1>4, <1>11, <2>2, <2>3, <2>4 DEF Join, Write, RoomOK, Room
<1>5. ASSUME NEW t \in Slots, Remove(t) PROVE RoomOK'
  <2>1. tasks[t].player \in Players
    BY <1>5, TaskInFlight DEF Remove, Task
  <2>. QED  BY <1>1, <1>5, <2>1, RemovalSound DEF Remove
<1>6. ASSUME NEW t \in Slots, Delete(t) PROVE RoomOK'
  BY <1>1, <1>6, ErasureSound DEF Delete
<1>7. ASSUME NEW s \in Sockets, \/ Connect(s) \/ Lose(s) \/ Disconnect(s)
                                \/ RequestJoin(s) \/ RequestLeave(s) \/ RequestReady(s)
                                \/ \E p \in Players : RequestKick(s, p) \/ RequestTransfer(s, p)
      PROVE  UNCHANGED room
  BY <1>7 DEF Connect, Lose, Disconnect, RequestJoin, RequestLeave, RequestReady, RequestKick,
     RequestTransfer
<1>8. ASSUME NEW t \in Slots, Bind(t) \/ Check(t) \/ Forget(t) \/ Evict(t) PROVE UNCHANGED room
  BY <1>8 DEF Bind, Check, Forget, Evict
<1>9. ASSUME NEW n \in Nodes, NEW p \in Players, GraceTimeout(n, p) PROVE UNCHANGED room
  BY <1>9 DEF GraceTimeout
<1>10. ASSUME NEW t \in Slots, Ready(t) PROVE RoomOK'
  BY <1>1, <1>10, <1>11 DEF Ready, Write
<1>. QED  BY <1>1, <1>2, <1>3, <1>4, <1>5, <1>6, <1>7, <1>8, <1>9, <1>10 DEF Next, Resume, vars

-----------------------------------------------------------------------------
(***************************************************************************)
(* The host.                                                               *)
(***************************************************************************)
\* A step leaves the host as he was, or he has been succeeded, or nobody is left; and
\* a deletion leaves no record, or one that is brought back.
LEMMA HostStep ==
    ASSUME IInv, [Next]_vars
    PROVE  HostOK'
<1>. USE DEF IInv, HostOK, EmptyIsDoomed
<1>1. CASE Erase
  BY <1>1, ErasureSound
<1>2. ASSUME NEW t \in Slots, Delete(t) PROVE HostOK'
  <2>1. CASE revived' /\ UNCHANGED room
    BY <2>1
  <2>2. CASE UNCHANGED record /\ ~Stored
    BY <2>2 DEF Stored, HeldOK
  <2>. QED  BY <1>1, <1>2, <2>1, <2>2 DEF Delete
<1>. SUFFICES ASSUME ~ \E t \in Slots : Delete(t) PROVE HostOK'
  BY <1>2
<1>3. Deleting => Deleting'
  BY TasksStep
<1>4. CASE UNCHANGED record
  BY <1>3, <1>4
<1>5. ASSUME NEW t, NoWrite(t) PROVE HostOK'
  BY <1>1, <1>4, <1>5 DEF NoWrite
<1>6. ASSUME NEW t \in Slots, TransferHost(t) PROVE HostOK'
  <2>1. CASE UNCHANGED revived /\ room' = [room EXCEPT !.isHost = {tasks[t].player},
                                                     !.hostId = tasks[t].player]
    <3>1. /\ room'.isHost = {room'.hostId} /\ room'.players = room.players
          /\ room'.exists = room.exists
      BY <2>1 DEF RoomOK, Room
    <3>. QED  BY <1>3, <2>1, <3>1
  <2>. QED  BY <1>5, <1>6, <2>1 DEF TransferHost, Write
<1>7. ASSUME NEW t \in Slots, Mark(t) PROVE HostOK'
  <2>1. CASE UNCHANGED revived /\ room' = [room EXCEPT !.connected = @ \ {tasks[t].player}]
    <3>1. /\ room'.isHost = room.isHost /\ room'.hostId = room.hostId
          /\ room'.players = room.players /\ room'.exists = room.exists
      BY <2>1 DEF RoomOK, Room
    <3>. QED  BY <1>3, <2>1, <3>1
  <2>. QED  BY <1>5, <1>7, <2>1 DEF Mark, Write
<1>8. ASSUME NEW t \in Slots, Join(t) PROVE HostOK'
  <2>1. PICK p \in Players : p = tasks[t].player
    BY <1>8, TaskInFlight DEF Join, Task
  <2>2. CASE /\ room.exists /\ UNCHANGED revived
             /\ room' = [room EXCEPT !.connected = @ \cup {p},
                                    !.players = IF p \in Members THEN @ ELSE Append(@, p)]
    <3>1. /\ room'.exists /\ room'.isHost = room.isHost /\ room'.hostId = room.hostId
          /\ room'.players = room.players \/ room'.players = Append(room.players, p)
      BY <2>2 DEF RoomOK, Room
    <3>2. Append(room.players, p) # << >>
      BY DEF RoomOK, SoundFor
    <3>. QED  BY <1>3, <2>2, <3>1, <3>2
  <2>. QED  BY <1>5, <1>8, <2>1, <2>2 DEF Join, Write
<1>9. ASSUME NEW t \in Slots, Remove(t) PROVE HostOK'
  <2>1. CASE ~room.exists
    BY <1>4, <1>9, <2>1 DEF Remove
  <2>2. CASE room.exists
    <3>1. tasks[t].player \in Players
      BY <1>9, TaskInFlight DEF Remove, Task
    <3>2. /\ room'.exists /\ UNCHANGED revived
          /\ \/ room'.isHost = {room'.hostId}
             \/ room'.isHost = {} /\ (room.isHost = {} \/ room'.players = << >>)
      BY <1>9, <2>2, <3>1, RemovalSound DEF Remove
    <3>3. room'.players = << >> => Deleting'
      BY <1>9, <2>2, TaskInFlight DEF Remove, Goto, TasksOK, Deleting, Task
    <3>4. room.isHost = {} => Deleting \/ revived
      BY <2>2
    <3>. QED  BY <1>3, <3>2, <3>3, <3>4
  <2>. QED  BY <2>1, <2>2
<1>10. ASSUME NEW t \in Slots, Ready(t) PROVE HostOK'
  BY <1>3, <1>5, <1>10 DEF Ready, Write
<1>11. ASSUME NEW s \in Sockets, \/ Connect(s) \/ Lose(s) \/ Disconnect(s)
                                 \/ RequestJoin(s) \/ RequestLeave(s) \/ RequestReady(s)
                                 \/ \E p \in Players : RequestKick(s, p) \/ RequestTransfer(s, p)
       PROVE  UNCHANGED record
  BY <1>11 DEF Connect, Lose, Disconnect, RequestJoin, RequestLeave, RequestReady, RequestKick,
     RequestTransfer
<1>12. ASSUME NEW t \in Slots, Bind(t) \/ Check(t) \/ Forget(t) \/ Evict(t) PROVE UNCHANGED record
  BY <1>12 DEF Bind, Check, Forget, Evict
<1>13. ASSUME NEW n \in Nodes, NEW p \in Players, GraceTimeout(n, p) PROVE UNCHANGED record
  BY <1>13 DEF GraceTimeout
<1>. QED  BY <1>4, <1>6, <1>7, <1>8, <1>9, <1>10, <1>11, <1>12, <1>13 DEF Next, Resume, vars

-----------------------------------------------------------------------------
\* The invariant holds in the room the creator has just been given.
LEMMA InitOK == Init => IInv
<1>. SUFFICES ASSUME Init PROVE IInv
  OBVIOUS
<1>1. Owner[Creator] \in Players
  BY MembershipAssumption
<1>2. RoomOK
  <2>. DEFINE p == Owner[Creator]
  <2>1. /\ <<p>> \in Seq(Players) /\ DOMAIN <<p>> = {1} /\ <<p>>[1] = p
    BY <1>1
  <2>2. /\ room \in Room /\ room.players = <<p>> /\ room.connected = {p} /\ room.isHost = {p}
    BY <1>1, <2>1 DEF Init, Room
  <2>. HIDE DEF p
  <2>. QED  BY <2>1, <2>2 DEF RoomOK, SoundFor, Members
<1>3. TasksOK /\ Tied
  BY DEF Init, TasksOK, Tied, NoTask
<1>4. RestOK
  BY MembershipAssumption DEF Init, RestOK, Conns
<1>5. HostOK /\ HeldOK
  BY DEF Init, HostOK, EmptyIsDoomed, HeldOK
<1>. QED  BY <1>2, <1>3, <1>4, <1>5 DEF IInv

\* The invariant holds in every reachable state.
LEMMA Invariance == Spec => []IInv
<1>1. IInv /\ [Next]_vars => IInv'
  BY RoomStep, HeldStep, TasksStep, TiedStep, RestStep, HostStep DEF IInv
<1>. QED  BY InitOK, <1>1, PTL DEF Spec

-----------------------------------------------------------------------------
(***************************************************************************)
(* Whoever is back.  finalizeLeave finds gone whoever is not connected;    *)
(* whoever has a connection bound to the room is, because marking somebody *)
(* as gone is over before he can open the next connection, and a player    *)
(* who is taken off the list is connected no more, but no member either.   *)
(***************************************************************************)
\* The player of a socket is connected, if he is a player of the room.
Standing(s) == room.exists /\ Owner[s] \in Members => Owner[s] \in room.connected

OneConnection == \A r, s \in Sockets :
    /\ Owner[r] = Owner[s]
    /\ conn[r] \notin {"new", "closed"} /\ conn[s] \notin {"new", "closed"}
    => r = s

Marked(t) == tasks[t].at = "mark" =>
    \A s \in Sockets : Owner[s] = tasks[t].player => conn[s] \in {"new", "closed"}

Coming(t) ==
    /\ tasks[t].at \in {"join", "bind"} => /\ tasks[t].player = Owner[tasks[t].socket]
                                           /\ conn[tasks[t].socket] # "new"
    /\ tasks[t].at = "bind" /\ conn[tasks[t].socket] = "open" => Standing(tasks[t].socket)

Seated(s) == conn[s] # "new" /\ (conn[s] = "open" => Standing(s))

BackInv == /\ OneConnection
           /\ \A t \in Slots : Marked(t) /\ Coming(t)
           /\ \A s \in bound : Seated(s)

\* What a step may do to tasks: one of them goes on, or ends, or a new one starts.
LEMMA Goes ==
    ASSUME TasksOK, NEW t \in Slots, tasks[t].at # "idle", NEW label \in Labels,
           Goto(t, label)
    PROVE  /\ tasks'[t].at = label /\ tasks'[t].player = tasks[t].player
           /\ tasks'[t].socket = tasks[t].socket
           /\ \A x \in Slots : x # t => tasks'[x] = tasks[x]
BY TaskInFlight DEF Goto, Task, TasksOK

LEMMA Ends ==
    ASSUME TasksOK, NEW t \in Slots, Finish(t)
    PROVE  /\ tasks'[t].at = "idle"
           /\ \A x \in Slots : x # t => tasks'[x] = tasks[x]
BY DEF Finish, TasksOK, NoTask

LEMMA Starts ==
    ASSUME TasksOK, NEW task, Spawn(task)
    PROVE  \A x \in Slots : tasks'[x] = tasks[x] \/ tasks'[x] = task
BY DEF Spawn, TasksOK

\* A step that lets nobody go: tasks that were there say what they said, or concern nobody.
Idle(x) == tasks'[x].at \notin {"mark", "join", "bind"}
Same(x) == tasks'[x].at = tasks[x].at /\ tasks'[x].player = tasks[x].player
           /\ tasks'[x].socket = tasks[x].socket

LEMMA BackStays ==
    ASSUME IInv, BackInv, UNCHANGED conn, bound' \subseteq bound,
           \A s \in Sockets : conn[s] = "open" /\ Standing(s) => Standing(s)',
           \A x \in Slots : Same(x) \/ Idle(x)
    PROVE  BackInv'
<1>1. OneConnection'
  BY DEF BackInv, OneConnection
<1>2. ASSUME NEW s \in bound' PROVE Seated(s)'
  BY <1>2 DEF BackInv, Seated, IInv, RestOK
<1>3. ASSUME NEW x \in Slots PROVE Marked(x)' /\ Coming(x)'
  <2>1. CASE Idle(x)
    BY <2>1 DEF Idle, Marked, Coming
  <2>2. CASE Same(x)
    <3>1. Marked(x)'
      BY <2>2 DEF Same, Marked, BackInv
    <3>2. tasks[x].at \in {"join", "bind"} => tasks[x].socket \in Sockets
      BY DEF IInv, Tied
    <3>3. Coming(x)'
      BY <2>2, <3>2 DEF Same, Coming, BackInv
    <3>. QED  BY <3>1, <3>3
  <2>. QED  BY <1>3, <2>1, <2>2
<1>. QED  BY <1>1, <1>2, <1>3 DEF BackInv

\* The record is gone, and nobody is a player of it.
LEMMA StandingGone == ASSUME IInv, Erase PROVE \A s : Standing(s)'
BY ErasureSound DEF IInv, Standing

\* The record is left alone.
LEMMA StandingStays == ASSUME UNCHANGED room PROVE \A s : Standing(s)' = Standing(s)
BY DEF Standing, Members

LEMMA ConnectKeepsBack ==
    ASSUME IInv, BackInv, Late = FALSE, NEW s \in Sockets, Connect(s) PROVE BackInv'
<1>1. /\ conn[s] = "new" /\ conn'[s] = "open" /\ UNCHANGED <<room, bound, tasks>>
      /\ \A r \in Sockets : r # s => conn'[r] = conn[r]
      /\ \A r \in Sockets : Owner[r] = Owner[s] => conn[r] \in {"new", "closed"}
      /\ \A t \in InFlight : tasks[t].player = Owner[s] => tasks[t].at # "mark"
  BY DEF Connect, IInv, RestOK
<1>2. OneConnection'
  BY <1>1 DEF OneConnection, BackInv
<1>3. ASSUME NEW x \in bound' PROVE Seated(x)'
  <2>1. x \in Sockets /\ Seated(x) /\ x # s
    BY <1>1, <1>3 DEF BackInv, Seated, IInv, RestOK
  <2>. QED  BY <1>1, <2>1, StandingStays DEF Seated
<1>4. ASSUME NEW x \in Slots PROVE Marked(x)' /\ Coming(x)'
  <2>1. Marked(x)'
    <3>1. tasks[x].at = "mark" => x \in InFlight
      BY DEF InFlight
    <3>. QED  BY <1>1, <3>1 DEF Marked, BackInv
  <2>2. Coming(x)'
    <3>1. tasks[x].at \in {"join", "bind"} => tasks[x].socket \in Sockets \ {s}
      BY <1>1 DEF IInv, Tied, BackInv, Coming
    <3>. QED  BY <1>1, <3>1, StandingStays DEF Coming, BackInv
  <2>. QED  BY <2>1, <2>2
<1>. QED  BY <1>2, <1>3, <1>4 DEF BackInv

LEMMA LoseKeepsBack ==
    ASSUME IInv, BackInv, NEW s \in Sockets, Lose(s) PROVE BackInv'
<1>1. /\ conn[s] = "open" /\ conn'[s] = "lost" /\ UNCHANGED <<room, bound, tasks>>
      /\ \A r \in Sockets : r # s => conn'[r] = conn[r]
  BY DEF Lose, IInv, RestOK
<1>2. OneConnection'
  BY <1>1 DEF OneConnection, BackInv
<1>3. ASSUME NEW x \in bound' PROVE Seated(x)'
  <2>1. x \in Sockets /\ Seated(x)
    BY <1>1, <1>3 DEF BackInv, IInv, RestOK
  <2>. QED  BY <1>1, <2>1, StandingStays DEF Seated
<1>4. ASSUME NEW x \in Slots PROVE Marked(x)' /\ Coming(x)'
  <2>1. Marked(x)'
    BY <1>1 DEF Marked, BackInv
  <2>2. Coming(x)'
    <3>1. tasks[x].at \in {"join", "bind"} => tasks[x].socket \in Sockets
      BY DEF IInv, Tied
    <3>. QED  BY <1>1, <3>1, StandingStays DEF Coming, BackInv
  <2>. QED  BY <2>1, <2>2
<1>. QED  BY <1>2, <1>3, <1>4 DEF BackInv

LEMMA DisconnectKeepsBack ==
    ASSUME IInv, BackInv, NEW s \in Sockets, Disconnect(s) PROVE BackInv'
<1>1. /\ conn[s] = "lost" /\ conn'[s] = "closed" /\ UNCHANGED <<room, bound>>
      /\ \A r \in Sockets : r # s => conn'[r] = conn[r]
  BY DEF Disconnect, IInv, RestOK
<1>2. PICK h : h = Handler("mark", s, "grace")
  OBVIOUS
<1>3. h = Handler("mark", s, "grace") /\ h.at = "mark" /\ h.player = Owner[s]
  BY <1>2 DEF Handler
<1>4. \A x \in Slots : tasks'[x] = tasks[x] \/ tasks'[x] = h
  BY <1>3, Starts DEF Disconnect, IInv
<1>5. OneConnection'
  BY <1>1 DEF OneConnection, BackInv
<1>6. ASSUME NEW x \in bound' PROVE Seated(x)'
  <2>1. x \in Sockets /\ Seated(x)
    BY <1>1, <1>6 DEF BackInv, IInv, RestOK
  <2>. QED  BY <1>1, <2>1, StandingStays DEF Seated
<1>7. ASSUME NEW x \in Slots PROVE Marked(x)' /\ Coming(x)'
  <2>1. CASE tasks'[x] = tasks[x]
    <3>1. Marked(x)'
      BY <1>1, <2>1 DEF Marked, BackInv
    <3>2. tasks[x].at \in {"join", "bind"} => tasks[x].socket \in Sockets
      BY DEF IInv, Tied
    <3>3. Coming(x)'
      BY <1>1, <2>1, <3>2, StandingStays DEF Coming, BackInv
    <3>. QED  BY <3>1, <3>3
  <2>2. CASE tasks'[x] = h
    <3>1. \A r \in Sockets : Owner[r] = Owner[s] => r = s \/ conn[r] \in {"new", "closed"}
      BY <1>1 DEF BackInv, OneConnection
    <3>. QED  BY <1>1, <1>3, <2>2, <3>1 DEF Marked, Coming
  <2>. QED  BY <1>4, <1>7, <2>1, <2>2
<1>. QED  BY <1>5, <1>6, <1>7 DEF BackInv

LEMMA JoinRequestKeepsBack ==
    ASSUME IInv, BackInv, NEW s \in Sockets, RequestJoin(s) PROVE BackInv'
<1>1. PICK h : h = Handler("join", s, "forget")
  OBVIOUS
<1>2. /\ h = Handler("join", s, "forget") /\ h.at = "join" /\ h.player = Owner[s]
      /\ h.socket = s
  BY <1>1 DEF Handler
<1>3. /\ UNCHANGED <<room, conn, bound>> /\ conn[s] = "open"
      /\ \A x \in Slots : tasks'[x] = tasks[x] \/ tasks'[x] = h
  BY <1>2, Starts DEF RequestJoin, IInv
<1>4. OneConnection'
  BY <1>3 DEF OneConnection, BackInv
<1>5. ASSUME NEW x \in bound' PROVE Seated(x)'
  BY <1>3, <1>5, StandingStays DEF BackInv, Seated
<1>6. ASSUME NEW x \in Slots PROVE Marked(x)' /\ Coming(x)'
  <2>1. CASE tasks'[x] = tasks[x]
    BY <1>3, <2>1, StandingStays DEF Marked, Coming, BackInv
  <2>2. CASE tasks'[x] = h
    BY <1>2, <1>3, <2>2 DEF Marked, Coming
  <2>. QED  BY <1>3, <1>6, <2>1, <2>2
<1>. QED  BY <1>4, <1>5, <1>6 DEF BackInv

\* What is spawned to take somebody off the list.
LEMMA DepartureKeepsBack ==
    ASSUME IInv, BackInv,
           \/ \E s \in Sockets : \/ RequestLeave(s) \/ RequestReady(s)
                                 \/ \E p \in Players : RequestKick(s, p) \/ RequestTransfer(s, p)
           \/ \E n \in Nodes, p \in Players : GraceTimeout(n, p)
    PROVE  BackInv'
<1>1. ASSUME NEW task, task.at \notin {"mark", "join", "bind"}, Spawn(task),
             UNCHANGED <<room, conn, bound>>
      PROVE  BackInv'
  <2>1. \A x \in Slots : Same(x) \/ Idle(x)
    BY <1>1, Starts DEF IInv, Same, Idle
  <2>. QED  BY <1>1, <2>1, BackStays, StandingStays
<1>2. ASSUME NEW s \in Sockets, RequestLeave(s) \/ RequestReady(s) PROVE BackInv'
  <2>1. Handler("remove", s, "forget").at = "remove" /\ Handler("ready", s, "forget").at = "ready"
    BY DEF Handler
  <2>. QED  BY <1>1, <1>2, <2>1 DEF RequestLeave, RequestReady
<1>3. ASSUME NEW s \in Sockets, NEW p \in Players, RequestKick(s, p) \/ RequestTransfer(s, p)
      PROVE  BackInv'
  <2>1. /\ [Handler("remove", s, "evict") EXCEPT !.player = p].at = "remove"
        /\ [Handler("transfer", s, "forget") EXCEPT !.player = p].at = "transfer"
    BY DEF Handler
  <2>. QED  BY <1>1, <1>3, <2>1 DEF RequestKick, RequestTransfer
<1>5. ASSUME NEW n \in Nodes, NEW p \in Players, GraceTimeout(n, p) PROVE BackInv'
  BY <1>1, <1>5 DEF GraceTimeout
<1>. QED  BY <1>2, <1>3, <1>5

LEMMA AppendNames ==
    ASSUME NEW o \in Seq(Players), NEW p
    PROVE  {Append(o, p)[i] : i \in DOMAIN Append(o, p)} \subseteq {o[i] : i \in DOMAIN o} \cup {p}
<1>1. PICK n \in Nat : n = Len(o) /\ DOMAIN o = 1..n
  OBVIOUS
<1>2. DOMAIN Append(o, p) = 1..(n + 1)
  BY <1>1
<1>3. \A i \in 1..(n + 1) : Append(o, p)[i] = IF i \in 1..n THEN o[i] ELSE p
  BY <1>1
<1>. QED  BY <1>1, <1>2, <1>3

LEMMA RemovalNames ==
    ASSUME RoomOK, NEW p, RemovePlayer(p)
    PROVE  /\ Members' = Members \ {p} /\ room'.connected = room.connected \ {p}
           /\ room'.exists = room.exists
<1>1. PICK rest : rest = Without(room.players, p)
  OBVIOUS
<1>2. PICK left : left = [room EXCEPT !.players = rest, !.connected = @ \ {p}, !.isHost = @ \ {p}]
  OBVIOUS
<1>3. \/ \E q \in Players : room' = [left EXCEPT !.isHost = @ \cup {q}, !.hostId = q]
      \/ room' = left
  BY <1>1, <1>2 DEF RemovePlayer, Write
<1>4. left.players = rest /\ left.connected = room.connected \ {p} /\ left.exists = room.exists
      /\ left \in [exists : {left.exists}, players : {left.players}, connected : {left.connected},
                   isHost : {left.isHost}, hostId : {left.hostId}]
  BY <1>2 DEF RoomOK, Room
<1>5. /\ room'.players = rest /\ room'.connected = room.connected \ {p}
      /\ room'.exists = room.exists
  BY <1>3, <1>4
<1>6. SoundFor(room.players, Players)
  BY DEF RoomOK
<1>7. {rest[i] : i \in DOMAIN rest} = {room.players[i] : i \in DOMAIN room.players} \ {p}
  BY <1>1, <1>6, MembersWithout
<1>8. Members' = {room'.players[i] : i \in DOMAIN room'.players}
  BY DEF Members
<1>. QED  BY <1>5, <1>7, <1>8 DEF Members

\* Handlers.
LEMMA MarkKeepsBack ==
    ASSUME IInv, BackInv, NEW t \in Slots, Mark(t) PROVE BackInv'
<1>1. tasks[t].at = "mark" /\ UNCHANGED <<conn, bound>> /\ Finish(t)
  BY DEF Mark
<1>3. \A s \in Sockets : conn[s] = "open" => Owner[s] # tasks[t].player
  BY <1>1 DEF BackInv, Marked
<1>4. \A s \in Sockets : conn[s] = "open" /\ Standing(s) => Standing(s)'
  <2>1. CASE NoWrite(t)
    BY <2>1, StandingGone, StandingStays DEF NoWrite
  <2>2. CASE room' = [room EXCEPT !.connected = @ \ {tasks[t].player}]
    <3>1. /\ room'.players = room.players /\ room'.exists = room.exists
          /\ room.connected \ {tasks[t].player} \subseteq room'.connected
      BY <2>2 DEF IInv, RoomOK, Room
    <3>. QED  BY <1>3, <3>1 DEF Standing, Members
  <2>. QED  BY <2>1, <2>2 DEF Mark, Write
<1>5. \A x \in Slots : Same(x) \/ Idle(x)
  BY <1>1, Ends DEF IInv, Same, Idle
<1>. QED  BY <1>1, <1>4, <1>5, BackStays

LEMMA JoinKeepsBack ==
    ASSUME IInv, BackInv, NEW t \in Slots, Join(t) PROVE BackInv'
<1>1. /\ tasks[t].at = "join" /\ UNCHANGED <<conn, bound>>
      /\ tasks[t].socket \in Sockets /\ tasks[t].player = Owner[tasks[t].socket]
      /\ conn[tasks[t].socket] # "new"
  BY DEF Join, IInv, Tied, BackInv, Coming
<1>2. CASE NoWrite(t) /\ Finish(t)
  <2>1. \A x \in Slots : Same(x) \/ Idle(x)
    BY <1>2, Ends DEF IInv, Same, Idle
  <2>2. \A s \in Sockets : Standing(s) => Standing(s)'
    BY <1>2, StandingGone, StandingStays DEF NoWrite
  <2>. QED  BY <1>1, <1>2, <2>1, <2>2, BackStays
<1>3. CASE ~(NoWrite(t) /\ Finish(t))
  <2>1. PICK p \in Players : p = tasks[t].player
    BY <1>1, MembershipAssumption
  <2>2. /\ Goto(t, "bind")
        /\ \/ room' = [room EXCEPT !.connected = @ \cup {p}, !.players = @]
           \/ room' = [room EXCEPT !.connected = @ \cup {p}, !.players = Append(@, p)]
    BY <1>3, <2>1 DEF Join, Write
  <2>3. /\ room'.connected = room.connected \cup {p} /\ room'.exists = room.exists
        /\ room'.players = room.players \/ room'.players = Append(room.players, p)
    BY <2>2 DEF IInv, RoomOK, Room
  <2>4. room.players \in Seq(Players)
    BY DEF IInv, RoomOK, SoundFor
  <2>5. Members' \subseteq Members \cup {p}
    BY <2>3, <2>4, AppendNames DEF Members
  <2>6. \A s \in Sockets : Standing(s) => Standing(s)'
    BY <2>3, <2>5 DEF Standing
  <2>7. PICK s0 \in Sockets : s0 = tasks[t].socket
    BY <1>1
  <2>12. Standing(s0)'
    BY <1>1, <2>1, <2>3, <2>7 DEF Standing
  <2>8. /\ tasks'[t].at = "bind" /\ tasks'[t].player = tasks[t].player
        /\ tasks'[t].socket = tasks[t].socket
        /\ \A x \in Slots : x # t => tasks'[x] = tasks[x]
    BY <1>1, <2>2, Goes DEF IInv, Labels, Mutating
  <2>9. OneConnection'
    BY <1>1 DEF BackInv, OneConnection
  <2>10. \A s \in bound' : Seated(s)'
    BY <1>1, <2>6 DEF BackInv, Seated, IInv, RestOK
  <2>11. ASSUME NEW x \in Slots PROVE Marked(x)' /\ Coming(x)'
    <3>1. CASE x = t
      BY <1>1, <2>1, <2>7, <2>8, <2>12, <3>1 DEF Marked, Coming
    <3>2. CASE x # t
      <4>1. tasks'[x] = tasks[x] /\ Marked(x) /\ Coming(x)
        BY <2>8, <3>2 DEF BackInv
      <4>2. tasks[x].at = "bind" => tasks[x].socket \in Sockets
        BY DEF IInv, Tied
      <4>. QED  BY <1>1, <2>6, <4>1, <4>2 DEF Marked, Coming
    <3>. QED  BY <3>1, <3>2
  <2>. QED  BY <2>9, <2>10, <2>11 DEF BackInv
<1>. QED  BY <1>2, <1>3

LEMMA BindKeepsBack ==
    ASSUME IInv, BackInv, NEW t \in Slots, Bind(t) PROVE BackInv'
<1>1. /\ tasks[t].at = "bind" /\ UNCHANGED <<room, conn>> /\ Finish(t)
      /\ bound' = bound \cup {tasks[t].socket}
  BY DEF Bind
<1>2. Seated(tasks[t].socket)
  BY <1>1 DEF BackInv, Coming, Seated
<1>3. \A s \in bound' : Seated(s)'
  <2>1. \A s \in bound' : Seated(s)
    BY <1>1, <1>2 DEF BackInv
  <2>. QED  BY <1>1, <2>1, StandingStays DEF Seated
<1>4. OneConnection'
  BY <1>1 DEF BackInv, OneConnection
<1>5. ASSUME NEW x \in Slots PROVE Marked(x)' /\ Coming(x)'
  <2>1. tasks'[x] = tasks[x] \/ tasks'[x].at = "idle"
    BY <1>1, Ends DEF IInv
  <2>. QED  BY <1>1, <2>1, StandingStays DEF BackInv, Marked, Coming
<1>. QED  BY <1>3, <1>4, <1>5 DEF BackInv

\* Checking, removing, deleting, and what follows.
LEMMA RemovalKeepsBack ==
    ASSUME IInv, BackInv, NEW t \in Slots,
           \/ Check(t) \/ Remove(t) \/ Delete(t) \/ Forget(t) \/ Evict(t)
           \/ Ready(t) \/ TransferHost(t)
    PROVE  BackInv'
<1>1. /\ tasks[t].at \notin {"idle", "mark", "join", "bind"}
      /\ UNCHANGED conn /\ bound' \subseteq bound
  BY DEF Check, Remove, Delete, Forget, Evict, Ready, TransferHost
<1>2. \A x \in Slots : Same(x) \/ Idle(x)
  <2>1. ASSUME Finish(t) PROVE \A x \in Slots : Same(x) \/ Idle(x)
    BY <2>1, Ends DEF IInv, Same, Idle
  <2>2. ASSUME NEW label \in Labels \ {"mark", "join", "bind"}, Goto(t, label)
        PROVE  \A x \in Slots : Same(x) \/ Idle(x)
    BY <1>1, <2>2, Goes DEF IInv, Same, Idle
  <2>3. ASSUME Proceed(t) PROVE \A x \in Slots : Same(x) \/ Idle(x)
    <3>1. tasks[t].then \in {"forget", "evict", "grace"}
      BY <1>1, TaskInFlight DEF IInv, Task
    <3>. QED  BY <2>1, <2>2, <2>3, <3>1 DEF Proceed, Labels, Mutating
  <2>. QED  BY <2>1, <2>2, <2>3 DEF Check, Remove, Delete, Forget, Evict, Ready, TransferHost,
            Labels, Mutating
<1>3. \A s \in Sockets : Standing(s) => Standing(s)'
  <2>1. CASE UNCHANGED room
    BY <2>1, StandingStays
  <2>2. CASE room.exists /\ RemovePlayer(tasks[t].player)
    BY <2>2, RemovalNames DEF IInv, Standing
  <2>3. CASE Erase
    BY <2>3, StandingGone
  <2>4. CASE TransferHost(t)
    <3>1. CASE \E p : room' = [room EXCEPT !.isHost = {p}, !.hostId = p]
      <4>1. /\ room'.players = room.players /\ room'.connected = room.connected
            /\ room'.exists = room.exists
        BY <3>1 DEF IInv, RoomOK, Room
      <4>. QED  BY <4>1 DEF Standing, Members
    <3>. QED  BY <2>1, <2>3, <2>4, <3>1 DEF TransferHost, Write, NoWrite
  <2>. QED  BY <2>1, <2>2, <2>3, <2>4 DEF Check, Remove, Delete, Forget, Evict, Ready, Write,
            NoWrite
<1>. QED  BY <1>1, <1>2, <1>3, BackStays

LEMMA BackInit == Init => BackInv
<1>. SUFFICES ASSUME Init PROVE BackInv
  OBVIOUS
<1>1. /\ \A s \in Sockets : conn[s] = IF s = Creator THEN "open" ELSE "new"
      /\ bound = {Creator} /\ Creator \in Sockets /\ \A t \in Slots : tasks[t].at = "idle"
      /\ Owner[Creator] \in room.connected
  BY MembershipAssumption DEF Init, NoTask
<1>. QED  BY <1>1 DEF BackInv, OneConnection, Marked, Coming, Seated, Standing

LEMMA BackStep == ASSUME Late = FALSE, IInv, BackInv, [Next]_vars PROVE BackInv'
<1>1. CASE UNCHANGED vars
  BY <1>1, BackStays, StandingStays DEF vars, Same
<1>2. ASSUME NEW s \in Sockets, \/ Connect(s) \/ Lose(s) \/ Disconnect(s)
                                \/ RequestJoin(s) \/ RequestLeave(s) \/ RequestReady(s)
                                \/ \E p \in Players : RequestKick(s, p) \/ RequestTransfer(s, p)
      PROVE  BackInv'
  BY <1>2, ConnectKeepsBack, LoseKeepsBack, DisconnectKeepsBack, JoinRequestKeepsBack,
     DepartureKeepsBack
<1>3. ASSUME NEW n \in Nodes, NEW p \in Players, GraceTimeout(n, p) PROVE BackInv'
  BY <1>3, DepartureKeepsBack
<1>4. ASSUME NEW t \in Slots, Resume(t) PROVE BackInv'
  BY <1>4, MarkKeepsBack, JoinKeepsBack, BindKeepsBack, RemovalKeepsBack DEF Resume
<1>. QED  BY <1>1, <1>2, <1>3, <1>4 DEF Next

\* Only the check of a grace window lets a handler go from the one label to the other, and
\* it does so for somebody who is on the list and not connected.
LEMMA SparesTheLiving ==
    ASSUME IInv, BackInv, Next, NEW t \in Slots, tasks[t].at = "check", tasks'[t].at = "remove"
    PROVE  ~LivePlayer(tasks[t].player)
<1>1. Check(t)
  <2>1. ASSUME NEW task, Spawn(task) PROVE tasks'[t] = tasks[t]
    <3>1. t \in InFlight
      BY DEF InFlight
    <3>. QED  BY <2>1, <3>1 DEF Spawn, IInv, TasksOK
  <2>2. ASSUME NEW s \in Sockets, \/ Connect(s) \/ Lose(s) \/ Disconnect(s)
                                  \/ RequestJoin(s) \/ RequestLeave(s) \/ RequestReady(s)
                                  \/ \E p \in Players : RequestKick(s, p) \/ RequestTransfer(s, p)
        PROVE  FALSE
    BY <2>1, <2>2 DEF Connect, Lose, Disconnect, RequestJoin, RequestLeave, RequestReady,
       RequestKick, RequestTransfer
  <2>3. ASSUME NEW n \in Nodes, NEW p \in Players, GraceTimeout(n, p) PROVE FALSE
    BY <2>1, <2>3 DEF GraceTimeout
  <2>4. ASSUME NEW x \in Slots, x # t, Resume(x) PROVE FALSE
    <3>1. tasks[x].at # "idle"
      BY <2>4 DEF Resume, Mark, Join, Bind, Check, Remove, Delete, Forget, Evict, Ready,
         TransferHost
    <3>2. Finish(x) \/ \E label \in Labels : Goto(x, label)
      <4>1. tasks[x] \in Task
        BY <3>1, TaskInFlight DEF IInv
      <4>. QED  BY <2>4, <4>1, ProceedGoesOn DEF Resume, Mark, Join, Bind, Check, Remove,
                Delete, Forget, Evict, Ready, TransferHost, Labels, Mutating
    <3>3. tasks'[t] = tasks[t]
      BY <2>4, <3>2 DEF Finish, Goto, IInv, TasksOK
    <3>. QED  BY <3>3
  <2>5. Resume(t)
    BY <2>2, <2>3, <2>4 DEF Next
  <2>. QED  BY <2>5 DEF Resume, Mark, Join, Bind, Remove, Delete, Forget, Evict, Ready, TransferHost
<1>2. room.exists /\ tasks[t].player \in Members \ room.connected
  BY <1>1, Ends DEF Check, Stored, IInv
<1>. QED  BY <1>2 DEF LivePlayer, BackInv, Seated, Standing

-----------------------------------------------------------------------------
\* The record stays well formed: the list of players names nobody twice, and only
\* its players are connected or host (room.service.ts:118-183).
THEOREM TypeCorrect == Spec => []TypeOK
BY Invariance, IInvImplies, PTL

\* hostId and the isHost flags agree on one player of the room, whoever leaves, is
\* kicked, drops out or is promoted in the meantime; the exceptions are a room that
\* was found empty and is being deleted, and one that a mutation in flight has brought
\* back after that: those have no host (room.service.ts:154-183, 222-234,
\* room.store.ts:81-107).
THEOREM OneHost == Spec => []HostIsPlayer
BY Invariance, IInvImplies, PTL

\* The grace window takes the slot of nobody who is back, however slow the handlers are, as
\* long as a lost connection is noticed and marked before the next one is opened
\* (game.gateway.ts:124-147).
THEOREM LivingAreSpared ==
    ASSUME Late = FALSE
    PROVE  Spec => GraceSparesTheLiving
<1>1. IInv /\ BackInv /\ [Next]_vars => BackInv'
  BY BackStep
<1>2. IInv /\ BackInv /\ [Next]_vars
        => [\A t \in Slots : tasks[t].at = "check" /\ tasks'[t].at = "remove"
               => ~LivePlayer(tasks[t].player)]_vars
  BY SparesTheLiving
<1>. QED  BY <1>1, <1>2, BackInit, Invariance, PTL DEF Spec, GraceSparesTheLiving
=============================================================================
