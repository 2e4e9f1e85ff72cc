--------------------------- MODULE RoomDirectory ---------------------------
(***************************************************************************)
(* How rooms are made, found and left: the keys that lead to a room beside *)
(* its record.  They are its code, the set of public rooms, the session of *)
(* each user, and the roomId of each connection (apps/backend/src/rooms/   *)
(* room.service.ts:77-141, 154-212, 240-245, redis/room.store.ts:53-70,    *)
(* 98-107, 163-200, game/game.gateway.ts:124-266).  None of them is        *)
(* written together with the record, except by the MULTI of createRoom and *)
(* of deleteRoom.                                                          *)
(*                                                                         *)
(* A handler in flight is a task, and one action is one stretch between    *)
(* two awaits.  mutate() is one step, at its write, but for deleteRoom,    *)
(* which takes no lock and may fall between its read and its write: the    *)
(* `holder` of a room is then the task that will write the deleted record  *)
(* again.  A user has one page, with one connection at a time.  Rooms stay *)
(* in the lobby phase, the heir of a host is any of the players the code   *)
(* may come to, and nobody is kicked: GameFlow and Membership are about    *)
(* that.  Nor does a user lose his connection, come back, or see his grace *)
(* window end while a handler of his is in flight, which Membership treats *)
(* too.                                                                    *)
(***************************************************************************)
EXTENDS Naturals, FiniteSets

CONSTANTS Users,
          RoomIds,     \* what cryptoRandomId draws, each once
          Codes,
          None,        \* null, in place of a room or a code
          MaxPlayers,  \* settings.maxPlayers
          MaxTasks,    \* bound: handlers in flight at once
          MaxLosses,   \* bound: lost connections
          MaxChanges,  \* bound: changes of settings
          Patient,     \* does a user wait for the end of his last request?
          Tidy,        \* does a user leave a room before he enters another?
          Collide      \* may a code be drawn that is in use, or about to be?

ASSUME RoomDirectoryAssumption ==
    /\ IsFiniteSet(Users) /\ IsFiniteSet(RoomIds)
    /\ None \notin RoomIds \cup Codes
    /\ {MaxPlayers, MaxTasks, MaxLosses, MaxChanges} \subseteq Nat
    /\ {Patient, Tidy, Collide} \subseteq BOOLEAN

VARIABLES rooms,    \* the room records in Redis, None for a key that is not set; one
                    \* that has been deleted stays as its holder has read it
          holder,   \* the task, if any, that will write a deleted record again
          codeOf,   \* the code keys
          public,   \* the set rooms:public
          session,  \* the session keys
          roomId,   \* socket.data.roomId of each user's connection
          live,     \* who is connected
          page,     \* the room each user's page shows, None in the lobby
          grace,    \* the grace timers that are set: user and room
          tasks,    \* the handlers in flight
          made,     \* history: the ids that were drawn
          expired,  \* history: the rooms that have outlived their code key
          revived,  \* history: the records that were deleted, and held
          losses,   \* history: how many connections were lost
          changes   \* history: how many changes of settings were asked for

vars == <<rooms, holder, codeOf, public, session, roomId, live, page, grace, tasks, made,
          expired, revived, losses, changes>>

-----------------------------------------------------------------------------
(***************************************************************************)
(* Data.                                                                   *)
(***************************************************************************)
MaybeRoom == RoomIds \cup {None}

Room == [code : Codes, private : BOOLEAN, players : SUBSET Users,
         connected : SUBSET Users, host : Users]

ASSUME NoneIsNoRoom == None \notin Room

Exists(r) == r # None /\ rooms[r] # None
Existing == {r \in RoomIds : Exists(r)}

\* Where a task resumes: the command it waits for.
Labels == {"code", "exists", "store", "register",       \* room:create
           "find", "resume", "join", "session", "bind", \* room:join, session:resume
           "remove", "unregister", "delete", "forget", "unbind", \* room:leave
           "mark", "check",                             \* a lost connection
           "settings", "index",                         \* room:settings
           "members", "get", "prune"}                   \* GET /rooms

Task == [at : Labels, user : Users, room : MaybeRoom, code : Codes \cup {None},
         private : BOOLEAN, leaving : BOOLEAN, ids : SUBSET RoomIds]

ASSUME NoneIsNoTask == None \notin Task

Handler(label, u) == [at |-> label, user |-> u, room |-> None, code |-> None,
                      private |-> FALSE, leaving |-> FALSE, ids |-> {}]

Spawn(t) == /\ Cardinality(tasks) < MaxTasks /\ t \notin tasks
            /\ tasks' = tasks \cup {t}
Becomes(t, u) == tasks' = (tasks \ {t}) \cup {u}
Goto(t, label) == Becomes(t, [t EXCEPT !.at = label])
Finish(t) == tasks' = tasks \ {t}

Records == <<rooms, holder, revived>>
Keys == <<Records, codeOf, public, session>>
Sockets == <<roomId, live, grace, losses>>
History == <<made, expired, changes>>

(***************************************************************************)
(* The records.  getRoom and MGET find none while its holder has yet to    *)
(* write it, and every other mutate() waits for the lock the holder has.   *)
(***************************************************************************)
Mutating == {"join", "remove", "mark", "settings"}
Stored(r) == Exists(r) /\ holder[r] = None
HasLock(t) == t.room \in RoomIds /\ holder[t.room] \in {None, t}

Write(r, record) == /\ rooms' = [rooms EXCEPT ![r] = record]
                    /\ holder' = [holder EXCEPT ![r] = None]
                    /\ UNCHANGED revived

Erase(r) == /\ rooms' = [rooms EXCEPT ![r] = None]
            /\ holder' = [holder EXCEPT ![r] = None]
            /\ revived' = revived \ {r}

\* mutate() ends without a write: what was deleted meanwhile stays deleted.
NoWrite(t) == IF holder[t.room] = t THEN Erase(t.room) ELSE UNCHANGED Records

\* No handler of u is in flight, but that he may be reading the list of rooms.
Listing == {"members", "get", "prune"}
Calm(u) == \A t \in tasks : t.user = u => t.at \in Listing

-----------------------------------------------------------------------------
(***************************************************************************)
(* Faulty variants of operators defined below.                             *)
(***************************************************************************)
\* A player who comes back is not marked as connected.
AdmittedAsHeIs(room, u) ==
    IF u \in room.players THEN room
    ELSE [room EXCEPT !.players = @ \cup {u}, !.connected = @ \cup {u}]

\* A removal that forgets the connected flag, which is a list of its own here.
PlayersWithout(room, u, heir) ==
    [room EXCEPT !.players = @ \ {u}, !.host = IF @ = u THEN heir ELSE @]

\* A room where nobody is connected is taken for a stale entry.
DesertedToo(ids) == {r \in ids : rooms[r] # None => rooms[r].connected = {}}

\* deleteRoom forgets the code key.
CodesKept(t) == codeOf

-----------------------------------------------------------------------------
(***************************************************************************)
(* room:create.                                                            *)
(***************************************************************************)
\* The lobby page asks for one thing at a time.
InLobby(u) == /\ live[u]
              /\ page[u] = None \/ ~Tidy
              /\ \A t \in tasks : t.user = u =>
                    t.at \notin {"code", "exists", "store", "register", "find", "join",
                                 "session", "bind"}
              /\ Patient => Calm(u)

RequestCreate(u, private) == /\ InLobby(u)
                             /\ RoomIds \ made # {}
                             /\ Spawn([Handler("code", u) EXCEPT !.private = private])
                             /\ UNCHANGED <<Keys, Sockets, page, History>>

\* createRoom draws a code, and another one while that is taken.  Codes are so many
\* that one which somebody has in his hands does not come up again by chance.
DrawCode(t, c) ==
    /\ t.at = "code"
    /\ codeOf[c] = None
    /\ ~Collide => /\ \A r \in Existing : rooms[r].code # c
                   /\ \A u \in tasks : u.code # c
    /\ Becomes(t, [t EXCEPT !.at = "exists", !.code = c])
    /\ UNCHANGED <<Keys, Sockets, page, History>>

\* store.createRoom: EXISTS...
TestCode(t) == /\ t.at = "exists"
               /\ IF codeOf[t.code] = None THEN Goto(t, "store") ELSE Finish(t)
               /\ UNCHANGED <<Keys, Sockets, page, History>>

\* ... and MULTI.
StoreRoom(t, r) ==
    /\ t.at = "store"
    /\ r \notin made
    /\ made' = made \cup {r}
    /\ rooms' = [rooms EXCEPT ![r] = [code |-> t.code, private |-> t.private,
                                      players |-> {t.user}, connected |-> {t.user},
                                      host |-> t.user]]
    /\ codeOf' = [codeOf EXCEPT ![t.code] = r]
    /\ Becomes(t, [t EXCEPT !.room = r, !.code = None,
                            !.at = IF t.private THEN "session" ELSE "register"])
    /\ UNCHANGED <<holder, revived, public, session, Sockets, page, expired, changes>>

Register(t) == /\ t.at = "register"
               /\ public' = public \cup {t.room}
               /\ Goto(t, "session")
               /\ UNCHANGED <<Records, codeOf, session, Sockets, page, History>>

-----------------------------------------------------------------------------
(***************************************************************************)
(* room:join and session:resume.                                           *)
(***************************************************************************)
RequestJoin(u, c) == /\ InLobby(u)
                     /\ Spawn([Handler("find", u) EXCEPT !.code = c])
                     /\ UNCHANGED <<Keys, Sockets, page, History>>

\* joinByCode.
FindRoom(t) ==
    /\ t.at = "find"
    /\ IF codeOf[t.code] = None THEN Finish(t)
       ELSE Becomes(t, [t EXCEPT !.at = "join", !.room = codeOf[t.code], !.code = None])
    /\ UNCHANGED <<Keys, Sockets, page, History>>

\* A page that shows a room, or the lobby after a leave that failed, connects again.
Reconnect(u) == /\ ~live[u] /\ Calm(u)
                /\ live' = [live EXCEPT ![u] = TRUE]
                /\ Spawn(Handler("resume", u))
                /\ UNCHANGED <<Keys, roomId, grace, losses, page, History>>

Resume(t) == /\ t.at = "resume"
             /\ IF session[t.user] = None THEN Finish(t)
                ELSE Becomes(t, [t EXCEPT !.at = "join", !.room = session[t.user]])
             /\ UNCHANGED <<Keys, Sockets, page, History>>

\* join: the mutation.
Admitted(room, u) == [room EXCEPT !.players = @ \cup {u}, !.connected = @ \cup {u}]

Join(t) ==
    /\ t.at = "join" /\ HasLock(t)
    /\ IF /\ Exists(t.room)
          /\ \/ t.user \in rooms[t.room].players
             \/ Cardinality(rooms[t.room].connected) < MaxPlayers
       THEN /\ Write(t.room, Admitted(rooms[t.room], t.user))
            /\ Goto(t, "session")
       ELSE NoWrite(t) /\ Finish(t)
    /\ UNCHANGED <<codeOf, public, session, Sockets, page, History>>

BindSession(t) == /\ t.at = "session"
                  /\ session' = [session EXCEPT ![t.user] = t.room]
                  /\ Goto(t, "bind")
                  /\ UNCHANGED <<Records, codeOf, public, Sockets, page, History>>

\* bindToRoom, and the answer, on which the page shows the room.
BindToRoom(t) == /\ t.at = "bind"
                 /\ roomId' = [roomId EXCEPT ![t.user] = t.room]
                 /\ page' = [page EXCEPT ![t.user] = t.room]
                 /\ Finish(t)
                 /\ UNCHANGED <<Keys, live, grace, losses, History>>

-----------------------------------------------------------------------------
(***************************************************************************)
(* room:leave, and lost connections.                                       *)
(***************************************************************************)
\* The page does not wait for the answer: it goes to the lobby.
RequestLeave(u) ==
    /\ live[u] /\ page[u] # None
    /\ Patient => Calm(u)
    /\ page' = [page EXCEPT ![u] = None]
    /\ IF roomId[u] = None THEN UNCHANGED tasks
       ELSE Spawn([Handler("remove", u) EXCEPT !.room = roomId[u], !.leaving = TRUE])
    /\ UNCHANGED <<Keys, Sockets, History>>

\* removePlayer: the mutation.  `heir` is the host that follows.  There may be none when
\* the player is host by the hostId alone, because he came into a room that was about to
\* be deleted.
Without(room, u, heir) ==
    [room EXCEPT !.players = @ \ {u}, !.connected = @ \ {u},
                 !.host = IF @ = u THEN heir ELSE @]

MayFollow(room, u, heir) ==
    IF room.players \ {u} = {} THEN heir = u
    ELSE heir \in IF room.connected \ {u} = {} THEN room.players \ {u}
                  ELSE room.connected \ {u}

Hostless(r) == \/ r \in revived
               \/ \E t \in tasks : t.room = r /\ t.at \in {"unregister", "delete"}

Remove(t, heir) ==
    /\ t.at = "remove" /\ HasLock(t)
    /\ IF Exists(t.room)
       THEN /\ MayFollow(rooms[t.room], t.user, heir) \/ (Hostless(t.room) /\ heir = t.user)
            /\ Write(t.room, Without(rooms[t.room], t.user, heir))
            /\ IF rooms[t.room].players \subseteq {t.user}
               THEN Becomes(t, [t EXCEPT !.at = "unregister", !.code = rooms[t.room].code])
               ELSE IF t.leaving THEN Goto(t, "forget") ELSE Finish(t)
       ELSE /\ heir = t.user
            /\ IF t.leaving THEN Goto(t, "forget") ELSE Finish(t)
            /\ UNCHANGED Records
    /\ UNCHANGED <<codeOf, public, session, Sockets, page, History>>

Unregister(t) == /\ t.at = "unregister"
                 /\ public' = public \ {t.room}
                 /\ Goto(t, "delete")
                 /\ UNCHANGED <<Records, codeOf, session, Sockets, page, History>>

\* deleteRoom, without a lock.  A mutate() that has read the record by now holds it.
CodesAfter(t) == [codeOf EXCEPT ![t.code] = None]

Delete(t) ==
    /\ t.at = "delete"
    /\ IF Stored(t.room)
       THEN \/ Erase(t.room)
            \/ \E u \in tasks : /\ u.at \in Mutating /\ u.room = t.room
                               /\ holder' = [holder EXCEPT ![t.room] = u]
                               /\ revived' = revived \cup {t.room}
                               /\ UNCHANGED rooms
       ELSE UNCHANGED Records
    /\ codeOf' = CodesAfter(t)
    /\ IF t.leaving THEN Becomes(t, [t EXCEPT !.at = "forget", !.code = None])
       ELSE Finish(t)
    /\ UNCHANGED <<public, session, Sockets, page, History>>

Forget(t) == /\ t.at = "forget"
             /\ session' = [session EXCEPT ![t.user] = None]
             /\ Goto(t, "unbind")
             /\ UNCHANGED <<Records, codeOf, public, Sockets, page, History>>

\* onPlayerGone is over.
Unbind(t) == /\ t.at = "unbind"
             /\ roomId' = [roomId EXCEPT ![t.user] = None]
             /\ Finish(t)
             /\ UNCHANGED <<Keys, live, grace, losses, page, History>>

\* handleDisconnect.  The socket and its data are gone; the next one has no roomId.
Lose(u) == /\ losses < MaxLosses
           /\ live[u] /\ Calm(u)
           /\ losses' = losses + 1
           /\ live' = [live EXCEPT ![u] = FALSE]
           /\ roomId' = [roomId EXCEPT ![u] = None]
           /\ IF roomId[u] = None THEN UNCHANGED tasks
              ELSE Spawn([Handler("mark", u) EXCEPT !.room = roomId[u]])
           /\ UNCHANGED <<Keys, grace, page, History>>

\* markDisconnected, and the grace timer.
Missed(room, u) == [room EXCEPT !.connected = @ \ {u}]

Mark(t) ==
    /\ t.at = "mark" /\ HasLock(t)
    /\ IF Exists(t.room) /\ t.user \in rooms[t.room].players
       THEN Write(t.room, Missed(rooms[t.room], t.user))
       ELSE NoWrite(t)
    /\ grace' = grace \cup {<<t.user, t.room>>}
    /\ Finish(t)
    /\ UNCHANGED <<codeOf, public, session, roomId, live, losses, page, History>>

GraceTimeout(u, r) == /\ <<u, r>> \in grace /\ Calm(u)
                      /\ grace' = grace \ {<<u, r>>}
                      /\ Spawn([Handler("check", u) EXCEPT !.room = r])
                      /\ UNCHANGED <<Keys, roomId, live, losses, page, History>>

\* finalizeLeave.
Check(t) == /\ t.at = "check"
            /\ IF /\ Stored(t.room)
                  /\ t.user \in rooms[t.room].players \ rooms[t.room].connected
               THEN Goto(t, "remove") ELSE Finish(t)
            /\ UNCHANGED <<Keys, Sockets, page, History>>

-----------------------------------------------------------------------------
(***************************************************************************)
(* room:settings, the list of public rooms, and the expiry of code keys.   *)
(***************************************************************************)
RequestSettings(u, private) ==
    /\ live[u] /\ roomId[u] # None
    /\ Patient => Calm(u)
    /\ changes < MaxChanges
    /\ changes' = changes + 1
    /\ Spawn([Handler("settings", u) EXCEPT !.room = roomId[u], !.private = private])
    /\ UNCHANGED <<Keys, Sockets, page, made, expired>>

\* updateSettings: the mutation...
Listed(room, private) == [room EXCEPT !.private = private]

ChangeSettings(t) ==
    /\ t.at = "settings" /\ HasLock(t)
    /\ IF Exists(t.room) /\ rooms[t.room].host = t.user
       THEN /\ Write(t.room, Listed(rooms[t.room], t.private))
            /\ Goto(t, "index")
       ELSE NoWrite(t) /\ Finish(t)
    /\ UNCHANGED <<codeOf, public, session, Sockets, page, History>>

\* ... and the lobby index.
UpdateIndex(t) == /\ t.at = "index"
                  /\ public' = IF t.private THEN public \ {t.room} ELSE public \cup {t.room}
                  /\ Finish(t)
                  /\ UNCHANGED <<Records, codeOf, session, Sockets, page, History>>

\* The lobby page polls the list.
RequestList(u) == /\ page[u] = None
                  /\ \A t \in tasks : t.user = u => t.at \notin Listing
                  /\ Spawn(Handler("members", u))
                  /\ UNCHANGED <<Keys, Sockets, page, History>>

\* listPublic: SMEMBERS...
ReadMembers(t) == /\ t.at = "members"
                  /\ IF public = {} THEN Finish(t)
                     ELSE Becomes(t, [t EXCEPT !.at = "get", !.ids = public])
                  /\ UNCHANGED <<Keys, Sockets, page, History>>

\* ... MGET...
Stale(ids) == {r \in ids : ~Stored(r)}

ReadRooms(t) == /\ t.at = "get"
                /\ IF Stale(t.ids) = {} THEN Finish(t)
                   ELSE Becomes(t, [t EXCEPT !.at = "prune", !.ids = Stale(t.ids)])
                /\ UNCHANGED <<Keys, Sockets, page, History>>

\* ... and SREM.
Prune(t) == /\ t.at = "prune"
            /\ public' = public \ t.ids
            /\ Finish(t)
            /\ UNCHANGED <<Records, codeOf, session, Sockets, page, History>>

\* The code key is as old as the room; mutate() renews the record alone.
CodeExpires(r) == /\ Stored(r) /\ codeOf[rooms[r].code] = r
                  /\ codeOf' = [codeOf EXCEPT ![rooms[r].code] = None]
                  /\ expired' = expired \cup {r}
                  /\ UNCHANGED <<Records, public, session, Sockets, page, tasks, made, changes>>

-----------------------------------------------------------------------------
Init ==
    /\ rooms = [r \in RoomIds |-> None]
    /\ holder = [r \in RoomIds |-> None]
    /\ codeOf = [c \in Codes |-> None]
    /\ public = {}
    /\ session = [u \in Users |-> None]
    /\ roomId = [u \in Users |-> None]
    /\ live = [u \in Users |-> TRUE]
    /\ page = [u \in Users |-> None]
    /\ grace = {} /\ tasks = {} /\ made = {} /\ expired = {} /\ revived = {}
    /\ losses = 0 /\ changes = 0

Step(t) == \/ \E c \in Codes : DrawCode(t, c)
           \/ TestCode(t)
           \/ \E r \in RoomIds : StoreRoom(t, r)
           \/ Register(t)
           \/ FindRoom(t) \/ Resume(t) \/ Join(t) \/ BindSession(t) \/ BindToRoom(t)
           \/ \E heir \in Users : Remove(t, heir)
           \/ Unregister(t) \/ Delete(t) \/ Forget(t) \/ Unbind(t)
           \/ Mark(t) \/ Check(t)
           \/ ChangeSettings(t) \/ UpdateIndex(t)
           \/ ReadMembers(t) \/ ReadRooms(t) \/ Prune(t)

Next == \/ \E t \in tasks : Step(t)
        \/ \E u \in Users :
             \/ \E private \in BOOLEAN : RequestCreate(u, private)
             \/ \E c \in Codes : RequestJoin(u, c)
             \/ Reconnect(u) \/ RequestLeave(u) \/ Lose(u)
             \/ \E private \in BOOLEAN : RequestSettings(u, private)
             \/ RequestList(u)
        \/ \E u \in Users, r \in RoomIds : GraceTimeout(u, r)
        \/ \E r \in RoomIds : CodeExpires(r)

Spec == Init /\ [][Next]_vars

-----------------------------------------------------------------------------
(***************************************************************************)
(* Properties.                                                             *)
(***************************************************************************)
\* The keys are well formed; the connected are players (room.service.ts:57-75,
\* 118-183).
TypeOK ==
    /\ rooms \in [RoomIds -> Room \cup {None}]
    /\ holder \in [RoomIds -> tasks \cup {None}]
    /\ \A r \in Existing : rooms[r].connected \subseteq rooms[r].players
    /\ codeOf \in [Codes -> MaybeRoom]
    /\ public \subseteq RoomIds
    /\ session \in [Users -> MaybeRoom] /\ roomId \in [Users -> MaybeRoom]
    /\ live \in [Users -> BOOLEAN] /\ page \in [Users -> MaybeRoom]
    /\ grace \subseteq Users \X RoomIds
    /\ tasks \subseteq Task
    /\ made \subseteq RoomIds /\ expired \subseteq RoomIds /\ revived \subseteq RoomIds
    /\ losses \in 0..MaxLosses /\ changes \in 0..MaxChanges

\* A code leads to the room that bears it, from the moment the room is there until it is
\* deleted, and to no other; a record that a mutation in flight brings back after that
\* stays without one (room.store.ts:53-61, 81-107; room.service.ts:82-86, 112-116).
CodeLeadsThere ==
    /\ \A c \in Codes : codeOf[c] # None => /\ Exists(codeOf[c]) /\ codeOf[c] \notin revived
                                            /\ rooms[codeOf[c]].code = c
    /\ \A r \in Existing \ (expired \cup revived) : codeOf[rooms[r].code] = r

\* When nothing is under way, the lobby lists the public rooms that exist, whatever lists
\* were read, rooms made and settings changed meanwhile: a listing that drops stale
\* entries drops no living room.  Only a room that was deleted and brought back may be
\* public without being listed (room.store.ts:163-183, room.service.ts:176-180, 204-211).
IndexIsExact ==
    tasks = {} => \A r \in Existing : /\ r \in public => ~rooms[r].private
                                      /\ ~rooms[r].private => r \in public \cup revived

\* When nothing is under way, page, connection and record agree on where a user is: who
\* counts as connected in a room looks at it, and the page of a player in a room has a
\* connection that is bound to it and a session that leads back there
\* (game.gateway.ts:165-250, useGameConnection.ts:91-155).
Whereabouts ==
    tasks = {} =>
        /\ \A r \in Existing : \A u \in rooms[r].connected : live[u] /\ page[u] = r
        /\ \A u \in Users :
             /\ roomId[u] \in {None, page[u]}
             /\ (live[u] /\ Exists(page[u]) /\ u \in rooms[page[u]].players) =>
                    /\ u \in rooms[page[u]].connected
                    /\ roomId[u] = page[u] /\ session[u] = page[u]
=============================================================================
