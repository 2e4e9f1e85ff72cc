------------------------ MODULE RoomDirectoryProofs ------------------------
(***************************************************************************)
(* Theorems about RoomDirectory, for any users, rooms, codes and bounds.   *)
(***************************************************************************)
EXTENDS RoomDirectory, TLAPS

USE DEF Records

-----------------------------------------------------------------------------
(***************************************************************************)
(* Types.  TypeOK does not keep itself up: what a handler writes to the    *)
(* keys it has captured, so that its label must say what that is.          *)
(***************************************************************************)
HasCode == {"exists", "store", "find", "unregister", "delete"}
HasRoom == {"register", "join", "session", "bind", "remove", "unregister", "delete", "mark",
            "check", "settings", "index"}

Captured(t) == /\ t \in Task
               /\ t.at \in HasCode => t.code \in Codes
               /\ t.at \in HasRoom => t.room \in RoomIds

TasksOK == \A t \in tasks : Captured(t)

RoomsOK == /\ rooms \in [RoomIds -> Room \cup {None}]
           /\ \A r \in Existing : rooms[r].connected \subseteq rooms[r].players

KeysOK == codeOf \in [Codes -> MaybeRoom] /\ public \subseteq RoomIds
          /\ session \in [Users -> MaybeRoom]

UsersOK == /\ roomId \in [Users -> MaybeRoom] /\ page \in [Users -> MaybeRoom]
           /\ live \in [Users -> BOOLEAN]
           /\ grace \subseteq Users \X RoomIds
           /\ losses \in 0..MaxLosses

HistoryOK == made \subseteq RoomIds /\ expired \subseteq RoomIds /\ changes \in 0..MaxChanges

\* What a mutation in flight holds was deleted, and is still to be seen.
HeldOK == /\ revived \subseteq Existing
          /\ holder \in [RoomIds -> tasks \cup {None}]
          /\ \A r \in RoomIds : holder[r] # None =>
                r \in revived /\ holder[r].at \in Mutating /\ holder[r].room = r

TypeInv == TasksOK /\ RoomsOK /\ KeysOK /\ UsersOK /\ HistoryOK /\ HeldOK

SoundRoom(room) == room \in Room /\ room.connected \subseteq room.players

LEMMA TypeInvImplies == TypeInv => TypeOK
BY DEF TypeInv, TypeOK, TasksOK, Captured, RoomsOK, KeysOK, UsersOK, HistoryOK, HeldOK, Existing

\* The handlers in flight stay well formed when one of them starts, goes on or ends.
LEMMA TasksGrow ==
    ASSUME TasksOK, NEW u, Captured(u),
           Spawn(u) \/ \E t : Becomes(t, u)
    PROVE  TasksOK'
BY DEF TasksOK, Captured, Spawn, Becomes

LEMMA TasksEnd == ASSUME TasksOK, UNCHANGED tasks \/ \E t : Finish(t) PROVE TasksOK'
BY DEF TasksOK, Captured, Finish

\* Nobody who holds a record goes without writing it, and no room goes.
LEMMA HeldStays ==
    ASSUME HeldOK, UNCHANGED <<holder, revived>>, Existing \subseteq Existing',
           \A r \in RoomIds : holder[r] \in tasks' \cup {None}
    PROVE  HeldOK'
BY DEF HeldOK

\* What a request starts is well formed.
LEMMA PlainHandlersAreTasks ==
    ASSUME NEW u \in Users
    PROVE  Captured(Handler("resume", u)) /\ Captured(Handler("members", u))
BY DEF Captured, Handler, Task, Labels, MaybeRoom, HasCode, HasRoom

\* Requests, lost connections and timers start handlers.
LEMMA RequestTypes ==
    ASSUME TypeInv, NEW u \in Users,
           \/ \E private \in BOOLEAN : RequestCreate(u, private) \/ RequestSettings(u, private)
           \/ \E c \in Codes : RequestJoin(u, c)
           \/ Reconnect(u) \/ RequestLeave(u) \/ Lose(u) \/ RequestList(u)
           \/ \E r \in RoomIds : GraceTimeout(u, r)
    PROVE  TypeInv'
<1>. USE DEF TypeInv, Keys, Sockets, History
<1>1. UNCHANGED Keys /\ RoomsOK' /\ KeysOK'
  BY DEF RoomsOK, KeysOK, Exists, Existing, RequestCreate, RequestSettings, RequestJoin,
     Reconnect, RequestLeave, Lose, RequestList, GraceTimeout
<1>2. HistoryOK'
  <2>1. ASSUME NEW private \in BOOLEAN, RequestSettings(u, private) PROVE HistoryOK'
    <3>1. changes \in 0..MaxChanges /\ changes < MaxChanges /\ MaxChanges \in Nat
      BY <2>1, RoomDirectoryAssumption DEF HistoryOK, RequestSettings
    <3>2. changes' = changes + 1 /\ made' = made /\ expired' = expired
      BY <2>1 DEF RequestSettings
    <3>3. changes' \in 0..MaxChanges
      BY <3>1, <3>2
    <3>. QED  BY <3>2, <3>3 DEF HistoryOK
  <2>2. CASE UNCHANGED History
    BY <2>2 DEF HistoryOK
  <2>. QED  BY <2>1, <2>2 DEF RequestCreate, RequestJoin, Reconnect, RequestLeave, Lose,
                               RequestList, GraceTimeout
<1>3. UsersOK'
  <2>1. CASE UNCHANGED <<Sockets, page>>
    BY <2>1 DEF UsersOK
  <2>2. CASE Reconnect(u)
    BY <2>2 DEF UsersOK, Reconnect
  <2>3. CASE RequestLeave(u)
    BY <2>3 DEF UsersOK, RequestLeave, MaybeRoom
  <2>4. CASE Lose(u)
    BY <2>4, RoomDirectoryAssumption DEF UsersOK, Lose, MaybeRoom
  <2>5. ASSUME NEW r \in RoomIds, GraceTimeout(u, r) PROVE UsersOK'
    BY <2>5 DEF UsersOK, GraceTimeout
  <2>. QED  BY <2>1, <2>2, <2>3, <2>4, <2>5 DEF RequestCreate, RequestSettings, RequestJoin,
                                                 RequestList
<1>4. roomId[u] # None => roomId[u] \in RoomIds
  BY DEF UsersOK, MaybeRoom
<1>5. TasksOK'
  <2>1. ASSUME NEW private \in BOOLEAN,
               RequestCreate(u, private) \/ RequestSettings(u, private)
        PROVE  TasksOK'
    <3>1. Captured([Handler("code", u) EXCEPT !.private = private])
      BY DEF Captured, Handler, Task, Labels, MaybeRoom, HasCode, HasRoom
    <3>2. CASE RequestCreate(u, private)
      BY <3>1, <3>2, TasksGrow DEF RequestCreate
    <3>3. CASE RequestSettings(u, private)
      <4>1. roomId[u] \in RoomIds
        BY <1>4, <3>3 DEF RequestSettings
      <4>2. Captured([Handler("settings", u) EXCEPT !.room = roomId[u], !.private = private])
        BY <4>1 DEF Captured, Handler, Task, Labels, MaybeRoom, HasCode, HasRoom
      <4>. QED  BY <3>3, <4>2, TasksGrow DEF RequestSettings
    <3>. QED  BY <2>1, <3>2, <3>3
  <2>2. ASSUME NEW c \in Codes, RequestJoin(u, c) PROVE TasksOK'
    <3>1. Captured([Handler("find", u) EXCEPT !.code = c])
      BY DEF Captured, Handler, Task, Labels, MaybeRoom, HasCode, HasRoom
    <3>. QED  BY <2>2, <3>1, TasksGrow DEF RequestJoin
  <2>3. CASE Reconnect(u) \/ RequestList(u)
    BY <2>3, PlainHandlersAreTasks, TasksGrow DEF Reconnect, RequestList
  <2>4. CASE RequestLeave(u) \/ Lose(u)
    <3>1. CASE roomId[u] = None
      BY <2>4, <3>1, TasksEnd DEF RequestLeave, Lose
    <3>2. CASE roomId[u] # None
      <4>1. /\ Captured([Handler("remove", u) EXCEPT !.room = roomId[u], !.leaving = TRUE])
            /\ Captured([Handler("mark", u) EXCEPT !.room = roomId[u]])
        BY <1>4, <3>2 DEF Captured, Handler, Task, Labels, MaybeRoom, HasCode, HasRoom
      <4>. QED  BY <2>4, <3>2, <4>1, TasksGrow DEF RequestLeave, Lose
    <3>. QED  BY <3>1, <3>2
  <2>5. ASSUME NEW r \in RoomIds, GraceTimeout(u, r) PROVE TasksOK'
    <3>1. Captured([Handler("check", u) EXCEPT !.room = r])
      BY DEF Captured, Handler, Task, Labels, MaybeRoom, HasCode, HasRoom
    <3>. QED  BY <2>5, <3>1, TasksGrow DEF GraceTimeout
  <2>. QED  BY <2>1, <2>2, <2>3, <2>4, <2>5
<1>6. HeldOK'
  <2>1. tasks \subseteq tasks' /\ Existing' = Existing
    BY <1>1 DEF Existing, Exists, RequestCreate, RequestSettings, RequestJoin, Reconnect,
       RequestLeave, Lose, RequestList, GraceTimeout, Spawn
  <2>. QED  BY <1>1, <2>1, HeldStays DEF HeldOK
<1>. QED  BY <1>1, <1>2, <1>3, <1>5, <1>6

\* What the mutations make of a room.
LEMMA Mutations ==
    ASSUME NEW room, SoundRoom(room), NEW u \in Users, NEW heir \in Users,
           NEW private \in BOOLEAN
    PROVE  /\ SoundRoom(Admitted(room, u)) /\ SoundRoom(Without(room, u, heir))
           /\ SoundRoom(Missed(room, u)) /\ SoundRoom(Listed(room, private))
<1>1. SoundRoom(Admitted(room, u))
  BY DEF SoundRoom, Room, Admitted
<1>2. SoundRoom(Without(room, u, heir))
  BY DEF SoundRoom, Room, Without
<1>3. SoundRoom(Missed(room, u))
  BY DEF SoundRoom, Room, Missed
<1>4. SoundRoom(Listed(room, private))
  BY DEF SoundRoom, Room, Listed
<1>. QED  BY <1>1, <1>2, <1>3, <1>4

\* Writing a sound room leaves sound rooms.
LEMMA RoomWritten ==
    ASSUME RoomsOK, NEW r, NEW room, SoundRoom(room), rooms' = [rooms EXCEPT ![r] = room]
    PROVE  RoomsOK'
BY NoneIsNoRoom DEF RoomsOK, SoundRoom, Exists, Existing

\* What a room that is there looks like.
LEMMA RoomFound == ASSUME RoomsOK, NEW r \in RoomIds, Exists(r) PROVE SoundRoom(rooms[r])
BY DEF RoomsOK, SoundRoom, Exists, Existing

\* A mutation writes its room, or drops the deleted record that it holds and does not write,
\* or leaves the records as they are, and then it holds none.
Mutation(t) == Join(t) \/ Mark(t) \/ ChangeSettings(t) \/ \E heir \in Users : Remove(t, heir)

MadeOf(t, room) ==
    /\ SoundRoom(room) /\ room.code = rooms[t.room].code
    /\ room.host = rooms[t.room].host \/ rooms[t.room].host = t.user
    /\ t.at # "settings" => room.private = rooms[t.room].private

LEMMA MutationWrites ==
    ASSUME TypeInv, NEW t \in tasks, Mutation(t)
    PROVE  /\ t.room \in RoomIds /\ t.at \in Mutating
           /\ \/ \E room : Exists(t.room) /\ Write(t.room, room) /\ MadeOf(t, room)
              \/ holder[t.room] = t /\ t.room \in revived /\ Erase(t.room)
              \/ holder[t.room] # t /\ UNCHANGED Records
<1>1. Captured(t) /\ RoomsOK /\ t.at \in Mutating
  BY DEF TypeInv, TasksOK, Mutation, Mutating, Join, Mark, ChangeSettings, Remove
<1>2. t.room \in RoomIds /\ t.user \in Users /\ t.private \in BOOLEAN /\ t # None
  BY <1>1, NoneIsNoTask DEF Captured, Mutating, HasRoom, Task
<1>3. holder[t.room] = t => t.room \in revived /\ Exists(t.room)
  BY <1>2 DEF TypeInv, HeldOK, Existing
<1>. DEFINE Written == \E room : Exists(t.room) /\ Write(t.room, room) /\ MadeOf(t, room)
<1>4. ASSUME Exists(t.room), NEW room, Write(t.room, room),
             \/ room = Admitted(rooms[t.room], t.user)
             \/ room = Missed(rooms[t.room], t.user)
             \/ room = Listed(rooms[t.room], t.private) /\ t.at = "settings"
             \/ \E heir \in Users : room = Without(rooms[t.room], t.user, heir)
      PROVE  Written
  <2>1. SoundRoom(rooms[t.room])
    BY <1>1, <1>2, <1>4, RoomFound
  <2>2. SoundRoom(room)
    BY <1>2, <1>4, <2>1, Mutations
  <2>3. MadeOf(t, room)
    BY <1>4, <2>1, <2>2 DEF MadeOf, SoundRoom, Room, Admitted, Missed, Listed, Without
  <2>. QED  BY <1>4, <2>3
<1>5. Written \/ NoWrite(t) \/ (~Exists(t.room) /\ UNCHANGED Records)
  <2>. HIDE DEF Written
  <2>1. CASE Join(t)
    BY <1>4, <2>1 DEF Join
  <2>2. CASE Mark(t)
    BY <1>4, <2>2 DEF Mark
  <2>3. CASE ChangeSettings(t)
    BY <1>4, <2>3 DEF ChangeSettings
  <2>4. ASSUME NEW heir \in Users, Remove(t, heir)
        PROVE  Written \/ (~Exists(t.room) /\ UNCHANGED Records)
    BY <1>4, <2>4 DEF Remove
  <2>. QED  BY <2>1, <2>2, <2>3, <2>4 DEF Mutation
<1>. HIDE DEF Written
<1>6. Written \/ (holder[t.room] = t /\ Erase(t.room)) \/ (holder[t.room] # t /\ UNCHANGED Records)
  BY <1>3, <1>5 DEF NoWrite
<1>. QED  BY <1>1, <1>2, <1>3, <1>6 DEF Written

\* The records that are held stay so, but for the one that the mutation has read.
LEMMA MutationHolds ==
    ASSUME TypeInv, NEW t \in tasks, Mutation(t), tasks \ {t} \subseteq tasks'
    PROVE  HeldOK'
<1>1. /\ t.room \in RoomIds /\ HeldOK /\ RoomsOK
      /\ \A r \in RoomIds : r # t.room => holder[r] \in tasks' \cup {None}
  BY MutationWrites, NoneIsNoTask DEF TypeInv, HeldOK, TasksOK, Captured
<1>2. ASSUME NEW room, Exists(t.room), Write(t.room, room), SoundRoom(room) PROVE HeldOK'
  <2>1. Existing' = Existing
    BY <1>1, <1>2, NoneIsNoRoom DEF Write, RoomsOK, Existing, Exists, SoundRoom
  <2>. QED  BY <1>1, <1>2, <2>1 DEF Write, HeldOK
<1>3. CASE Erase(t.room)
  <2>1. Existing \ {t.room} \subseteq Existing'
    BY <1>1, <1>3 DEF Erase, RoomsOK, Existing, Exists
  <2>. QED  BY <1>1, <1>3, <2>1 DEF Erase, HeldOK
<1>4. CASE holder[t.room] # t /\ UNCHANGED Records
  <2>1. Existing' = Existing /\ holder[t.room] \in tasks' \cup {None}
    BY <1>1, <1>4 DEF Existing, Exists, HeldOK
  <2>. QED  BY <1>1, <1>4, <2>1, HeldStays
<1>. QED  BY <1>2, <1>3, <1>4, MutationWrites DEF MadeOf

\* deleteRoom leaves no record, unless a mutation holds it.
LEMMA DeleteHolds ==
    ASSUME TypeInv, NEW t \in tasks, Delete(t)
    PROVE  HeldOK' /\ RoomsOK'
<1>1. /\ t.room \in RoomIds /\ HeldOK /\ RoomsOK /\ t.at \notin Mutating
      /\ tasks \ {t} \subseteq tasks'
      /\ \A r \in RoomIds : holder[r] \in tasks' \cup {None}
  BY NoneIsNoTask
     DEF TypeInv, HeldOK, TasksOK, Captured, HasRoom, Delete, Mutating, Becomes, Finish
<1>2. CASE Erase(t.room)
  <2>1. Existing' = Existing \ {t.room} /\ RoomsOK'
    BY <1>1, <1>2 DEF Erase, RoomsOK, Existing, Exists
  <2>. QED  BY <1>1, <1>2, <2>1 DEF Erase, HeldOK
<1>3. ASSUME NEW u \in tasks, u.at \in Mutating, u.room = t.room, Stored(t.room),
             holder' = [holder EXCEPT ![t.room] = u], revived' = revived \cup {t.room},
             UNCHANGED rooms
      PROVE  HeldOK' /\ RoomsOK'
  <2>1. Existing' = Existing /\ t.room \in Existing /\ u \in tasks' /\ RoomsOK'
    BY <1>1, <1>3 DEF Stored, Existing, Exists, RoomsOK
  <2>. QED  BY <1>1, <1>3, <2>1 DEF HeldOK
<1>4. CASE UNCHANGED Records
  <2>1. Existing' = Existing /\ RoomsOK'
    BY <1>1, <1>4 DEF Existing, Exists, RoomsOK
  <2>. QED  BY <1>1, <1>4, <2>1, HeldStays
<1>. QED  BY <1>2, <1>3, <1>4 DEF Delete

LEMMA DeleteLeaves ==
    ASSUME TypeInv, NEW t \in tasks, Delete(t)
    PROVE  /\ Existing' \subseteq Existing /\ Existing \ {t.room} \subseteq Existing'
           /\ \A r \in Existing' : rooms'[r] = rooms[r]
           /\ t.room \in Existing' => t.room \in revived'
           /\ revived \ {t.room} \subseteq revived' /\ revived' \subseteq revived \cup {t.room}
<1>1. t.room \in RoomIds /\ rooms \in [RoomIds -> Room \cup {None}] /\ HeldOK
  BY DEF TypeInv, RoomsOK, TasksOK, Captured, HasRoom, Delete
<1>2. CASE Erase(t.room)
  BY <1>1, <1>2 DEF Erase, Existing, Exists
<1>3. CASE ~Erase(t.room)
  <2>1. /\ UNCHANGED rooms
        /\ (revived' = revived /\ ~Stored(t.room)) \/ revived' = revived \cup {t.room}
    BY <1>3 DEF Delete
  <2>2. Existing' = Existing
    BY <2>1 DEF Existing, Exists
  <2>. QED  BY <1>1, <2>1, <2>2 DEF Stored, Existing, HeldOK
<1>. QED  BY <1>2, <1>3

\* The command a handler waits for writes what the handler has captured.
LEMMA StepTypes ==
    ASSUME TypeInv, NEW t \in tasks, Step(t)
    PROVE  TypeInv'
<1>. USE DEF TypeInv, Keys, Sockets, History
<1>1. Captured(t)
  BY DEF TasksOK
<1>2. HistoryOK'
  <2>1. CASE UNCHANGED History
    BY <2>1 DEF HistoryOK
  <2>2. ASSUME NEW r \in RoomIds, StoreRoom(t, r) PROVE HistoryOK'
    BY <2>2 DEF HistoryOK, StoreRoom
  <2>. QED  BY <2>1, <2>2 DEF Step, DrawCode, TestCode, Register, FindRoom, Resume, Join,
       BindSession, BindToRoom, Remove, Unregister, Delete, Forget, Unbind, Mark, Check,
       ChangeSettings, UpdateIndex, ReadMembers, ReadRooms, Prune
<1>3. UsersOK'
  <2>1. CASE UNCHANGED <<Sockets, page>>
    BY <2>1 DEF UsersOK
  <2>2. CASE BindToRoom(t)
    BY <1>1, <2>2 DEF UsersOK, BindToRoom, Captured, Task
  <2>3. CASE Unbind(t)
    BY <1>1, <2>3 DEF UsersOK, Unbind, Captured, Task, MaybeRoom
  <2>4. CASE Mark(t)
    BY <1>1, <2>4 DEF UsersOK, Mark, Captured, Task, HasRoom
  <2>. QED  BY <2>1, <2>2, <2>3, <2>4 DEF Step, DrawCode, TestCode, StoreRoom, Register,
       FindRoom, Resume, Join, BindSession, Remove, Unregister, Delete, Forget, Check,
       ChangeSettings, UpdateIndex, ReadMembers, ReadRooms, Prune
<1>4. KeysOK'
  <2>1. CASE UNCHANGED <<codeOf, public, session>>
    BY <2>1 DEF KeysOK
  <2>2. ASSUME NEW r \in RoomIds, StoreRoom(t, r) PROVE KeysOK'
    BY <2>2 DEF KeysOK, StoreRoom, MaybeRoom
  <2>3. CASE Register(t) \/ UpdateIndex(t) \/ Unregister(t) \/ Prune(t)
    BY <1>1, <2>3 DEF KeysOK, Register, UpdateIndex, Unregister, Prune, Captured, HasRoom
  <2>4. CASE BindSession(t) \/ Forget(t)
    BY <1>1, <2>4 DEF KeysOK, BindSession, Forget, Captured, Task, MaybeRoom
  <2>5. CASE Delete(t)
    BY <2>5 DEF KeysOK, Delete, CodesAfter, MaybeRoom
  <2>. QED  BY <2>1, <2>2, <2>3, <2>4, <2>5 DEF Step, DrawCode, TestCode, FindRoom, Resume,
       Join, BindToRoom, Remove, Unbind, Mark, Check, ChangeSettings, ReadMembers, ReadRooms
<1>5. RoomsOK'
  <2>1. CASE UNCHANGED rooms
    BY <2>1 DEF RoomsOK, Exists, Existing
  <2>2. ASSUME NEW r \in RoomIds, StoreRoom(t, r) PROVE RoomsOK'
    <3>. DEFINE room == [code |-> t.code, private |-> t.private, players |-> {t.user},
                         connected |-> {t.user}, host |-> t.user]
    <3>1. SoundRoom(room)
      BY <1>1, <2>2 DEF StoreRoom, Captured, Task, HasCode, SoundRoom, Room
    <3>2. rooms' = [rooms EXCEPT ![r] = room]
      BY <2>2 DEF StoreRoom
    <3>. HIDE DEF room
    <3>. QED  BY <3>1, <3>2, RoomWritten
  <2>3. CASE Mutation(t)
    <3>1. ASSUME NEW room, Write(t.room, room), SoundRoom(room) PROVE RoomsOK'
      BY <3>1, RoomWritten DEF Write
    <3>2. CASE Erase(t.room)
      BY <3>2 DEF Erase, RoomsOK, Existing, Exists
    <3>. QED  BY <2>1, <2>3, <3>1, <3>2, MutationWrites DEF MadeOf
  <2>4. CASE Delete(t)
    BY <2>4, DeleteHolds
  <2>. QED  BY <2>1, <2>2, <2>3, <2>4 DEF Step, Mutation, DrawCode, TestCode, Register,
       FindRoom, Resume, BindSession, BindToRoom, Unregister, Forget, Unbind, Check,
       UpdateIndex, ReadMembers, ReadRooms, Prune
<1>6. TasksOK'
  <2>1. ASSUME NEW u, Captured(u), Becomes(t, u) PROVE TasksOK'
    BY <2>1, TasksGrow
  <2>2. CASE Finish(t)
    BY <2>2, TasksEnd
  <2>. USE <1>1, <2>1, <2>2 DEF Captured, Task, Labels, HasCode, HasRoom, MaybeRoom
  <2>3. ASSUME NEW c \in Codes, DrawCode(t, c) PROVE TasksOK'
    BY <2>3 DEF DrawCode
  <2>4. ASSUME NEW r \in RoomIds, StoreRoom(t, r) PROVE TasksOK'
    BY <2>4 DEF StoreRoom
  <2>5. CASE TestCode(t) \/ Register(t) \/ BindSession(t) \/ BindToRoom(t)
    BY <2>5 DEF TestCode, Register, BindSession, BindToRoom, Goto
  <2>6. CASE FindRoom(t) \/ Resume(t)
    BY <2>6 DEF FindRoom, Resume, KeysOK
  <2>7. CASE Join(t) \/ Unregister(t) \/ Forget(t) \/ Unbind(t) \/ Mark(t) \/ Check(t)
    BY <2>7 DEF Join, Unregister, Forget, Unbind, Mark, Check, Goto
  <2>8. ASSUME NEW heir \in Users, Remove(t, heir) PROVE TasksOK'
    BY <2>8 DEF Remove, Goto, Exists, RoomsOK, Room
  <2>9. CASE Delete(t)
    BY <2>9 DEF Delete
  <2>10. CASE ChangeSettings(t) \/ UpdateIndex(t) \/ ReadMembers(t) \/ ReadRooms(t) \/ Prune(t)
    BY <2>10 DEF ChangeSettings, UpdateIndex, ReadMembers, ReadRooms, Prune, Goto, Stale, KeysOK
  <2>. QED  BY <2>3, <2>4, <2>5, <2>6, <2>7, <2>8, <2>9, <2>10 DEF Step
<1>7. HeldOK'
  <2>1. tasks \ {t} \subseteq tasks'
    BY DEF Step, DrawCode, TestCode, StoreRoom, Register, FindRoom, Resume, Join, BindSession,
       BindToRoom, Remove, Unregister, Delete, Forget, Unbind, Mark, Check, ChangeSettings,
       UpdateIndex, ReadMembers, ReadRooms, Prune, Goto, Becomes, Finish
  <2>2. CASE Mutation(t)
    BY <2>1, <2>2, MutationHolds
  <2>3. CASE Delete(t)
    BY <2>3, DeleteHolds
  <2>4. ASSUME t.at \notin Mutating, UNCHANGED <<holder, revived>>, Existing \subseteq Existing'
        PROVE  HeldOK'
    BY <1>1, <2>1, <2>4, HeldStays, NoneIsNoTask DEF HeldOK, Captured
  <2>5. ASSUME NEW r \in RoomIds, StoreRoom(t, r) PROVE HeldOK'
    <3>1. [code |-> t.code, private |-> t.private, players |-> {t.user},
           connected |-> {t.user}, host |-> t.user] # None
      BY <1>1, <2>5, NoneIsNoRoom DEF StoreRoom, Captured, Task, HasCode, Room
    <3>2. Existing \subseteq Existing'
      BY <2>5, <3>1 DEF StoreRoom, RoomsOK, Existing, Exists
    <3>. QED  BY <2>4, <2>5, <3>2 DEF StoreRoom, Mutating
  <2>6. CASE UNCHANGED Records /\ t.at \notin Mutating
    BY <2>4, <2>6 DEF Existing, Exists
  <2>. QED  BY <2>2, <2>3, <2>5, <2>6 DEF Step, Mutation, Mutating, DrawCode, TestCode, Register,
       FindRoom, Resume, BindSession, BindToRoom, Unregister, Forget, Unbind, Check,
       UpdateIndex, ReadMembers, ReadRooms, Prune
<1>. QED  BY <1>2, <1>3, <1>4, <1>5, <1>6, <1>7

\* The expiry of a code key.
LEMMA ExpiryTypes == ASSUME TypeInv, NEW r \in RoomIds, CodeExpires(r) PROVE TypeInv'
<1>. USE DEF TypeInv, CodeExpires
<1>1. RoomsOK' /\ UsersOK' /\ TasksOK' /\ HistoryOK'
  BY DEF RoomsOK, UsersOK, TasksOK, HistoryOK, Exists, Existing, Sockets
<1>2. KeysOK'
  BY DEF KeysOK, MaybeRoom
<1>3. HeldOK'
  BY HeldStays DEF HeldOK, Existing, Exists
<1>. QED  BY <1>1, <1>2, <1>3

LEMMA InitTypes == Init => TypeInv
<1>. SUFFICES ASSUME Init PROVE TypeInv
  OBVIOUS
<1>1. RoomsOK /\ KeysOK /\ TasksOK
  BY DEF Init, RoomsOK, KeysOK, TasksOK, Exists, Existing, MaybeRoom
<1>2. UsersOK /\ HistoryOK
  BY RoomDirectoryAssumption DEF Init, UsersOK, HistoryOK, MaybeRoom
<1>3. HeldOK
  BY DEF Init, HeldOK
<1>. QED  BY <1>1, <1>2, <1>3 DEF TypeInv

LEMMA NextTypes == TypeInv /\ [Next]_vars => TypeInv'
<1>. SUFFICES ASSUME TypeInv, [Next]_vars PROVE TypeInv'
  OBVIOUS
<1>1. CASE UNCHANGED vars
  BY <1>1 DEF vars, TypeInv, TasksOK, Captured, RoomsOK, KeysOK, UsersOK, HistoryOK, HeldOK,
              Exists, Existing
<1>2. CASE Next
  BY <1>2, StepTypes, RequestTypes, ExpiryTypes DEF Next
<1>. QED  BY <1>1, <1>2

\* The keys are well formed, whatever the bounds, and whether or not users are patient and
\* tidy and codes come up again (room.service.ts:57-75, 118-183).
THEOREM TypeCorrect == Spec => []TypeOK
<1>1. Spec => []TypeInv
  BY InitTypes, NextTypes, PTL DEF Spec
<1>. QED  BY <1>1, TypeInvImplies, PTL

-----------------------------------------------------------------------------
(***************************************************************************)
(* Codes.  That a code leads to its room rests on what a handler that has  *)
(* tested a code, or is about to delete one, may rely on: nobody else has  *)
(* to do with that code.                                                   *)
(***************************************************************************)
NoCode == \A t \in tasks : t.code # None => t.at \in HasCode

Fresh(t) == /\ \A r \in Existing : rooms[r].code # t.code
            /\ \A u \in tasks : u # t /\ u.code = t.code => u.at = "find"

FreshCodes == \A t \in tasks : t.at \in {"exists", "store"} => Fresh(t)

Deleting(t) == t.room \in made /\ \A r \in Existing : rooms[r].code = t.code <=> r = t.room

Deletions == \A t \in tasks : t.at \in {"unregister", "delete"} => Deleting(t)

OneRoomPerCode == \A r, q \in Existing : rooms[r].code = rooms[q].code => r = q

CodeInv == /\ Existing \subseteq made
           /\ NoCode /\ FreshCodes /\ Deletions /\ OneRoomPerCode /\ CodeLeadsThere

\* No room comes or goes, and each keeps its code.
SameRooms ==
    \A r \in RoomIds : /\ Exists(r) <=> Exists(r)'
                       /\ Exists(r) => rooms'[r].code = rooms[r].code

\* A handler that starts or goes on does not meddle with codes.
Harmless(u) == u.at = "find" \/ (u.code = None /\ u.at \notin HasCode)

LEMMA QuietCodes ==
    ASSUME TypeInv, CodeInv, SameRooms, UNCHANGED <<revived, codeOf, made, expired>>,
           \A u \in tasks' : u \in tasks \/ Harmless(u)
    PROVE  CodeInv'
<1>1. \A r \in RoomIds : r \in Existing' <=> r \in Existing
  BY DEF SameRooms, Existing, Exists
<1>2. \A r \in Existing : rooms'[r].code = rooms[r].code
  BY DEF SameRooms, Existing, Exists
<1>3. Existing' = Existing
  BY <1>1 DEF Existing
<1>4. NoCode' /\ (Existing \subseteq made)' /\ OneRoomPerCode'
  BY <1>2, <1>3 DEF CodeInv, NoCode, Harmless, HasCode, OneRoomPerCode
<1>5. ASSUME NEW t \in tasks', t.at \in {"exists", "store"} PROVE Fresh(t)'
  <2>1. t \in tasks /\ Fresh(t) /\ t.code # None
    BY <1>5, RoomDirectoryAssumption
       DEF CodeInv, FreshCodes, Harmless, HasCode, TypeInv, TasksOK, Captured
  <2>. QED  BY <1>2, <1>3, <2>1 DEF Fresh, Harmless
<1>6. ASSUME NEW t \in tasks', t.at \in {"unregister", "delete"} PROVE Deleting(t)'
  <2>1. t \in tasks /\ Deleting(t)
    BY <1>6 DEF CodeInv, Deletions, Harmless, HasCode
  <2>. QED  BY <1>2, <1>3, <2>1 DEF Deleting
<1>7. CodeLeadsThere'
  <2>1. \A c \in Codes : codeOf[c] # None =>
           codeOf[c] \in Existing \ revived /\ rooms[codeOf[c]].code = c
    BY DEF CodeInv, CodeLeadsThere, Existing, TypeInv, KeysOK, MaybeRoom
  <2>2. \A c \in Codes : codeOf[c] # None => Exists(codeOf[c])' /\ rooms'[codeOf[c]].code = c
    BY <1>2, <1>3, <2>1 DEF Existing
  <2>3. \A r \in Existing \ (expired \cup revived) : codeOf[rooms[r].code] = r
    BY DEF CodeInv, CodeLeadsThere
  <2>. QED  BY <1>2, <1>3, <2>1, <2>2, <2>3 DEF CodeLeadsThere
<1>. QED  BY <1>4, <1>5, <1>6, <1>7 DEF CodeInv, FreshCodes, Deletions

AddsHarmless == \A u \in tasks' : u \in tasks \/ Harmless(u)

LEMMA HarmlessAdded ==
    ASSUME NEW u, Harmless(u), Spawn(u) \/ \E t : Becomes(t, u) PROVE AddsHarmless
BY DEF AddsHarmless, Spawn, Becomes

LEMMA NothingAdded == ASSUME UNCHANGED tasks \/ \E t : Finish(t) PROVE AddsHarmless
BY DEF AddsHarmless, Finish

\* A handler that goes on, with its code spent or none to spend.
LEMMA HarmlessSteps ==
    ASSUME NEW t \in Task, NEW label \in Labels \ HasCode, NEW r, NEW ids
    PROVE  /\ t.code = None => Harmless([t EXCEPT !.at = label])
           /\ t.code = None => Harmless([t EXCEPT !.at = label, !.room = r])
           /\ t.code = None => Harmless([t EXCEPT !.at = label, !.ids = ids])
           /\ Harmless([t EXCEPT !.at = label, !.code = None])
           /\ Harmless([t EXCEPT !.at = label, !.room = r, !.code = None])
BY DEF Harmless, Task

\* Creating a room: its code is tested, and nobody else takes it meanwhile.
LEMMA DrawCodeKeeps ==
    ASSUME TypeInv, CodeInv, Collide = FALSE, NEW t \in tasks, NEW c \in Codes, DrawCode(t, c)
    PROVE  CodeInv'
<1>. DEFINE u == [t EXCEPT !.at = "exists", !.code = c]
<1>1. /\ t \in Task /\ u.at = "exists" /\ u.code = c
      /\ tasks' = (tasks \ {t}) \cup {u}
      /\ UNCHANGED <<rooms, revived, codeOf, made, expired>>
  BY DEF TypeInv, TasksOK, Captured, Task, DrawCode, Becomes, Keys, History
<1>2. /\ \A r \in Existing : rooms[r].code # c
      /\ \A v \in tasks : v.code # c
  BY DEF DrawCode
<1>. HIDE DEF u
<1>3. /\ Existing' = Existing /\ OneRoomPerCode' /\ CodeLeadsThere'
      /\ \A v : Deleting(v) => Deleting(v)'
  BY <1>1 DEF Existing, Exists, CodeInv, OneRoomPerCode, CodeLeadsThere, Deleting
<1>4. Fresh(u)'
  BY <1>1, <1>2, <1>3 DEF Fresh
<1>5. ASSUME NEW v \in tasks', v # u, v.at \in {"exists", "store"} PROVE Fresh(v)'
  <2>1. v \in tasks /\ Fresh(v) /\ v.code # c
    BY <1>1, <1>2, <1>5 DEF CodeInv, FreshCodes
  <2>. QED  BY <1>1, <1>3, <2>1 DEF Fresh
<1>6. NoCode' /\ Deletions'
  BY <1>1, <1>3 DEF CodeInv, NoCode, Deletions, HasCode
<1>. QED  BY <1>1, <1>3, <1>4, <1>5, <1>6 DEF CodeInv, FreshCodes

LEMMA TestCodeKeeps ==
    ASSUME TypeInv, CodeInv, NEW t \in tasks, TestCode(t) PROVE CodeInv'
<1>1. t \in Task /\ t.at = "exists" /\ Fresh(t) /\ t.code # None
  BY RoomDirectoryAssumption
     DEF TypeInv, TasksOK, Captured, TestCode, CodeInv, FreshCodes, HasCode
<1>2. UNCHANGED <<rooms, revived, codeOf, made, expired>> /\ SameRooms
  BY DEF TestCode, Keys, History, SameRooms, Exists
<1>3. CASE Finish(t)
  BY <1>2, <1>3, QuietCodes DEF Finish
<1>4. CASE Goto(t, "store")
  <2>. DEFINE u == [t EXCEPT !.at = "store"]
  <2>1. u.at = "store" /\ u.code = t.code /\ tasks' = (tasks \ {t}) \cup {u}
    BY <1>1, <1>4 DEF Goto, Becomes, Task
  <2>. HIDE DEF u
  <2>2. /\ Existing' = Existing /\ OneRoomPerCode' /\ CodeLeadsThere'
        /\ \A v : Deleting(v) => Deleting(v)'
    BY <1>2 DEF Existing, Exists, CodeInv, OneRoomPerCode, CodeLeadsThere, Deleting
  <2>3. Fresh(u)'
    BY <1>1, <1>2, <2>1, <2>2 DEF Fresh
  <2>4. ASSUME NEW v \in tasks', v # u, v.at \in {"exists", "store"} PROVE Fresh(v)'
    <3>1. v \in tasks /\ Fresh(v) /\ v.code # t.code
      BY <1>1, <2>1, <2>4 DEF CodeInv, FreshCodes, Fresh
    <3>. QED  BY <1>2, <2>1, <2>2, <3>1 DEF Fresh
  <2>5. NoCode' /\ Deletions'
    BY <1>1, <2>1, <2>2 DEF CodeInv, NoCode, Deletions, HasCode
  <2>. QED  BY <1>2, <2>2, <2>3, <2>4, <2>5 DEF CodeInv, FreshCodes
<1>. QED  BY <1>3, <1>4 DEF TestCode

LEMMA StoreRoomKeeps ==
    ASSUME TypeInv, CodeInv, NEW t \in tasks, NEW q \in RoomIds, StoreRoom(t, q)
    PROVE  CodeInv'
<1>. DEFINE u == [t EXCEPT !.room = q, !.code = None,
                           !.at = IF t.private THEN "session" ELSE "register"]
<1>1. /\ t \in Task /\ t.at = "store" /\ Fresh(t) /\ t.code \in Codes /\ t.code # None
      /\ q \notin made /\ q # None
  BY RoomDirectoryAssumption
     DEF TypeInv, TasksOK, Captured, StoreRoom, CodeInv, FreshCodes, HasCode
<1>2. tasks' = (tasks \ {t}) \cup {u} /\ u.code = None /\ u.at \in {"session", "register"}
  BY <1>1 DEF StoreRoom, Becomes, Task
<1>. HIDE DEF u
<1>3. /\ made' = made \cup {q} /\ expired' = expired /\ revived' = revived
      /\ codeOf' = [codeOf EXCEPT ![t.code] = q]
  BY DEF StoreRoom
<1>4. /\ rooms' = [rooms EXCEPT ![q] = rooms'[q]] /\ rooms'[q] # None
      /\ rooms'[q].code = t.code /\ rooms \in [RoomIds -> Room \cup {None}]
  BY <1>1, NoneIsNoRoom DEF StoreRoom, TypeInv, RoomsOK, Room, Task
<1>5. q \notin Existing /\ Existing' = Existing \cup {q} /\ q \notin revived
  BY <1>1, <1>4 DEF CodeInv, Existing, Exists, TypeInv, HeldOK
<1>6. \A r \in Existing : rooms'[r] = rooms[r] /\ rooms[r].code # t.code
  BY <1>1, <1>4, <1>5 DEF Existing, Fresh
<1>7. (Existing \subseteq made)' /\ NoCode' /\ OneRoomPerCode'
  <2>1. (Existing \subseteq made)'
    BY <1>3, <1>5 DEF CodeInv
  <2>2. NoCode'
    BY <1>2 DEF CodeInv, NoCode
  <2>3. OneRoomPerCode'
    BY <1>4, <1>5, <1>6 DEF CodeInv, OneRoomPerCode
  <2>. QED  BY <2>1, <2>2, <2>3
<1>8. ASSUME NEW v \in tasks', v.at \in {"exists", "store"} PROVE Fresh(v)'
  <2>1. v \in tasks /\ Fresh(v) /\ v.code # None /\ v.code # t.code
    BY <1>1, <1>2, <1>8, RoomDirectoryAssumption
       DEF CodeInv, FreshCodes, Fresh, TypeInv, TasksOK, Captured, HasCode
  <2>. QED  BY <1>2, <1>4, <1>5, <1>6, <2>1 DEF Fresh
<1>9. ASSUME NEW v \in tasks', v.at \in {"unregister", "delete"} PROVE Deleting(v)'
  <2>1. v \in tasks /\ Deleting(v) /\ v.code # t.code
    BY <1>1, <1>2, <1>9 DEF CodeInv, Deletions, Fresh
  <2>. QED  BY <1>1, <1>3, <1>4, <1>5, <1>6, <2>1 DEF Deleting
<1>10. CodeLeadsThere'
  <2>1. codeOf \in [Codes -> MaybeRoom]
    BY DEF TypeInv, KeysOK
  <2>2. ASSUME NEW c \in Codes, codeOf'[c] # None
        PROVE  codeOf'[c] \in Existing' \ revived /\ rooms'[codeOf'[c]].code = c
    <3>1. CASE c = t.code
      BY <1>1, <1>3, <1>4, <1>5, <2>1, <3>1
    <3>2. CASE c # t.code
      <4>1. /\ codeOf'[c] = codeOf[c] /\ codeOf[c] \in Existing \ revived
            /\ rooms[codeOf[c]].code = c
        BY <1>3, <2>1, <2>2, <3>2 DEF CodeInv, CodeLeadsThere, Existing, MaybeRoom
      <4>. QED  BY <1>5, <1>6, <4>1 DEF Existing
    <3>. QED  BY <3>1, <3>2
  <2>3. ASSUME NEW r \in Existing' \ (expired \cup revived) PROVE codeOf'[rooms'[r].code] = r
    <3>1. CASE r = q
      BY <1>1, <1>3, <1>4, <2>1, <3>1
    <3>2. CASE r # q
      <4>1. /\ r \in Existing \ (expired \cup revived)
            /\ rooms[r].code # t.code /\ rooms'[r] = rooms[r]
        BY <1>5, <1>6, <2>3, <3>2
      <4>2. rooms[r].code \in Codes /\ codeOf[rooms[r].code] = r
        BY <4>1 DEF CodeInv, CodeLeadsThere, TypeInv, RoomsOK, Existing, Exists, Room
      <4>. QED  BY <1>3, <2>1, <4>1, <4>2
    <3>. QED  BY <3>1, <3>2
  <2>. QED  BY <1>3, <2>2, <2>3 DEF CodeLeadsThere, Existing
<1>. QED  BY <1>7, <1>8, <1>9, <1>10 DEF CodeInv, FreshCodes, Deletions

\* A mutation keeps the rooms and their codes.
LEMMA MutationsKeepCodes ==
    ASSUME TypeInv, NEW r \in RoomIds, NEW room, Exists(r), SoundRoom(room),
           room.code = rooms[r].code, rooms' = [rooms EXCEPT ![r] = room]
    PROVE  SameRooms
BY NoneIsNoRoom DEF TypeInv, RoomsOK, SoundRoom, SameRooms, Exists

\* Deleting a room: its code is its own, and its id does not come up again.
LEMMA RemoveKeeps ==
    ASSUME TypeInv, CodeInv, NEW t \in tasks, NEW heir \in Users, Remove(t, heir)
    PROVE  CodeInv'
<1>1. /\ t \in Task /\ t.at = "remove" /\ t.room \in RoomIds /\ t.code = None
      /\ UNCHANGED <<revived, codeOf, made, expired>>
  BY DEF TypeInv, TasksOK, Captured, Remove, Write, HasRoom, HasCode, CodeInv, NoCode, History
<1>2. SameRooms
  <2>1. CASE UNCHANGED rooms
    BY <2>1 DEF SameRooms, Exists
  <2>2. CASE Exists(t.room)
    <3>. DEFINE room == Without(rooms[t.room], t.user, heir)
    <3>1. SoundRoom(rooms[t.room]) /\ t.user \in Users
      BY <1>1, <2>2, RoomFound DEF TypeInv, Task
    <3>2. SoundRoom(room) /\ room.code = rooms[t.room].code
      BY <3>1, Mutations DEF Without, SoundRoom, Room
    <3>3. rooms' = [rooms EXCEPT ![t.room] = room]
      BY <2>2 DEF Remove, Write
    <3>. HIDE DEF room
    <3>. QED  BY <1>1, <2>2, <3>2, <3>3, MutationsKeepCodes
  <2>. QED  BY <2>1, <2>2 DEF Remove
<1>3. CASE Finish(t) \/ Goto(t, "forget")
  <2>1. \A u \in tasks' : u \in tasks \/ Harmless(u)
    BY <1>1, <1>3 DEF Finish, Goto, Becomes, Harmless, Task, HasCode
  <2>. QED  BY <1>1, <1>2, <2>1, QuietCodes
<1>4. CASE Exists(t.room) /\ Becomes(t, [t EXCEPT !.at = "unregister", !.code = rooms[t.room].code])
  <2>1. PICK u : /\ u.at = "unregister" /\ u.room = t.room /\ u.code = rooms[t.room].code
                 /\ tasks' = (tasks \ {t}) \cup {u}
    BY <1>1, <1>4 DEF Becomes, Task
  <2>2. /\ Existing' = Existing /\ t.room \in Existing
        /\ \A r \in Existing : rooms'[r].code = rooms[r].code
    BY <1>1, <1>2, <1>4 DEF SameRooms, Existing, Exists
  <2>3. /\ (Existing \subseteq made)' /\ OneRoomPerCode'
        /\ \A v : Deleting(v) => Deleting(v)'
    BY <1>1, <2>2 DEF CodeInv, OneRoomPerCode, Deleting
  <2>4. NoCode' /\ Deletions'
    <3>1. Deleting(u)'
      BY <1>1, <2>1, <2>2 DEF CodeInv, OneRoomPerCode, Deleting
    <3>. QED  BY <2>1, <2>3, <3>1 DEF CodeInv, NoCode, Deletions, HasCode
  <2>5. ASSUME NEW v \in tasks', v.at \in {"exists", "store"} PROVE Fresh(v)'
    <3>1. v \in tasks /\ Fresh(v) /\ u.code # v.code
      BY <2>1, <2>2, <2>5 DEF CodeInv, FreshCodes, Fresh
    <3>. QED  BY <2>1, <2>2, <3>1 DEF Fresh
  <2>6. CodeLeadsThere'
    <3>1. \A c \in Codes : codeOf[c] # None =>
             codeOf[c] \in Existing \ revived /\ rooms[codeOf[c]].code = c
      BY DEF CodeInv, CodeLeadsThere, Existing, TypeInv, KeysOK, MaybeRoom
    <3>2. \A c \in Codes : codeOf[c] # None =>
             codeOf[c] \in Existing' \ revived /\ rooms'[codeOf[c]].code = c
      BY <2>2, <3>1
    <3>3. \A r \in Existing \ (expired \cup revived) : codeOf[rooms[r].code] = r
      BY DEF CodeInv, CodeLeadsThere
    <3>. QED  BY <1>1, <2>2, <3>2, <3>3 DEF CodeLeadsThere, Existing
  <2>. QED  BY <2>3, <2>4, <2>5, <2>6 DEF CodeInv, FreshCodes
<1>. QED  BY <1>3, <1>4 DEF Remove

LEMMA UnregisterKeeps ==
    ASSUME TypeInv, CodeInv, NEW t \in tasks, Unregister(t) PROVE CodeInv'
<1>. DEFINE u == [t EXCEPT !.at = "delete"]
<1>1. /\ t \in Task /\ t.at = "unregister" /\ Deleting(t) /\ t.code # None
      /\ u.at = "delete" /\ u.room = t.room /\ u.code = t.code
      /\ tasks' = (tasks \ {t}) \cup {u}
      /\ UNCHANGED <<rooms, revived, codeOf, made, expired>>
  BY RoomDirectoryAssumption DEF TypeInv, TasksOK, Captured, Unregister, CodeInv, Deletions,
     HasCode, Task, Goto, Becomes, History
<1>. HIDE DEF u
<1>2. /\ Existing' = Existing /\ OneRoomPerCode' /\ CodeLeadsThere'
      /\ \A v : Deleting(v) => Deleting(v)'
  BY <1>1 DEF Existing, Exists, CodeInv, OneRoomPerCode, CodeLeadsThere, Deleting
<1>3. NoCode' /\ Deletions'
  <2>1. Deleting(u)'
    BY <1>1, <1>2 DEF Deleting
  <2>. QED  BY <1>1, <1>2, <2>1 DEF CodeInv, NoCode, Deletions, HasCode
<1>4. ASSUME NEW v \in tasks', v.at \in {"exists", "store"} PROVE Fresh(v)'
  <2>1. v \in tasks /\ Fresh(v) /\ v.code # t.code
    BY <1>1, <1>4 DEF CodeInv, FreshCodes, Fresh
  <2>. QED  BY <1>1, <1>2, <2>1 DEF Fresh
<1>. QED  BY <1>1, <1>2, <1>3, <1>4 DEF CodeInv, FreshCodes

\* Fewer rooms and fewer codes, and no new handler that relies on either.
LEMMA FewerRooms ==
    ASSUME TypeInv, CodeInv, NEW q \in RoomIds, rooms' = [rooms EXCEPT ![q] = None],
           UNCHANGED made, \A u \in tasks' : u \in tasks \/ Harmless(u)
    PROVE  /\ Existing' = Existing \ {q} /\ \A r \in Existing' : rooms'[r] = rooms[r]
           /\ (Existing \subseteq made)' /\ NoCode' /\ FreshCodes' /\ OneRoomPerCode'
           /\ \A t \in tasks' : t.at \in {"unregister", "delete"} => Deleting(t)
<1>1. Existing' = Existing \ {q} /\ \A r \in Existing' : rooms'[r] = rooms[r]
  BY DEF TypeInv, RoomsOK, Existing, Exists
<1>2. (Existing \subseteq made)' /\ NoCode' /\ OneRoomPerCode'
  BY <1>1 DEF CodeInv, NoCode, Harmless, HasCode, OneRoomPerCode
<1>3. ASSUME NEW t \in tasks', t.at \in {"exists", "store"} PROVE Fresh(t)'
  <2>1. t \in tasks /\ Fresh(t) /\ t.code # None
    BY <1>3, RoomDirectoryAssumption
       DEF CodeInv, FreshCodes, Harmless, HasCode, TypeInv, TasksOK, Captured
  <2>. QED  BY <1>1, <2>1 DEF Fresh, Harmless
<1>4. \A t \in tasks' : t.at \in {"unregister", "delete"} => Deleting(t)
  BY DEF CodeInv, Deletions, Harmless, HasCode
<1>. QED  BY <1>1, <1>2, <1>3, <1>4 DEF FreshCodes

\* A mutation that holds a deleted record drops it: no code leads there.
LEMMA ErasedCodes ==
    ASSUME TypeInv, CodeInv, NEW q \in revived, Erase(q), UNCHANGED <<codeOf, made, expired>>,
           \A u \in tasks' : u \in tasks \/ Harmless(u)
    PROVE  CodeInv'
<1>1. q \in RoomIds /\ q # None
  BY RoomDirectoryAssumption DEF TypeInv, HeldOK, Existing
<1>2. rooms' = [rooms EXCEPT ![q] = None] /\ revived' = revived \ {q}
  BY DEF Erase
<1>3. /\ Existing' = Existing \ {q} /\ \A r \in Existing' : rooms'[r] = rooms[r]
      /\ (Existing \subseteq made)' /\ NoCode' /\ FreshCodes' /\ OneRoomPerCode'
      /\ \A v \in tasks' : v.at \in {"unregister", "delete"} => Deleting(v)
  BY <1>1, <1>2, FewerRooms
<1>4. Deletions'
  BY <1>3 DEF Deletions, Deleting
<1>5. CodeLeadsThere'
  <2>1. \A c \in Codes : codeOf[c] # None =>
           codeOf[c] \in Existing \ revived /\ rooms[codeOf[c]].code = c
    BY DEF CodeInv, CodeLeadsThere, Existing, TypeInv, KeysOK, MaybeRoom
  <2>2. \A r \in Existing \ (expired \cup revived) : codeOf[rooms[r].code] = r
    BY DEF CodeInv, CodeLeadsThere
  <2>3. \A c \in Codes : codeOf[c] # None =>
           codeOf[c] \in Existing' \ revived' /\ rooms'[codeOf[c]].code = c
    BY <1>2, <1>3, <2>1
  <2>4. \A r \in Existing' \ (expired \cup revived') : codeOf[rooms'[r].code] = r
    BY <1>2, <1>3, <2>2
  <2>. QED  BY <2>3, <2>4 DEF CodeLeadsThere, Existing
<1>. QED  BY <1>3, <1>4, <1>5 DEF CodeInv

\* deleteRoom takes the code along, whether the record goes or is held.
LEMMA DeleteKeeps ==
    ASSUME TypeInv, CodeInv, NEW t \in tasks, Delete(t) PROVE CodeInv'
<1>1. /\ t \in Task /\ t.at = "delete" /\ t.room \in RoomIds /\ t.code \in Codes /\ Deleting(t)
      /\ codeOf' = [codeOf EXCEPT ![t.code] = None]
      /\ made' = made /\ expired' = expired
  BY DEF TypeInv, TasksOK, Captured, Delete, CodesAfter, HasCode, HasRoom, CodeInv, Deletions,
         History
<1>2. \A u \in tasks' : u \in tasks \/ Harmless(u)
  <2>1. Harmless([t EXCEPT !.at = "forget", !.code = None])
    BY <1>1, HarmlessSteps DEF Labels, HasCode
  <2>. QED  BY <2>1, HarmlessAdded, NothingAdded DEF Delete, AddsHarmless
<1>3. /\ Existing' \subseteq Existing /\ \A r \in Existing' : rooms'[r] = rooms[r]
      /\ t.room \in Existing' => t.room \in revived'
      /\ revived \ {t.room} \subseteq revived' /\ revived' \subseteq revived \cup {t.room}
      /\ Existing \ {t.room} \subseteq Existing'
  BY DeleteLeaves
<1>4. /\ (Existing \subseteq made)' /\ NoCode' /\ OneRoomPerCode'
      /\ \A v \in tasks' : v.at \in {"unregister", "delete"} => Deleting(v)
  BY <1>1, <1>2, <1>3 DEF CodeInv, NoCode, OneRoomPerCode, Deletions, Harmless, HasCode
<1>5. ASSUME NEW v \in tasks', v.at \in {"exists", "store"} PROVE Fresh(v)'
  <2>1. v \in tasks /\ Fresh(v) /\ v.code # None
    BY <1>2, <1>5, RoomDirectoryAssumption
       DEF CodeInv, FreshCodes, Harmless, HasCode, TypeInv, TasksOK, Captured
  <2>. QED  BY <1>2, <1>3, <2>1 DEF Fresh, Harmless
<1>6. Deletions'
  BY <1>1, <1>3, <1>4 DEF Deletions, Deleting
<1>7. CodeLeadsThere'
  <2>1. codeOf \in [Codes -> MaybeRoom]
    BY DEF TypeInv, KeysOK
  <2>2. ASSUME NEW c \in Codes, codeOf'[c] # None
        PROVE  codeOf'[c] \in Existing' \ revived' /\ rooms'[codeOf'[c]].code = c
    <3>1. /\ c # t.code /\ codeOf'[c] = codeOf[c]
          /\ codeOf[c] \in Existing \ revived /\ rooms[codeOf[c]].code = c
      BY <1>1, <2>1, <2>2 DEF CodeInv, CodeLeadsThere, Existing, MaybeRoom
    <3>2. codeOf[c] # t.room
      BY <1>1, <3>1 DEF Deleting
    <3>. QED  BY <1>3, <3>1, <3>2
  <2>3. ASSUME NEW r \in Existing' \ (expired \cup revived') PROVE codeOf'[rooms'[r].code] = r
    <3>1. r \in Existing \ (expired \cup revived) /\ r # t.room /\ rooms'[r] = rooms[r]
      BY <1>3, <2>3
    <3>2. rooms[r].code # t.code /\ rooms[r].code \in Codes /\ codeOf[rooms[r].code] = r
      BY <1>1, <3>1 DEF Deleting, CodeInv, CodeLeadsThere, TypeInv, RoomsOK, Existing, Exists, Room
    <3>. QED  BY <1>1, <2>1, <3>1, <3>2
  <2>. QED  BY <1>1, <2>2, <2>3 DEF CodeLeadsThere, Existing
<1>. QED  BY <1>4, <1>5, <1>6, <1>7 DEF CodeInv, FreshCodes

LEMMA ExpiryKeeps ==
    ASSUME TypeInv, CodeInv, NEW q \in RoomIds, CodeExpires(q) PROVE CodeInv'
<1>1. /\ q \in Existing /\ UNCHANGED <<rooms, revived, made, tasks>>
      /\ expired' = expired \cup {q}
      /\ codeOf' = [codeOf EXCEPT ![rooms[q].code] = None]
      /\ codeOf \in [Codes -> MaybeRoom]
      /\ \A r \in Existing : rooms[r].code \in Codes
  BY DEF CodeExpires, Stored, TypeInv, KeysOK, RoomsOK, Existing, Exists, Room
<1>2. /\ Existing' = Existing /\ NoCode' /\ FreshCodes' /\ Deletions' /\ OneRoomPerCode'
  BY <1>1 DEF Existing, Exists, CodeInv, NoCode, FreshCodes, Fresh, Deletions, Deleting,
              OneRoomPerCode
<1>3. CodeLeadsThere'
  <2>1. \A c \in Codes : codeOf'[c] # None => codeOf'[c] = codeOf[c]
    BY <1>1
  <2>2. ASSUME NEW c \in Codes, codeOf'[c] # None
        PROVE  codeOf'[c] \in Existing' \ revived /\ rooms'[codeOf'[c]].code = c
    BY <1>1, <1>2, <2>1, <2>2 DEF CodeInv, CodeLeadsThere, Existing, MaybeRoom
  <2>3. ASSUME NEW r \in Existing' \ (expired' \cup revived) PROVE codeOf'[rooms'[r].code] = r
    <3>1. r \in Existing \ (expired \cup revived) /\ r # q /\ rooms[r].code # rooms[q].code
      BY <1>1, <1>2, <2>3 DEF CodeInv, OneRoomPerCode
    <3>2. codeOf[rooms[r].code] = r
      BY <3>1 DEF CodeInv, CodeLeadsThere
    <3>. QED  BY <1>1, <3>1, <3>2
  <2>. QED  BY <1>1, <2>2, <2>3 DEF CodeLeadsThere, Existing
<1>. QED  BY <1>1, <1>2, <1>3 DEF CodeInv

\* Requests start handlers without a code, or with one to be looked up.
LEMMA RequestKeeps ==
    ASSUME TypeInv, CodeInv, NEW u \in Users,
           \/ \E private \in BOOLEAN : RequestCreate(u, private) \/ RequestSettings(u, private)
           \/ \E c \in Codes : RequestJoin(u, c)
           \/ Reconnect(u) \/ RequestLeave(u) \/ Lose(u) \/ RequestList(u)
           \/ \E r \in RoomIds : GraceTimeout(u, r)
    PROVE  CodeInv'
<1>1. UNCHANGED <<rooms, revived, codeOf, made, expired>> /\ SameRooms
  BY DEF RequestCreate, RequestSettings, RequestJoin, Reconnect, RequestLeave, Lose,
     RequestList, GraceTimeout, Keys, History, SameRooms, Exists
<1>2. \A v \in tasks' : v \in tasks \/ Harmless(v)
  <2>1. ASSUME NEW private \in BOOLEAN, NEW r
        PROVE  /\ Harmless([Handler("code", u) EXCEPT !.private = private])
               /\ Harmless([Handler("settings", u) EXCEPT !.room = r, !.private = private])
               /\ Harmless([Handler("remove", u) EXCEPT !.room = r, !.leaving = TRUE])
               /\ Harmless([Handler("mark", u) EXCEPT !.room = r])
               /\ Harmless([Handler("check", u) EXCEPT !.room = r])
               /\ Harmless(Handler("resume", u)) /\ Harmless(Handler("members", u))
    BY DEF Harmless, Handler, HasCode
  <2>2. ASSUME NEW c \in Codes PROVE Harmless([Handler("find", u) EXCEPT !.code = c])
    BY DEF Harmless, Handler
  <2>. QED  BY <2>1, <2>2, HarmlessAdded, NothingAdded DEF AddsHarmless, RequestCreate,
       RequestSettings, RequestJoin, Reconnect, RequestLeave, Lose, RequestList, GraceTimeout
<1>. QED  BY <1>1, <1>2, QuietCodes

\* The other steps of a handler write no code and carry none further.
PlainStep(t) == \/ Register(t) \/ FindRoom(t) \/ Resume(t) \/ Join(t) \/ BindSession(t)
                \/ BindToRoom(t) \/ Forget(t) \/ Unbind(t) \/ Mark(t) \/ Check(t)
                \/ ChangeSettings(t) \/ UpdateIndex(t) \/ ReadMembers(t) \/ ReadRooms(t)
                \/ Prune(t)

LEMMA PlainStepKeeps ==
    ASSUME TypeInv, CodeInv, NEW t \in tasks, PlainStep(t) PROVE CodeInv'
<1>1. Captured(t) /\ (t.at \notin HasCode => t.code = None)
  BY DEF TypeInv, TasksOK, CodeInv, NoCode
<1>2. UNCHANGED <<codeOf, made, expired>>
  BY DEF PlainStep, Register, FindRoom, Resume, Join, BindSession, BindToRoom, Forget, Unbind,
     Mark, Check, ChangeSettings, UpdateIndex, ReadMembers, ReadRooms, Prune, Keys, History
<1>3. \A u \in tasks' : u \in tasks \/ Harmless(u)
  <2>1. ASSUME NEW label \in Labels \ HasCode, NEW r, NEW ids
        PROVE  /\ t.at \notin HasCode =>
                     /\ Harmless([t EXCEPT !.at = label])
                     /\ Harmless([t EXCEPT !.at = label, !.room = r])
                     /\ Harmless([t EXCEPT !.at = label, !.ids = ids])
               /\ Harmless([t EXCEPT !.at = label, !.room = r, !.code = None])
    BY <1>1, HarmlessSteps DEF Captured
  <2>. USE <2>1, HarmlessAdded, NothingAdded DEF AddsHarmless, Goto, Labels, HasCode
  <2>2. CASE Register(t) \/ FindRoom(t) \/ Resume(t) \/ Join(t) \/ BindSession(t)
    BY <2>2 DEF Register, FindRoom, Resume, Join, BindSession
  <2>3. CASE BindToRoom(t) \/ Forget(t) \/ Unbind(t) \/ Mark(t) \/ Check(t)
    BY <2>3 DEF BindToRoom, Forget, Unbind, Mark, Check
  <2>4. CASE ChangeSettings(t) \/ UpdateIndex(t) \/ ReadMembers(t) \/ ReadRooms(t) \/ Prune(t)
    BY <2>4 DEF ChangeSettings, UpdateIndex, ReadMembers, ReadRooms, Prune
  <2>. QED  BY <2>2, <2>3, <2>4 DEF PlainStep
<1>4. CASE Mutation(t)
  <2>1. t.room \in RoomIds
    BY <1>4, MutationWrites
  <2>2. ASSUME NEW room, Exists(t.room), Write(t.room, room), MadeOf(t, room)
        PROVE  CodeInv'
    <3>1. SameRooms
      BY <2>1, <2>2, MutationsKeepCodes DEF Write, MadeOf
    <3>. QED  BY <1>2, <1>3, <2>2, <3>1, QuietCodes DEF Write
  <2>3. CASE t.room \in revived /\ Erase(t.room)
    BY <1>2, <1>3, <2>3, ErasedCodes
  <2>4. CASE UNCHANGED Records
    <3>1. SameRooms
      BY <2>4 DEF SameRooms, Exists
    <3>. QED  BY <1>2, <1>3, <2>4, <3>1, QuietCodes
  <2>. QED  BY <1>4, <2>2, <2>3, <2>4, MutationWrites
<1>5. CASE ~Mutation(t)
  <2>1. UNCHANGED Records
    BY <1>5 DEF Mutation, PlainStep, Register, FindRoom, Resume, BindSession, BindToRoom, Forget,
       Unbind, Check, UpdateIndex, ReadMembers, ReadRooms, Prune, Keys
  <2>2. SameRooms
    BY <2>1 DEF SameRooms, Exists
  <2>. QED  BY <1>2, <1>3, <2>1, <2>2, QuietCodes
<1>. QED  BY <1>4, <1>5

LEMMA CodesKeep == Collide = FALSE /\ TypeInv /\ CodeInv /\ [Next]_vars => CodeInv'
<1>. SUFFICES ASSUME Collide = FALSE, TypeInv, CodeInv, [Next]_vars PROVE CodeInv'
  OBVIOUS
<1>1. CASE UNCHANGED vars
  <2>1. SameRooms /\ \A u \in tasks' : u \in tasks
    BY <1>1 DEF vars, SameRooms, Exists
  <2>. QED  BY <1>1, <2>1, QuietCodes DEF vars
<1>2. ASSUME NEW t \in tasks, Step(t) PROVE CodeInv'
  BY <1>2, DrawCodeKeeps, TestCodeKeeps, StoreRoomKeeps, RemoveKeeps, UnregisterKeeps,
     DeleteKeeps, PlainStepKeeps DEF Step, PlainStep
<1>. QED  BY <1>1, <1>2, ExpiryKeeps, RequestKeeps DEF Next

LEMMA CodesBegin == Init => CodeInv
BY DEF Init, CodeInv, NoCode, FreshCodes, Deletions, OneRoomPerCode, CodeLeadsThere, Existing,
       Exists

\* A code leads to its room and to no other, and never to one that was deleted and written
\* again, as long as no code is drawn that is in use or about to be (room.store.ts:53-61,
\* 81-107; room.service.ts:82-86, 112-116).
THEOREM CodesLead == ASSUME Collide = FALSE PROVE Spec => []CodeLeadsThere
<1>1. Spec => []TypeInv
  BY InitTypes, NextTypes, PTL DEF Spec
<1>2. Init => CodeInv
  BY CodesBegin
<1>3. TypeInv /\ CodeInv /\ [Next]_vars => CodeInv'
  BY CodesKeep
<1>4. Spec => []CodeInv
  BY <1>1, <1>2, <1>3, PTL DEF Spec
<1>5. CodeInv => CodeLeadsThere
  BY DEF CodeInv
<1>. QED  BY <1>4, <1>5, PTL

-----------------------------------------------------------------------------
(***************************************************************************)
(* The public list.  The set is written after the record, by the handler   *)
(* of the host; while that is in flight nobody else changes the room's     *)
(* host or its privacy, provided that users wait for the end of their last *)
(* request.                                                                *)
(***************************************************************************)
Indexing == {"register", "index"}
Dooming == {"unregister", "delete"}

OneTask == \A t, v \in tasks :
              t.user = v.user /\ t.at \notin Listing /\ v.at \notin Listing => t = v

\* A handler about to write the set knows what it has to say of the room.
Managing(t) ==
    t.at \in Indexing =>
        /\ t.room \in made
        /\ t.at = "register" => ~t.private
        /\ t.room \in Existing =>
               rooms[t.room].host = t.user /\ (rooms[t.room].private <=> t.private)

\* A listing drops only rooms that are gone for good, or have been deleted.
Informed(t) == /\ t.at \in {"get", "prune"} => t.ids \subseteq made
               /\ t.at = "prune" => t.ids \cap Existing \subseteq revived

TasksKnow == \A t \in tasks : Managing(t) /\ Informed(t)

Pending(r, labels) == \E t \in tasks : t.at \in labels /\ t.room = r

Truthful(r) ==
    r \in public => ~rooms[r].private \/ Pending(r, Indexing \cup {"unregister"})
Visible(r) ==
    ~rooms[r].private => r \in public \cup revived \/ Pending(r, Indexing \cup Dooming)

Indexed == \A r \in Existing : Truthful(r) /\ Visible(r)

IndexInv == /\ Existing \subseteq made /\ public \subseteq made
            /\ OneTask /\ TasksKnow /\ Indexed

\* A handler that goes on or ends leaves its user with one task, and so does a request
\* of somebody who has none.
LEMMA OneTaskKept ==
    ASSUME OneTask, NEW t \in tasks, NEW u, u.user = t.user,
           t.at \in Listing => u.at \in Listing,
           Becomes(t, u) \/ Finish(t)
    PROVE  OneTask'
BY DEF OneTask, Becomes, Finish

LEMMA OneTaskSpawned ==
    ASSUME OneTask, NEW u, Spawn(u), u.at \in Listing \/ Calm(u.user)
    PROVE  OneTask'
BY DEF OneTask, Spawn, Calm

\* Steps that do not concern the set: the rooms that are still there are as public as
\* before, and those deleted are known to be.
SamePrivacy ==
    \A r \in Existing' : /\ r \in Existing /\ rooms'[r].private = rooms[r].private
                         /\ r \in revived => r \in revived'

LEMMA QuietIndex ==
    ASSUME TypeInv, IndexInv, SamePrivacy, UNCHANGED <<public, made>>, OneTask',
           \A v \in tasks : v.at \in Indexing \cup Dooming => v \in tasks',
           \A v \in tasks' : v \in tasks \/ (Informed(v) /\ v.at \notin Indexing),
           \A v \in tasks : v.at \in Indexing /\ v.room \in Existing' =>
                               rooms'[v.room].host = rooms[v.room].host
    PROVE  IndexInv'
<1>1. Existing' \subseteq Existing
  BY DEF SamePrivacy
<1>2. (Existing \subseteq made)' /\ (public \subseteq made)'
  BY <1>1 DEF IndexInv
<1>3. TasksKnow'
  <2>1. ASSUME NEW v \in tasks' PROVE Informed(v)'
    <3>1. Informed(v)
      BY <2>1 DEF IndexInv, TasksKnow
    <3>. QED  BY <3>1 DEF Informed, SamePrivacy
  <2>2. ASSUME NEW v \in tasks' PROVE Managing(v)'
    <3>1. CASE v \in tasks
      BY <1>1, <3>1 DEF IndexInv, TasksKnow, Managing, SamePrivacy
    <3>2. CASE v \notin tasks
      BY <3>2 DEF Managing
    <3>. QED  BY <3>1, <3>2
  <2>. QED  BY <2>1, <2>2 DEF TasksKnow
<1>4. Indexed'
  <2>1. ASSUME NEW r, NEW labels, labels \subseteq Indexing \cup Dooming, Pending(r, labels)
        PROVE  Pending(r, labels)'
    BY <2>1 DEF Pending
  <2>2. ASSUME NEW r \in Existing' PROVE Truthful(r)' /\ Visible(r)'
    <3>1. /\ Truthful(r) /\ Visible(r) /\ rooms'[r].private = rooms[r].private
          /\ r \in revived => r \in revived'
      BY <2>2 DEF IndexInv, Indexed, SamePrivacy
    <3>2. /\ Pending(r, Indexing \cup {"unregister"}) => Pending(r, Indexing \cup {"unregister"})'
          /\ Pending(r, Indexing \cup Dooming) => Pending(r, Indexing \cup Dooming)'
      BY <2>1 DEF Dooming
    <3>. QED  BY <3>1, <3>2 DEF Truthful, Visible
  <2>. QED  BY <2>2 DEF Indexed
<1>. QED  BY <1>2, <1>3, <1>4 DEF IndexInv

\* Steps that write the set and leave the rooms alone.
LEMMA IndexWritten ==
    ASSUME TypeInv, IndexInv, UNCHANGED <<rooms, revived, made>>, OneTask',
           (public \subseteq made)',
           \A v \in tasks' : v \in tasks \/ (v.at \notin Indexing \cup {"get", "prune"}),
           \A r \in Existing : Truthful(r)' /\ Visible(r)'
    PROVE  IndexInv'
<1>1. Existing' = Existing
  BY DEF Existing, Exists
<1>2. TasksKnow'
  BY <1>1 DEF IndexInv, TasksKnow, Managing, Informed
<1>3. Indexed'
  BY <1>1 DEF Indexed
<1>. QED  BY <1>1, <1>2, <1>3 DEF IndexInv

\* What is said of a room of which the set says the same, and whose writers go on.
LEMMA SameEntry ==
    ASSUME IndexInv, UNCHANGED <<rooms, revived>>, NEW r \in Existing,
           r \in public' <=> r \in public,
           \A t \in tasks : t.room = r /\ t.at \in Indexing \cup Dooming => t \in tasks'
    PROVE  Truthful(r)' /\ Visible(r)'
<1>1. Truthful(r) /\ Visible(r)
  BY DEF IndexInv, Indexed
<1>2. ASSUME NEW labels, labels \subseteq Indexing \cup Dooming, Pending(r, labels)
      PROVE  Pending(r, labels)'
  BY <1>2 DEF Pending
<1>3. /\ Pending(r, Indexing \cup {"unregister"}) => Pending(r, Indexing \cup {"unregister"})'
      /\ Pending(r, Indexing \cup Dooming) => Pending(r, Indexing \cup Dooming)'
  BY <1>2 DEF Dooming
<1>. QED  BY <1>1, <1>3 DEF Truthful, Visible

LEMMA WriteIndexKeeps ==
    ASSUME TypeInv, IndexInv, NEW t \in tasks, Register(t) \/ UpdateIndex(t)
    PROVE  IndexInv'
<1>. DEFINE u == [t EXCEPT !.at = "session"]
<1>1. /\ t \in Task /\ t.at \in Indexing /\ t.room \in made /\ Managing(t)
      /\ u.at = "session" /\ u.user = t.user /\ (Becomes(t, u) \/ Finish(t))
      /\ UNCHANGED <<rooms, revived, made>>
  BY DEF Register, UpdateIndex, TypeInv, TasksOK, Captured, Task, Indexing, IndexInv, TasksKnow,
         Managing, Goto, History
<1>. HIDE DEF u
<1>2. public' = IF t.private THEN public \ {t.room} ELSE public \cup {t.room}
  BY <1>1 DEF Register, UpdateIndex, Managing, Indexing
<1>3. OneTask'
  BY <1>1, OneTaskKept DEF IndexInv, Indexing, Listing
<1>4. \A v \in tasks' : v \in tasks \/ (v.at \notin Indexing \cup {"get", "prune"})
  BY <1>1 DEF Becomes, Finish, Indexing
<1>5. ASSUME NEW r \in Existing PROVE Truthful(r)' /\ Visible(r)'
  <2>1. CASE r = t.room
    <3>1. rooms'[r].private <=> t.private
      BY <1>1, <2>1 DEF Managing
    <3>2. r \in public' <=> ~t.private
      BY <1>2, <2>1
    <3>. QED  BY <3>1, <3>2 DEF Truthful, Visible
  <2>2. CASE r # t.room
    BY <1>1, <1>2, <2>2, SameEntry DEF Becomes, Finish
  <2>. QED  BY <2>1, <2>2
<1>6. (public \subseteq made)'
  BY <1>1, <1>2 DEF IndexInv
<1>. QED  BY <1>1, <1>3, <1>4, <1>5, <1>6, IndexWritten

LEMMA UnregisterLeavesIndex ==
    ASSUME TypeInv, IndexInv, NEW t \in tasks, Unregister(t) PROVE IndexInv'
<1>. DEFINE u == [t EXCEPT !.at = "delete"]
<1>1. /\ t \in Task /\ t.at = "unregister"
      /\ u.at = "delete" /\ u.user = t.user /\ u.room = t.room /\ Becomes(t, u)
      /\ UNCHANGED <<rooms, revived, made>> /\ public' = public \ {t.room}
  BY DEF Unregister, TypeInv, TasksOK, Captured, Task, Goto, History
<1>. HIDE DEF u
<1>2. OneTask'
  BY <1>1, OneTaskKept DEF IndexInv, Listing
<1>3. \A v \in tasks' : v \in tasks \/ (v.at \notin Indexing \cup {"get", "prune"})
  BY <1>1 DEF Becomes, Indexing
<1>4. ASSUME NEW r \in Existing PROVE Truthful(r)' /\ Visible(r)'
  <2>1. CASE r = t.room
    <3>1. Pending(r, Indexing \cup Dooming)' /\ r \notin public'
      BY <1>1, <2>1 DEF Pending, Becomes, Dooming
    <3>. QED  BY <3>1 DEF Truthful, Visible
  <2>2. CASE r # t.room
    BY <1>1, <2>2, SameEntry DEF Becomes
  <2>. QED  BY <2>1, <2>2
<1>. QED  BY <1>1, <1>2, <1>3, <1>4, IndexWritten DEF IndexInv

LEMMA PruneLeavesIndex ==
    ASSUME TypeInv, IndexInv, NEW t \in tasks, Prune(t) PROVE IndexInv'
<1>1. /\ t.at = "prune" /\ Informed(t) /\ Finish(t)
      /\ UNCHANGED <<rooms, revived, made>> /\ public' = public \ t.ids
  BY DEF Prune, History, IndexInv, TasksKnow
<1>2. OneTask'
  BY <1>1, OneTaskKept DEF IndexInv
<1>3. \A v \in tasks' : v \in tasks
  BY <1>1 DEF Finish
<1>4. ASSUME NEW r \in Existing PROVE Truthful(r)' /\ Visible(r)'
  <2>1. CASE r \in t.ids
    <3>1. r \notin public' /\ r \in revived'
      BY <1>1, <2>1 DEF Informed
    <3>. QED  BY <3>1 DEF Truthful, Visible
  <2>2. CASE r \notin t.ids
    BY <1>1, <2>2, SameEntry DEF Finish, Indexing, Dooming
  <2>. QED  BY <2>1, <2>2
<1>. QED  BY <1>1, <1>2, <1>3, <1>4, IndexWritten DEF IndexInv

LEMMA StoreRoomIndexes ==
    ASSUME TypeInv, IndexInv, NEW t \in tasks, NEW q \in RoomIds, StoreRoom(t, q)
    PROVE  IndexInv'
<1>. DEFINE u == [t EXCEPT !.room = q, !.code = None,
                           !.at = IF t.private THEN "session" ELSE "register"]
<1>1. /\ t \in Task /\ t.at = "store" /\ q \notin made /\ q # None
  BY RoomDirectoryAssumption DEF TypeInv, TasksOK, Captured, StoreRoom
<1>2. /\ u.user = t.user /\ u.room = q /\ u.private = t.private
      /\ u.at \in {"session", "register"} /\ (u.at = "register" <=> ~t.private)
  BY <1>1 DEF Task
<1>3. Becomes(t, u)
  BY DEF StoreRoom
<1>. HIDE DEF u
<1>4. made' = made \cup {q} /\ public' = public /\ revived' = revived
  BY DEF StoreRoom
<1>5. /\ rooms' = [rooms EXCEPT ![q] = rooms'[q]] /\ rooms'[q] # None
      /\ rooms'[q].host = t.user /\ rooms'[q].private = t.private
      /\ rooms \in [RoomIds -> Room \cup {None}]
  <2>. DEFINE room == [code |-> t.code, private |-> t.private, players |-> {t.user},
                       connected |-> {t.user}, host |-> t.user]
  <2>1. rooms \in [RoomIds -> Room \cup {None}] /\ Captured(t)
    BY DEF TypeInv, RoomsOK, TasksOK
  <2>2. room \in Room
    BY <1>1, <2>1 DEF Captured, HasCode, Task, Room
  <2>3. room.host = t.user /\ room.private = t.private
    OBVIOUS
  <2>4. rooms' = [rooms EXCEPT ![q] = room]
    BY DEF StoreRoom
  <2>. HIDE DEF room
  <2>. QED  BY <2>1, <2>2, <2>3, <2>4, NoneIsNoRoom
<1>6. q \notin Existing /\ Existing' = Existing \cup {q}
  BY <1>1, <1>5 DEF IndexInv, Existing, Exists
<1>7. \A r \in Existing : rooms'[r] = rooms[r]
  BY <1>1, <1>5, <1>6 DEF Existing
<1>8. (Existing \subseteq made)' /\ (public \subseteq made)'
  BY <1>4, <1>6 DEF IndexInv
<1>9. OneTask'
  BY <1>1, <1>2, <1>3, OneTaskKept DEF IndexInv, Listing
<1>10. TasksKnow'
  <2>1. ASSUME NEW v \in tasks', v # u PROVE Managing(v)' /\ Informed(v)'
    <3>1. v \in tasks /\ Managing(v) /\ Informed(v)
      BY <1>3, <2>1 DEF Becomes, IndexInv, TasksKnow
    <3>2. Managing(v)'
      BY <1>1, <1>4, <1>6, <1>7, <3>1 DEF Managing
    <3>3. Informed(v)'
      BY <1>1, <1>4, <1>6, <3>1 DEF Informed
    <3>. QED  BY <3>2, <3>3
  <2>2. Managing(u)' /\ Informed(u)'
    BY <1>2, <1>4, <1>5 DEF Managing, Informed, Indexing
  <2>. QED  BY <2>1, <2>2 DEF TasksKnow
<1>11. Indexed'
  <2>1. ASSUME NEW r \in Existing PROVE Truthful(r)' /\ Visible(r)'
    <3>1. Truthful(r) /\ Visible(r) /\ rooms'[r] = rooms[r]
      BY <1>7 DEF IndexInv, Indexed
    <3>2. /\ Pending(r, Indexing \cup {"unregister"}) => Pending(r, Indexing \cup {"unregister"})'
          /\ Pending(r, Indexing \cup Dooming) => Pending(r, Indexing \cup Dooming)'
      BY <1>1, <1>3 DEF Pending, Becomes, Indexing, Dooming
    <3>. QED  BY <1>4, <3>1, <3>2 DEF Truthful, Visible
  <2>2. Truthful(q)' /\ Visible(q)'
    <3>1. q \notin public' /\ (~t.private => Pending(q, Indexing \cup Dooming)')
      BY <1>1, <1>2, <1>3, <1>4 DEF IndexInv, Pending, Becomes, Indexing
    <3>. QED  BY <1>5, <3>1 DEF Truthful, Visible
  <2>. QED  BY <1>6, <2>1, <2>2 DEF Indexed
<1>. QED  BY <1>8, <1>9, <1>10, <1>11 DEF IndexInv

LEMMA DeleteLeavesIndex ==
    ASSUME TypeInv, IndexInv, NEW t \in tasks, Delete(t) PROVE IndexInv'
<1>1. t \in Task /\ t.at = "delete" /\ made' = made /\ public' = public
  BY DEF Delete, TypeInv, TasksOK, Captured, History
<1>2. PICK u : u.at = "forget" /\ u.user = t.user /\ (Becomes(t, u) \/ Finish(t))
  <2>1. /\ [t EXCEPT !.at = "forget", !.code = None].at = "forget"
        /\ [t EXCEPT !.at = "forget", !.code = None].user = t.user
    BY <1>1 DEF Task
  <2>. QED  BY <2>1 DEF Delete
<1>3. /\ Existing' \subseteq Existing /\ \A r \in Existing' : rooms'[r] = rooms[r]
      /\ t.room \in Existing' => t.room \in revived'
      /\ revived \ {t.room} \subseteq revived'
  BY DeleteLeaves
<1>4. OneTask'
  BY <1>1, <1>2, OneTaskKept DEF IndexInv, Listing
<1>5. TasksKnow'
  <2>1. ASSUME NEW v \in tasks' PROVE Managing(v)' /\ Informed(v)'
    <3>1. CASE v \in tasks
      <4>1. Managing(v)'
        BY <1>1, <1>3, <3>1 DEF IndexInv, TasksKnow, Managing
      <4>2. Informed(v)'
        BY <1>1, <1>3, <3>1 DEF IndexInv, TasksKnow, Informed
      <4>. QED  BY <4>1, <4>2
    <3>2. CASE v = u
      BY <1>2, <3>2 DEF Managing, Informed, Indexing
    <3>. QED  BY <1>2, <3>1, <3>2 DEF Becomes, Finish
  <2>. QED  BY <2>1 DEF TasksKnow
<1>6. ASSUME NEW r \in Existing' PROVE Truthful(r)' /\ Visible(r)'
  <2>1. Truthful(r) /\ Visible(r) /\ rooms'[r] = rooms[r] /\ (r \in revived => r \in revived')
    BY <1>3, <1>6 DEF IndexInv, Indexed
  <2>2. Pending(r, Indexing \cup {"unregister"}) => Pending(r, Indexing \cup {"unregister"})'
    BY <1>1, <1>2 DEF Pending, Becomes, Finish, Indexing
  <2>3. r \in revived' \/ (Pending(r, Indexing \cup Dooming) => Pending(r, Indexing \cup Dooming)')
    BY <1>2, <1>3, <1>6 DEF Pending, Becomes, Finish
  <2>. QED  BY <1>1, <2>1, <2>2, <2>3 DEF Truthful, Visible
<1>. QED  BY <1>1, <1>3, <1>4, <1>5, <1>6 DEF IndexInv, Indexed

LEMMA ChangeSettingsIndexes ==
    ASSUME TypeInv, IndexInv, NEW t \in tasks, ChangeSettings(t),
           Exists(t.room), rooms[t.room].host = t.user
    PROVE  IndexInv'
<1>. DEFINE u == [t EXCEPT !.at = "index"]
<1>1. /\ t \in Task /\ t.at = "settings" /\ t.room \in RoomIds /\ Exists(t.room)
      /\ rooms[t.room].host = t.user
      /\ rooms' = [rooms EXCEPT ![t.room] = Listed(rooms[t.room], t.private)]
      /\ UNCHANGED <<made, public, revived>> /\ Becomes(t, u)
      /\ SoundRoom(rooms[t.room]) /\ SoundRoom(Listed(rooms[t.room], t.private))
  <2>1. t \in Task /\ t.at = "settings" /\ t.room \in RoomIds /\ Exists(t.room)
    BY DEF ChangeSettings, TypeInv, TasksOK, Captured, HasRoom
  <2>2. SoundRoom(rooms[t.room]) /\ t.user \in Users /\ t.private \in BOOLEAN
    BY <2>1, RoomFound DEF TypeInv, Task
  <2>3. SoundRoom(Listed(rooms[t.room], t.private))
    BY <2>2, Mutations
  <2>. QED  BY <2>1, <2>2, <2>3 DEF ChangeSettings, Write, Goto, History
<1>2. u.at = "index" /\ u.user = t.user /\ u.room = t.room /\ u.private = t.private
  BY <1>1 DEF Task
<1>. HIDE DEF u
<1>3. /\ rooms'[t.room].host = t.user /\ (rooms'[t.room].private <=> t.private)
      /\ \A r \in Existing : r # t.room => rooms'[r] = rooms[r]
      /\ Existing' = Existing /\ t.room \in Existing
  BY <1>1, NoneIsNoRoom DEF Listed, SoundRoom, Room, TypeInv, RoomsOK, Existing, Exists
<1>4. OneTask'
  BY <1>1, <1>2, OneTaskKept DEF IndexInv, Listing
<1>5. TasksKnow'
  <2>1. ASSUME NEW v \in tasks', v # u PROVE Managing(v)' /\ Informed(v)'
    <3>1. v \in tasks /\ v # t /\ Managing(v) /\ Informed(v)
      BY <1>1, <1>2, <2>1 DEF Becomes, IndexInv, TasksKnow
    <3>2. v.at \in Indexing => v.room # t.room
      BY <1>1, <1>3, <3>1 DEF IndexInv, OneTask, Managing, Indexing, Listing
    <3>3. Managing(v)'
      BY <1>1, <1>3, <3>1, <3>2 DEF Managing
    <3>4. Informed(v)'
      BY <1>1, <1>3, <3>1 DEF Informed
    <3>. QED  BY <3>3, <3>4
  <2>2. Managing(u)' /\ Informed(u)'
    BY <1>1, <1>2, <1>3 DEF IndexInv, Managing, Informed, Indexing
  <2>. QED  BY <2>1, <2>2 DEF TasksKnow
<1>6. Indexed'
  <2>1. Truthful(t.room)' /\ Visible(t.room)'
    <3>1. /\ Pending(t.room, Indexing \cup {"unregister"})'
          /\ Pending(t.room, Indexing \cup Dooming)'
      BY <1>1, <1>2 DEF Pending, Becomes, Indexing
    <3>. QED  BY <3>1 DEF Truthful, Visible
  <2>2. ASSUME NEW r \in Existing, r # t.room PROVE Truthful(r)' /\ Visible(r)'
    <3>1. Truthful(r) /\ Visible(r) /\ rooms'[r] = rooms[r]
      BY <1>3, <2>2 DEF IndexInv, Indexed
    <3>2. /\ Pending(r, Indexing \cup {"unregister"}) => Pending(r, Indexing \cup {"unregister"})'
          /\ Pending(r, Indexing \cup Dooming) => Pending(r, Indexing \cup Dooming)'
      BY <1>1 DEF Pending, Becomes, Indexing, Dooming
    <3>. QED  BY <1>1, <3>1, <3>2 DEF Truthful, Visible
  <2>. QED  BY <1>3, <2>1, <2>2 DEF Indexed
<1>. QED  BY <1>1, <1>3, <1>4, <1>5, <1>6 DEF IndexInv

\* Requests: a user waits for the end of his last one.
LEMMA RequestLeavesIndex ==
    ASSUME Patient = TRUE, TypeInv, IndexInv, NEW u \in Users,
           \/ \E private \in BOOLEAN : RequestCreate(u, private) \/ RequestSettings(u, private)
           \/ \E c \in Codes : RequestJoin(u, c)
           \/ Reconnect(u) \/ RequestLeave(u) \/ Lose(u) \/ RequestList(u)
           \/ \E r \in RoomIds : GraceTimeout(u, r)
    PROVE  IndexInv'
<1>1. UNCHANGED <<rooms, public, made>> /\ SamePrivacy
  BY DEF RequestCreate, RequestSettings, RequestJoin, Reconnect, RequestLeave, Lose,
     RequestList, GraceTimeout, Keys, History, SamePrivacy, Existing, Exists
<1>2. UNCHANGED tasks \/ \E v : /\ Spawn(v) /\ v.user = u
                                /\ v.at \notin Indexing \cup Dooming \cup {"get", "prune"}
                                /\ v.at \in Listing \/ Calm(u)
  <2>. DEFINE New(v) == /\ v.user = u /\ v.at \notin Indexing \cup Dooming \cup {"get", "prune"}
  <2>1. ASSUME NEW private \in BOOLEAN, NEW r
        PROVE  /\ New([Handler("code", u) EXCEPT !.private = private])
               /\ New([Handler("settings", u) EXCEPT !.room = r, !.private = private])
               /\ New([Handler("remove", u) EXCEPT !.room = r, !.leaving = TRUE])
               /\ New([Handler("mark", u) EXCEPT !.room = r])
               /\ New([Handler("check", u) EXCEPT !.room = r])
               /\ New(Handler("resume", u)) /\ New(Handler("members", u))
               /\ Handler("members", u).at \in Listing
    BY DEF Handler, Indexing, Dooming, Listing
  <2>2. ASSUME NEW c \in Codes PROVE New([Handler("find", u) EXCEPT !.code = c])
    BY DEF Handler, Indexing, Dooming
  <2>. HIDE DEF New
  <2>3. UNCHANGED tasks \/ \E v : Spawn(v) /\ New(v) /\ (v.at \in Listing \/ Calm(u))
    <3>1. ASSUME NEW private \in BOOLEAN, RequestCreate(u, private) \/ RequestSettings(u, private)
          PROVE  \E v : Spawn(v) /\ New(v) /\ Calm(u)
      BY <2>1, <3>1 DEF RequestCreate, RequestSettings, InLobby
    <3>2. ASSUME NEW c \in Codes, RequestJoin(u, c)
          PROVE  \E v : Spawn(v) /\ New(v) /\ Calm(u)
      BY <2>2, <3>2 DEF RequestJoin, InLobby
    <3>3. CASE Reconnect(u) \/ RequestLeave(u) \/ Lose(u) \/ RequestList(u)
      BY <2>1, <3>3 DEF Reconnect, RequestLeave, Lose, RequestList
    <3>4. ASSUME NEW r \in RoomIds, GraceTimeout(u, r)
          PROVE  \E v : Spawn(v) /\ New(v) /\ Calm(u)
      BY <2>1, <3>4 DEF GraceTimeout
    <3>. QED  BY <3>1, <3>2, <3>3, <3>4
  <2>. QED  BY <2>3 DEF New
<1>3. OneTask'
  <2>1. CASE UNCHANGED tasks
    BY <2>1 DEF IndexInv, OneTask
  <2>2. ASSUME NEW v, Spawn(v), v.user = u, v.at \in Listing \/ Calm(u) PROVE OneTask'
    BY <2>2, OneTaskSpawned DEF IndexInv
  <2>. QED  BY <1>2, <2>1, <2>2
<1>4. /\ \A v \in tasks : v \in tasks'
      /\ \A v \in tasks' : v \in tasks \/ (Informed(v) /\ v.at \notin Indexing)
  BY <1>2 DEF Spawn, Informed
<1>. QED  BY <1>1, <1>3, <1>4, QuietIndex

\* The other steps of a handler.
IdleStep(t) == \/ \E c \in Codes : DrawCode(t, c)
               \/ TestCode(t) \/ FindRoom(t) \/ Resume(t) \/ Join(t) \/ BindSession(t)
               \/ BindToRoom(t) \/ Forget(t) \/ Unbind(t) \/ Mark(t) \/ Check(t)
               \/ ChangeSettings(t) /\ ~(Exists(t.room) /\ rooms[t.room].host = t.user)
               \/ \E heir \in Users : Remove(t, heir)
               \/ ReadMembers(t) \/ ReadRooms(t)

\* What such a step makes of its task.
LEMMA IdleTask ==
    ASSUME TypeInv, IndexInv, NEW t \in tasks, IdleStep(t)
    PROVE  /\ t.at \notin Indexing \cup Dooming
           /\ \E u : /\ Becomes(t, u) \/ Finish(t)
                     /\ u.user = t.user /\ u.at \notin Indexing /\ Informed(u)
                     /\ t.at \in Listing => u.at \in Listing
<1>1. t \in Task /\ public \subseteq made
  BY DEF TypeInv, TasksOK, Captured, IndexInv
<1>. DEFINE Goes(u) == /\ u.user = t.user /\ u.at \notin Indexing /\ Informed(u)
                       /\ t.at \in Listing => u.at \in Listing
<1>2. ASSUME t.at \notin Listing, NEW l \in Labels \ Indexing, l \notin Listing, NEW r, NEW c
      PROVE  /\ Goes([t EXCEPT !.at = l])
             /\ Goes([t EXCEPT !.at = l, !.code = c])
             /\ Goes([t EXCEPT !.at = l, !.room = r])
             /\ Goes([t EXCEPT !.at = l, !.room = r, !.code = c])
  BY <1>1, <1>2 DEF Task, Informed, Listing
<1>3. t.at = "members" => Goes([t EXCEPT !.at = "get", !.ids = public])
  BY <1>1 DEF Task, Indexing, Informed, Listing
<1>4. t.at = "get" => Goes([t EXCEPT !.at = "prune", !.ids = Stale(t.ids)])
  <2>1. t.at = "get" => t.ids \subseteq made
    BY DEF IndexInv, TasksKnow, Informed
  <2>2. Stale(t.ids) \subseteq t.ids /\ Stale(t.ids) \cap Existing \subseteq revived
    BY DEF Stale, Stored, Existing, TypeInv, HeldOK
  <2>. QED  BY <1>1, <2>1, <2>2 DEF Task, Indexing, Informed, Listing
<1>5. Finish(t) => \E u : Finish(t) /\ Goes(u)
  <2>. DEFINE u == [t EXCEPT !.at = "members"]
  <2>1. Goes(u)
    BY <1>1 DEF Task, Indexing, Informed, Listing
  <2>. QED  BY <2>1
<1>. DEFINE GoesOn == /\ t.at \notin Indexing \cup Dooming
                      /\ \E u : (Becomes(t, u) \/ Finish(t)) /\ Goes(u)
<1>6. GoesOn
  <2>. HIDE DEF Goes
  <2>. USE <1>2, <1>5 DEF Goto, Indexing, Dooming, Listing, Labels
  <2>1. ASSUME NEW c \in Codes, DrawCode(t, c) PROVE GoesOn
    BY <2>1 DEF DrawCode
  <2>2. CASE TestCode(t) \/ FindRoom(t) \/ Resume(t) \/ Join(t) \/ BindSession(t)
    BY <2>2 DEF TestCode, FindRoom, Resume, Join, BindSession
  <2>3. CASE BindToRoom(t) \/ Forget(t) \/ Unbind(t) \/ Mark(t) \/ Check(t)
    BY <2>3 DEF BindToRoom, Forget, Unbind, Mark, Check
  <2>4. CASE ChangeSettings(t) /\ ~(Exists(t.room) /\ rooms[t.room].host = t.user)
    BY <2>4 DEF ChangeSettings
  <2>5. ASSUME NEW heir \in Users, Remove(t, heir) PROVE GoesOn
    BY <2>5 DEF Remove
  <2>6. CASE ReadMembers(t) \/ ReadRooms(t)
    BY <1>3, <1>4, <2>6 DEF ReadMembers, ReadRooms
  <2>. QED  BY <2>1, <2>2, <2>3, <2>4, <2>5, <2>6 DEF IdleStep
<1>. QED  BY <1>6

\* What such a step makes of the rooms: the host of a room leaves only when he is not busy
\* with its entry in the set.
LEMMA IdleRooms ==
    ASSUME TypeInv, IndexInv, NEW t \in tasks, IdleStep(t)
    PROVE  /\ UNCHANGED <<public, made>> /\ SamePrivacy
           /\ \A v \in tasks : v.at \in Indexing /\ v.room \in Existing' =>
                               rooms'[v.room].host = rooms[v.room].host
<1>1. UNCHANGED <<public, made>> /\ (Mutation(t) \/ UNCHANGED Records)
  BY DEF IdleStep, Mutation, DrawCode, TestCode, FindRoom, Resume, Join, BindSession, BindToRoom,
     Forget, Unbind, Mark, Check, ChangeSettings, Remove, ReadMembers, ReadRooms, Keys, History
<1>2. CASE UNCHANGED Records
  BY <1>1, <1>2 DEF SamePrivacy, Existing, Exists
<1>3. RoomsOK
  BY DEF TypeInv
<1>4. ASSUME t.room \in RoomIds, Erase(t.room)
      PROVE  SamePrivacy /\ \A r \in Existing' : rooms'[r].host = rooms[r].host
  <2>1. \A r \in Existing' : r # t.room /\ r \in Existing /\ rooms'[r] = rooms[r]
    BY <1>3, <1>4 DEF Erase, RoomsOK, Existing, Exists
  <2>. QED  BY <1>4, <2>1 DEF Erase, SamePrivacy
<1>5. ASSUME t.room \in RoomIds, t.at \in Mutating, t.at # "settings", Exists(t.room),
             NEW room, Write(t.room, room), MadeOf(t, room)
      PROVE  /\ SamePrivacy
             /\ \A v \in tasks : v.at \in Indexing /\ v.room \in Existing' =>
                                 rooms'[v.room].host = rooms[v.room].host
  <2>1. /\ rooms' = [rooms EXCEPT ![t.room] = room] /\ revived' = revived
        /\ room.private = rooms[t.room].private
        /\ room.host = rooms[t.room].host \/ rooms[t.room].host = t.user
    BY <1>5 DEF Write, MadeOf
  <2>2. /\ rooms'[t.room] = room /\ \A r \in RoomIds : r # t.room => rooms'[r] = rooms[r]
        /\ Existing' \subseteq Existing
    BY <1>3, <1>5, <2>1 DEF RoomsOK, Existing, Exists
  <2>3. SamePrivacy
    BY <2>1, <2>2 DEF SamePrivacy, Existing
  <2>4. ASSUME NEW v \in tasks, v.at \in Indexing, v.room \in Existing'
        PROVE  rooms'[v.room].host = rooms[v.room].host
    <3>1. CASE v.room # t.room
      BY <2>2, <2>4, <3>1 DEF Existing
    <3>2. CASE v.room = t.room
      <4>1. rooms[t.room].host = v.user /\ v.user # t.user
        BY <1>5, <2>2, <2>4, <3>2
           DEF IndexInv, TasksKnow, Managing, OneTask, Indexing, Listing, Mutating
      <4>. QED  BY <2>1, <2>2, <3>2, <4>1
    <3>. QED  BY <3>1, <3>2
  <2>. QED  BY <2>3, <2>4
<1>6. CASE Mutation(t) /\ t.at # "settings"
  BY <1>1, <1>2, <1>4, <1>5, <1>6, MutationWrites
<1>7. CASE Mutation(t) /\ t.at = "settings"
  <2>1. ChangeSettings(t) /\ NoWrite(t)
    BY <1>7 DEF IdleStep, ChangeSettings, DrawCode, TestCode, FindRoom, Resume, Join, BindSession,
       BindToRoom, Forget, Unbind, Mark, Check, Remove, ReadMembers, ReadRooms
  <2>. QED  BY <1>1, <1>2, <1>4, <1>7, <2>1, MutationWrites DEF NoWrite
<1>. QED  BY <1>1, <1>2, <1>6, <1>7

LEMMA IdleLeavesIndex ==
    ASSUME TypeInv, IndexInv, NEW t \in tasks, IdleStep(t) PROVE IndexInv'
<1>1. PICK u : /\ Becomes(t, u) \/ Finish(t)
               /\ u.user = t.user /\ u.at \notin Indexing /\ Informed(u)
               /\ t.at \in Listing => u.at \in Listing
  BY IdleTask
<1>2. /\ \A v \in tasks : v.at \in Indexing \cup Dooming => v \in tasks'
      /\ \A v \in tasks' : v \in tasks \/ (Informed(v) /\ v.at \notin Indexing)
  <2>1. t.at \notin Indexing \cup Dooming
    BY IdleTask
  <2>. QED  BY <1>1, <2>1 DEF Becomes, Finish
<1>3. OneTask'
  BY <1>1, OneTaskKept DEF IndexInv
<1>. QED  BY <1>2, <1>3, IdleRooms, QuietIndex

LEMMA ExpiryLeavesIndex ==
    ASSUME TypeInv, IndexInv, NEW r \in RoomIds, CodeExpires(r) PROVE IndexInv'
<1>1. UNCHANGED <<rooms, revived, public, made, tasks>>
  BY DEF CodeExpires
<1>2. OneTask' /\ SamePrivacy
  BY <1>1 DEF IndexInv, OneTask, SamePrivacy, Existing, Exists
<1>. QED  BY <1>1, <1>2, QuietIndex

LEMMA IndexKeeps == Patient = TRUE /\ TypeInv /\ IndexInv /\ [Next]_vars => IndexInv'
<1>. SUFFICES ASSUME Patient = TRUE, TypeInv, IndexInv, [Next]_vars PROVE IndexInv'
  OBVIOUS
<1>1. CASE UNCHANGED vars
  <2>1. OneTask' /\ SamePrivacy
    BY <1>1 DEF vars, IndexInv, OneTask, SamePrivacy, Existing, Exists
  <2>. QED  BY <1>1, <2>1, QuietIndex DEF vars
<1>2. ASSUME NEW t \in tasks, Step(t) PROVE IndexInv'
  <2>1. CASE IdleStep(t)
    BY <2>1, IdleLeavesIndex
  <2>2. CASE ChangeSettings(t) /\ Exists(t.room) /\ rooms[t.room].host = t.user
    BY <2>2, ChangeSettingsIndexes
  <2>3. CASE ChangeSettings(t)
    BY <2>1, <2>2, <2>3 DEF IdleStep, ChangeSettings
  <2>. QED  BY <1>2, <2>1, <2>3, StoreRoomIndexes, WriteIndexKeeps, UnregisterLeavesIndex,
               DeleteLeavesIndex, PruneLeavesIndex DEF Step, IdleStep
<1>. QED  BY <1>1, <1>2, ExpiryLeavesIndex, RequestLeavesIndex DEF Next

\* When nothing is under way, the lobby lists no private room and every public one that was
\* never deleted, as long as users wait for the end of their last request
\* (room.store.ts:163-183, room.service.ts:104-110, 176-180, 204-211).
THEOREM IndexExact == ASSUME Patient = TRUE PROVE Spec => []IndexIsExact
<1>1. Spec => []TypeInv
  BY InitTypes, NextTypes, PTL DEF Spec
<1>2. Init => IndexInv
  BY DEF Init, IndexInv, OneTask, TasksKnow, Indexed, Existing, Exists
<1>3. TypeInv /\ IndexInv /\ [Next]_vars => IndexInv'
  BY IndexKeeps
<1>4. Spec => []IndexInv
  BY <1>1, <1>2, <1>3, PTL DEF Spec
<1>5. IndexInv => IndexIsExact
  BY DEF IndexInv, Indexed, Truthful, Visible, Pending, IndexIsExact
<1>. QED  BY <1>4, <1>5, PTL

-----------------------------------------------------------------------------
(***************************************************************************)
(* Where a user is.  Page, connection, session and record are written one  *)
(* after the other, so that what is true of a user depends on the command  *)
(* his handler waits for; it is put together again when the handler ends.  *)
(* Users wait for the end of their last request and leave a room before    *)
(* they enter another.                                                     *)
(***************************************************************************)
Entering == {"code", "exists", "store", "find"}
Entered == {"register", "session", "bind"}
Gone == {"unregister", "delete", "forget", "unbind"}
Elsewhere == {"check", "settings", "index"}

\* The user is a player of no room; of no room but this one, and connected there.
InNone(u) == \A q \in Existing : u \notin rooms[q].players
OnlyIn(u, r) == \A q \in Existing :
                   u \in rooms[q].players => q = r /\ u \in rooms[q].connected

\* Nothing of his is under way: the room he is a player of is the one that his page and
\* his session name.
AtHome(u) ==
    /\ \A q \in Existing : u \in rooms[q].players =>
           /\ page[u] = q /\ session[u] = q
           /\ u \in rooms[q].connected <=> live[u]
           /\ live[u] => roomId[u] = q
    /\ roomId[u] \in {None, page[u]}
    /\ ~live[u] => roomId[u] = None

\* He enters a room, has come back and looks for his room, has got into one ...
Seeks(t, u) == t.at \in Entering => live[u] /\ roomId[u] = None /\ InNone(u)
Returns(t, u) ==
    t.at \in {"resume", "join"} =>
        /\ live[u] /\ roomId[u] = None
        /\ \A q \in Existing : u \in rooms[q].players =>
               q = IF t.at = "resume" THEN session[u] ELSE t.room
Arrives(t, u) ==
    t.at \in Entered => /\ live[u] /\ roomId[u] = None /\ OnlyIn(u, t.room)
                        /\ t.at = "bind" => session[u] = t.room

\* ... leaves it, is lost, or something else is going on.
Leaves(t, u) ==
    /\ t.at = "remove" /\ t.leaving => page[u] = None /\ live[u] /\ OnlyIn(u, t.room)
    /\ t.at \in Gone /\ t.leaving => page[u] = None /\ live[u] /\ InNone(u)
    /\ t.at \in {"forget", "unbind"} => t.leaving
IsLost(t, u) ==
    t.at = "mark" => /\ ~live[u] /\ roomId[u] = None /\ OnlyIn(u, t.room)
                     /\ page[u] = t.room /\ (InNone(u) \/ session[u] = t.room)
Stays(t, u) ==
    /\ t.at \in Elsewhere => ~t.leaving
    /\ t.at \in Elsewhere \cup {"remove", "unregister", "delete"} /\ ~t.leaving => AtHome(u)

Placed(t, u) == /\ Seeks(t, u) /\ Returns(t, u) /\ Arrives(t, u)
                /\ Leaves(t, u) /\ IsLost(t, u) /\ Stays(t, u)

PlaceInv == /\ OneTask
            /\ \A u \in Users : Calm(u) => AtHome(u)
            /\ \A t \in tasks : Placed(t, t.user)

\* What the handlers of others leave as it is.
Undisturbed(v) ==
    /\ session'[v] = session[v] /\ roomId'[v] = roomId[v]
    /\ page'[v] = page[v] /\ live'[v] = live[v]
    /\ \A q \in Existing' : v \in rooms'[q].players =>
           /\ q \in Existing /\ v \in rooms[q].players
           /\ v \in rooms'[q].connected <=> v \in rooms[q].connected

LEMMA UndisturbedStays ==
    ASSUME NEW v, Undisturbed(v)
    PROVE  /\ AtHome(v) => AtHome(v)'
           /\ InNone(v) => InNone(v)'
           /\ \A r : OnlyIn(v, r) => OnlyIn(v, r)'
BY DEF Undisturbed, AtHome, InNone, OnlyIn

LEMMA UndisturbedPlaced ==
    ASSUME NEW v, Undisturbed(v), NEW t, Placed(t, v) PROVE Placed(t, v)'
<1>1. /\ session'[v] = session[v] /\ roomId'[v] = roomId[v]
      /\ page'[v] = page[v] /\ live'[v] = live[v]
  BY DEF Undisturbed
<1>2. Returns(t, v)'
  BY DEF Undisturbed, Placed, Returns
<1>3. Seeks(t, v)' /\ Arrives(t, v)' /\ Stays(t, v)'
  BY <1>1, UndisturbedStays DEF Placed, Seeks, Arrives, Stays
<1>4. Leaves(t, v)' /\ IsLost(t, v)'
  BY <1>1, UndisturbedStays DEF Placed, Leaves, IsLost
<1>. QED  BY <1>2, <1>3, <1>4 DEF Placed

\* A record is written: those whose place in it is the same see no difference.
SamePlace(v, r, room) ==
    \/ room = None
    \/ v \notin room.players
    \/ /\ Exists(r) /\ v \in rooms[r].players
       /\ v \in room.connected <=> v \in rooms[r].connected

LEMMA WriteUndisturbed ==
    ASSUME RoomsOK, NEW r, NEW room, rooms' = [rooms EXCEPT ![r] = room], NEW v,
           SamePlace(v, r, room),
           session'[v] = session[v], roomId'[v] = roomId[v],
           page'[v] = page[v], live'[v] = live[v]
    PROVE  Undisturbed(v)
BY DEF SamePlace, Undisturbed, Existing, Exists, RoomsOK

LEMMA KeysUndisturbed ==
    ASSUME UNCHANGED rooms, NEW v,
           session'[v] = session[v], roomId'[v] = roomId[v],
           page'[v] = page[v], live'[v] = live[v]
    PROVE  Undisturbed(v)
BY DEF Undisturbed, Existing, Exists

LEMMA EraseUndisturbed ==
    ASSUME RoomsOK, NEW r, Erase(r), NEW v,
           session'[v] = session[v], roomId'[v] = roomId[v],
           page'[v] = page[v], live'[v] = live[v]
    PROVE  Undisturbed(v)
BY WriteUndisturbed DEF Erase, SamePlace

\* Listings place nobody.
LEMMA ListingPlaced == \A t, u : t.at \in Listing => Placed(t, u) /\ Placed(t, u)'
BY DEF Placed, Seeks, Returns, Arrives, Leaves, IsLost, Stays, Listing, Entering, Entered,
   Gone, Elsewhere

\* A handler makes a step: its user is where the next label says, or at home at its end.
LEMMA HandlerMoves ==
    ASSUME PlaceInv, NEW t \in tasks, t.at \notin Listing,
           \A v \in Users : v # t.user => Undisturbed(v),
           TasksOK,
           \/ Finish(t) /\ AtHome(t.user)'
           \/ \E w : Becomes(t, w) /\ w.user = t.user /\ w.at \notin Listing
                     /\ Placed(w, t.user)'
    PROVE  PlaceInv'
<1>. DEFINE u == t.user
<1>1. OneTask'
  BY OneTaskKept DEF PlaceInv
<1>2. \A v \in tasks : v.user \in Users
  BY DEF TasksOK, Captured, Task
<1>3. ASSUME NEW v \in tasks', v \in tasks, v # t PROVE Placed(v, v.user)'
  <2>1. CASE v.user = u
    <3>1. v.at \in Listing
      BY <1>3, <2>1 DEF PlaceInv, OneTask
    <3>. QED  BY <2>1, <3>1, ListingPlaced
  <2>2. CASE v.user # u
    BY <1>2, <1>3, <2>2, UndisturbedPlaced DEF PlaceInv
  <2>. QED  BY <2>1, <2>2
<1>4. ASSUME NEW v \in Users, v # u, Calm(v)' PROVE AtHome(v)'
  <2>1. Calm(v)
    BY <1>4 DEF Calm, Finish, Becomes
  <2>. QED  BY <1>4, <2>1, UndisturbedStays DEF PlaceInv
<1>5. CASE Finish(t) /\ AtHome(u)'
  <2>1. \A v \in tasks' : v \in tasks /\ v # t
    BY <1>5 DEF Finish
  <2>. QED  BY <1>1, <1>3, <1>4, <1>5, <2>1 DEF PlaceInv
<1>6. ASSUME NEW w, Becomes(t, w), w.user = u, w.at \notin Listing, Placed(w, u)'
      PROVE  PlaceInv'
  <2>1. ~Calm(u)'
    BY <1>6 DEF Calm, Becomes
  <2>2. \A v \in tasks' : v = w \/ (v \in tasks /\ v # t)
    BY <1>6 DEF Becomes
  <2>. QED  BY <1>1, <1>3, <1>4, <1>6, <2>1, <2>2 DEF PlaceInv
<1>. QED  BY <1>5, <1>6

\* A request is made: its user was at home.
LEMMA RequestMoves ==
    ASSUME PlaceInv, TasksOK, NEW u \in Users, Calm(u),
           \A v \in Users : v # u => Undisturbed(v),
           \/ UNCHANGED tasks /\ AtHome(u)'
           \/ \E w : Spawn(w) /\ w.user = u /\ w.at \notin Listing /\ Placed(w, u)'
    PROVE  PlaceInv'
<1>1. \A v \in tasks : v.user \in Users
  BY DEF TasksOK, Captured, Task
<1>2. ASSUME NEW v \in tasks PROVE Placed(v, v.user)'
  <2>1. CASE v.user = u
    BY <1>2, <2>1, ListingPlaced DEF Calm
  <2>2. CASE v.user # u
    BY <1>1, <1>2, <2>2, UndisturbedPlaced DEF PlaceInv
  <2>. QED  BY <2>1, <2>2
<1>3. ASSUME NEW v \in Users, v # u, Calm(v)' PROVE AtHome(v)'
  <2>1. Calm(v)
    BY <1>3 DEF Calm, Spawn
  <2>. QED  BY <1>3, <2>1, UndisturbedStays DEF PlaceInv
<1>4. CASE UNCHANGED tasks /\ AtHome(u)'
  <2>1. OneTask'
    BY <1>4 DEF PlaceInv, OneTask
  <2>. QED  BY <1>2, <1>3, <1>4, <2>1 DEF PlaceInv
<1>5. ASSUME NEW w, Spawn(w), w.user = u, w.at \notin Listing, Placed(w, u)'
      PROVE  PlaceInv'
  <2>1. OneTask'
    BY <1>5, OneTaskSpawned DEF PlaceInv
  <2>2. ~Calm(u)' /\ \A v \in tasks' : v = w \/ v \in tasks
    BY <1>5 DEF Calm, Spawn
  <2>. QED  BY <1>2, <1>3, <1>5, <2>1, <2>2 DEF PlaceInv
<1>. QED  BY <1>4, <1>5

\* Nobody's place changes.
LEMMA NobodyMoves ==
    ASSUME PlaceInv, TasksOK, OneTask', \A v \in Users : Undisturbed(v),
           \A w \in tasks' : w \in tasks \/ w.at \in Listing,
           \A w \in tasks : w.at \notin Listing => w \in tasks'
    PROVE  PlaceInv'
<1>1. \A v \in tasks : v.user \in Users
  BY DEF TasksOK, Captured, Task
<1>2. ASSUME NEW w \in tasks' PROVE Placed(w, w.user)'
  <2>1. CASE w.at \in Listing
    BY <2>1, ListingPlaced
  <2>2. CASE w \in tasks
    BY <1>1, <2>2, UndisturbedPlaced DEF PlaceInv
  <2>. QED  BY <1>2, <2>1, <2>2
<1>3. ASSUME NEW v \in Users, Calm(v)' PROVE AtHome(v)'
  <2>1. Calm(v)
    BY <1>3 DEF Calm
  <2>. QED  BY <1>3, <2>1, UndisturbedStays DEF PlaceInv
<1>. QED  BY <1>2, <1>3 DEF PlaceInv

\* A handler's step that leaves record, session, connection and page alone.
LEMMA QuietMove ==
    ASSUME TypeInv, PlaceInv, NEW t \in tasks, t.at \notin Listing,
           UNCHANGED <<rooms, session, roomId, page, live>>,
           \/ Finish(t) /\ AtHome(t.user)
           \/ \E w : Becomes(t, w) /\ w.user = t.user /\ w.at \notin Listing
                     /\ Placed(w, t.user)
    PROVE  PlaceInv'
<1>1. \A v : Undisturbed(v)
  BY KeysUndisturbed
<1>2. AtHome(t.user) => AtHome(t.user)'
  BY <1>1, UndisturbedStays
<1>3. \A w : Placed(w, t.user) => Placed(w, t.user)'
  BY <1>1, UndisturbedPlaced
<1>. QED  BY <1>1, <1>2, <1>3, HandlerMoves DEF TypeInv

-----------------------------------------------------------------------------
\* A room is made, or looked for: its user is in none.
LEMMA EntersFromNowhere ==
    ASSUME NEW u, live[u] = TRUE, roomId[u] = None, InNone(u) PROVE AtHome(u)
BY DEF AtHome, InNone

LEMMA RegisterMoves ==
    ASSUME TypeInv, PlaceInv, NEW t \in tasks, Register(t) PROVE PlaceInv'
<1>. DEFINE u == t.user
            w == [t EXCEPT !.at = "session"]
<1>1. /\ Placed(t, u) /\ t \in Task /\ t.at = "register" /\ Becomes(t, w)
      /\ UNCHANGED <<rooms, session, roomId, page, live>>
  BY DEF PlaceInv, TypeInv, TasksOK, Captured, Register, Goto, Sockets
<1>2. w.at = "session" /\ w.user = u /\ w.room = t.room
  BY <1>1 DEF Task
<1>. HIDE DEF w
<1>3. Placed(w, u)
  BY <1>1, <1>2 DEF Placed, Seeks, Returns, Arrives, Leaves, IsLost, Stays,
     Entering, Entered, Gone, Elsewhere
<1>. QED  BY <1>1, <1>2, <1>3, QuietMove DEF Listing

LEMMA EnteringMoves ==
    ASSUME TypeInv, PlaceInv, NEW t \in tasks, t.at \in Entering,
           UNCHANGED <<rooms, session, roomId, page, live>>,
           Finish(t) \/ \E w : /\ Becomes(t, w) /\ w.user = t.user
                               /\ w.at \in Entering \cup {"join"}
    PROVE  PlaceInv'
<1>. DEFINE u == t.user
<1>1. Placed(t, u) /\ t \in Task
  BY DEF PlaceInv, TypeInv, TasksOK, Captured
<1>2. live[u] = TRUE /\ roomId[u] = None /\ InNone(u)
  BY <1>1 DEF TypeInv, UsersOK, Task, Placed, Seeks
<1>3. AtHome(u)
  BY <1>2, EntersFromNowhere
<1>4. ASSUME NEW w, w.at \in Entering \cup {"join"} PROVE Placed(w, u)
  BY <1>2, <1>4 DEF Placed, Seeks, Returns, Arrives, Leaves, IsLost, Stays, InNone,
     Entering, Entered, Gone, Elsewhere
<1>5. CASE Finish(t)
  BY <1>3, <1>5, QuietMove DEF Entering, Listing
<1>6. CASE ~Finish(t)
  <2>1. PICK w : Becomes(t, w) /\ w.user = u /\ w.at \in Entering \cup {"join"}
    BY <1>6
  <2>. QED  BY <1>4, <2>1, QuietMove DEF Entering, Listing
<1>. QED  BY <1>5, <1>6

LEMMA DrawCodeMoves ==
    ASSUME TypeInv, PlaceInv, NEW t \in tasks, NEW c \in Codes, DrawCode(t, c)
    PROVE  PlaceInv'
<1>1. PICK w : w = [t EXCEPT !.at = "exists", !.code = c]
  OBVIOUS
<1>2. t.at = "code" /\ Becomes(t, w)
  BY <1>1 DEF DrawCode
<1>3. UNCHANGED <<rooms, session, roomId, page, live>>
  BY DEF DrawCode, Keys, Sockets
<1>4. w.at = "exists" /\ w.user = t.user
  BY <1>1 DEF TypeInv, TasksOK, Captured, Task
<1>. QED  BY <1>2, <1>3, <1>4, EnteringMoves DEF Entering

LEMMA TestCodeMoves ==
    ASSUME TypeInv, PlaceInv, NEW t \in tasks, TestCode(t) PROVE PlaceInv'
<1>1. PICK w : w = [t EXCEPT !.at = "store"]
  OBVIOUS
<1>2. t.at = "exists" /\ (Finish(t) \/ Becomes(t, w))
  BY <1>1 DEF TestCode, Goto
<1>3. UNCHANGED <<rooms, session, roomId, page, live>>
  BY DEF TestCode, Keys, Sockets
<1>4. w.at = "store" /\ w.user = t.user
  BY <1>1 DEF TypeInv, TasksOK, Captured, Task
<1>. QED  BY <1>2, <1>3, <1>4, EnteringMoves DEF Entering

LEMMA FindRoomMoves ==
    ASSUME TypeInv, PlaceInv, NEW t \in tasks, FindRoom(t) PROVE PlaceInv'
<1>1. PICK w : w = [t EXCEPT !.at = "join", !.room = codeOf[t.code], !.code = None]
  OBVIOUS
<1>2. t.at = "find" /\ (Finish(t) \/ Becomes(t, w))
  BY <1>1 DEF FindRoom
<1>3. UNCHANGED <<rooms, session, roomId, page, live>>
  BY DEF FindRoom, Keys, Sockets
<1>4. w.at = "join" /\ w.user = t.user
  BY <1>1 DEF TypeInv, TasksOK, Captured, Task
<1>. QED  BY <1>2, <1>3, <1>4, EnteringMoves DEF Entering

LEMMA StoreRoomMoves ==
    ASSUME TypeInv, PlaceInv, NEW t \in tasks, NEW r \in RoomIds, StoreRoom(t, r)
    PROVE  PlaceInv'
<1>. DEFINE u == t.user
            room == [code |-> t.code, private |-> t.private, players |-> {u},
                     connected |-> {u}, host |-> u]
            w == [t EXCEPT !.room = r, !.code = None,
                           !.at = IF t.private THEN "session" ELSE "register"]
<1>1. /\ Placed(t, u) /\ t \in Task /\ t.at = "store" /\ RoomsOK
      /\ rooms' = [rooms EXCEPT ![r] = room] /\ Becomes(t, w)
      /\ UNCHANGED <<session, roomId, page, live>>
  BY DEF PlaceInv, TypeInv, TasksOK, Captured, StoreRoom, Sockets
<1>2. w.at \in {"session", "register"} /\ w.user = u /\ w.room = r
  BY <1>1 DEF Task
<1>3. room.players = {u} /\ room.connected = {u}
  OBVIOUS
<1>. HIDE DEF w, room
<1>4. \A v \in Users : v # u => Undisturbed(v)
  BY <1>1, <1>3, WriteUndisturbed DEF SamePlace
<1>5. live[u] /\ roomId[u] = None /\ InNone(u)
  BY <1>1 DEF Placed, Seeks, Entering
<1>6. OnlyIn(u, r)'
  BY <1>1, <1>3, <1>5 DEF OnlyIn, InNone, Existing, Exists, RoomsOK
<1>7. Placed(w, u)'
  BY <1>1, <1>2, <1>5, <1>6 DEF Placed, Seeks, Returns, Arrives, Leaves, IsLost, Stays,
     Entering, Entered, Gone, Elsewhere
<1>. QED  BY <1>1, <1>2, <1>4, <1>7, HandlerMoves DEF TypeInv, Listing

\* He has come back: his session leads to the room he is a player of, if there is one.
LEMMA ResumeMoves ==
    ASSUME TypeInv, PlaceInv, NEW t \in tasks, Resume(t) PROVE PlaceInv'
<1>. DEFINE u == t.user
            w == [t EXCEPT !.at = "join", !.room = session[t.user]]
<1>1. /\ Placed(t, u) /\ t \in Task /\ t.at = "resume"
      /\ UNCHANGED <<rooms, session, roomId, page, live>>
      /\ IF session[u] = None THEN Finish(t) ELSE Becomes(t, w)
  BY DEF PlaceInv, TypeInv, TasksOK, Captured, Resume, Keys, Sockets
<1>2. w.at = "join" /\ w.user = u /\ w.room = session[u]
  BY <1>1 DEF Task
<1>. HIDE DEF w
<1>3. /\ live[u] = TRUE /\ roomId[u] = None
      /\ \A q \in Existing : u \in rooms[q].players => q = session[u]
  BY <1>1 DEF Placed, Returns, TypeInv, UsersOK, Task
<1>4. CASE session[u] = None
  <2>1. InNone(u)
    BY <1>3, <1>4 DEF InNone, Existing, Exists
  <2>. QED  BY <1>1, <1>3, <1>4, <2>1, EntersFromNowhere, QuietMove DEF Listing
<1>5. CASE session[u] # None
  <2>1. Placed(w, u)
    BY <1>2, <1>3 DEF Placed, Seeks, Returns, Arrives, Leaves, IsLost, Stays,
       Entering, Entered, Gone, Elsewhere
  <2>. QED  BY <1>1, <1>2, <1>5, <2>1, QuietMove DEF Listing
<1>. QED  BY <1>4, <1>5

\* He gets into the room, which is the only one he may be a player of already.
LEMMA JoinMoves ==
    ASSUME TypeInv, PlaceInv, NEW t \in tasks, Join(t) PROVE PlaceInv'
<1>. DEFINE u == t.user
            r == t.room
            w == [t EXCEPT !.at = "session"]
<1>1. /\ Placed(t, u) /\ t \in Task /\ t.at = "join" /\ r \in RoomIds /\ u \in Users
      /\ UNCHANGED <<session, roomId, page, live>> /\ RoomsOK
  BY DEF PlaceInv, TypeInv, TasksOK, Captured, HasRoom, Task, Join, Sockets
<1>2. w.at = "session" /\ w.user = u /\ w.room = r
  BY <1>1 DEF Task
<1>. HIDE DEF w
<1>3. /\ live[u] = TRUE /\ roomId[u] = None
      /\ \A q \in Existing : u \in rooms[q].players => q = r
  BY <1>1 DEF Placed, Returns, TypeInv, UsersOK
<1>4. CASE /\ Exists(r)
           /\ u \in rooms[r].players \/ Cardinality(rooms[r].connected) < MaxPlayers
  <2>. DEFINE room == Admitted(rooms[r], u)
  <2>1. rooms' = [rooms EXCEPT ![r] = room] /\ Becomes(t, w)
    BY <1>4 DEF Join, Write, Goto, w
  <2>2. /\ room.players = rooms[r].players \cup {u}
        /\ room.connected = rooms[r].connected \cup {u}
    BY <1>1, <1>4, RoomFound DEF Admitted, SoundRoom, Room
  <2>. HIDE DEF room
  <2>3. \A v \in Users : v # u => SamePlace(v, r, room)
    BY <1>1, <1>4, <2>2 DEF SamePlace
  <2>4. \A v \in Users : v # u => Undisturbed(v)
    BY <1>1, <2>1, <2>3, WriteUndisturbed
  <2>5. OnlyIn(u, r)'
    BY <1>1, <1>3, <1>4, <2>1, <2>2 DEF OnlyIn, Existing, Exists, RoomsOK
  <2>6. Placed(w, u)'
    BY <1>1, <1>2, <1>3, <2>5 DEF Placed, Seeks, Returns, Arrives, Leaves, IsLost, Stays,
       Entering, Entered, Gone, Elsewhere
  <2>. QED  BY <1>1, <1>2, <2>1, <2>4, <2>6, HandlerMoves DEF TypeInv, Listing
<1>5. CASE ~(/\ Exists(r)
             /\ u \in rooms[r].players \/ Cardinality(rooms[r].connected) < MaxPlayers)
  <2>1. Finish(t) /\ (UNCHANGED rooms \/ Erase(r))
    BY <1>5 DEF Join, NoWrite
  <2>2. InNone(u)
    BY <1>3, <1>5 DEF InNone, Existing
  <2>3. \A v : Undisturbed(v)
    BY <1>1, <2>1, KeysUndisturbed, EraseUndisturbed
  <2>4. AtHome(u)'
    BY <1>3, <2>2, <2>3, EntersFromNowhere, UndisturbedStays
  <2>. QED  BY <1>1, <2>1, <2>3, <2>4, HandlerMoves DEF TypeInv, Listing
<1>. QED  BY <1>4, <1>5

\* Session, connection and page follow.
LEMMA BindSessionMoves ==
    ASSUME TypeInv, PlaceInv, NEW t \in tasks, BindSession(t) PROVE PlaceInv'
<1>. DEFINE u == t.user
            w == [t EXCEPT !.at = "bind"]
<1>1. /\ Placed(t, u) /\ t \in Task /\ t.at = "session" /\ u \in Users
      /\ session' = [session EXCEPT ![u] = t.room] /\ Becomes(t, w)
      /\ UNCHANGED <<rooms, roomId, page, live>>
      /\ session \in [Users -> MaybeRoom]
  BY DEF PlaceInv, TypeInv, TasksOK, Captured, Task, BindSession, Goto, Sockets, KeysOK
<1>2. w.at = "bind" /\ w.user = u /\ w.room = t.room
  BY <1>1 DEF Task
<1>. HIDE DEF w
<1>3. \A v \in Users : v # u => Undisturbed(v)
  BY <1>1, KeysUndisturbed
<1>4. live[u] /\ roomId[u] = None /\ OnlyIn(u, t.room)
  BY <1>1 DEF Placed, Arrives, Entered
<1>5. OnlyIn(u, t.room)' /\ session'[u] = t.room
  BY <1>1, <1>4 DEF OnlyIn, Existing, Exists
<1>6. Placed(w, u)'
  BY <1>1, <1>2, <1>4, <1>5 DEF Placed, Seeks, Returns, Arrives, Leaves, IsLost, Stays,
     Entering, Entered, Gone, Elsewhere
<1>. QED  BY <1>1, <1>2, <1>3, <1>6, HandlerMoves DEF TypeInv, Listing

LEMMA BindToRoomMoves ==
    ASSUME TypeInv, PlaceInv, NEW t \in tasks, BindToRoom(t) PROVE PlaceInv'
<1>. DEFINE u == t.user
<1>1. /\ Placed(t, u) /\ t \in Task /\ t.at = "bind" /\ u \in Users /\ t.room \in RoomIds
      /\ roomId' = [roomId EXCEPT ![u] = t.room] /\ page' = [page EXCEPT ![u] = t.room]
      /\ UNCHANGED <<rooms, session, live>> /\ Finish(t)
      /\ UsersOK
  BY DEF PlaceInv, TypeInv, TasksOK, Captured, HasRoom, Task, BindToRoom, Keys
<1>2. \A v \in Users : v # u => Undisturbed(v)
  BY <1>1, KeysUndisturbed DEF UsersOK
<1>3. live[u] = TRUE /\ OnlyIn(u, t.room) /\ session[u] = t.room
  BY <1>1 DEF Placed, Arrives, Entered, UsersOK
<1>4. AtHome(u)'
  <2>1. roomId'[u] = t.room /\ page'[u] = t.room
    BY <1>1 DEF UsersOK
  <2>2. Existing' = Existing
    BY <1>1 DEF Existing, Exists
  <2>. QED  BY <1>1, <1>3, <2>1, <2>2 DEF AtHome, OnlyIn
<1>. QED  BY <1>1, <1>2, <1>4, HandlerMoves DEF TypeInv, Listing

-----------------------------------------------------------------------------
\* He leaves, or is removed: he is a player of no room then, or where he was before.
LEMMA MembersWithout ==
    ASSUME RoomsOK, NEW r \in RoomIds, Exists(r), NEW u \in Users, NEW heir \in Users,
           rooms' = [rooms EXCEPT ![r] = Without(rooms[r], u, heir)]
    PROVE  /\ \A v : v # u => SamePlace(v, r, Without(rooms[r], u, heir))
           /\ Existing' = Existing
           /\ u \notin rooms'[r].players /\ \A q \in Existing : q # r => rooms'[q] = rooms[q]
<1>. DEFINE room == Without(rooms[r], u, heir)
<1>1. SoundRoom(rooms[r]) /\ rooms \in [RoomIds -> Room \cup {None}]
  BY RoomFound DEF RoomsOK
<1>2. SoundRoom(room)
  <2>1. TRUE \in BOOLEAN
    OBVIOUS
  <2>. QED  BY <1>1, <2>1, Mutations
<1>3. room.players = rooms[r].players \ {u} /\ room.connected = rooms[r].connected \ {u}
  BY <1>1 DEF Without, SoundRoom, Room
<1>. HIDE DEF room
<1>4. room # None
  BY <1>2, NoneIsNoRoom DEF SoundRoom
<1>5. \A v : v # u => SamePlace(v, r, room)
  BY <1>3 DEF SamePlace
<1>6. Existing' = Existing
  BY <1>1, <1>4 DEF Existing, Exists, room
<1>. QED  BY <1>1, <1>3, <1>5, <1>6 DEF room

\* The removal of a player who leaves: nothing holds him any more but his session and his
\* connection.
LEMMA RemoveMoves ==
    ASSUME TypeInv, PlaceInv, NEW t \in tasks, NEW heir \in Users, Remove(t, heir)
    PROVE  PlaceInv'
<1>. DEFINE u == t.user
            r == t.room
<1>1. /\ Placed(t, u) /\ t \in Task /\ t.at = "remove" /\ u \in Users /\ r \in RoomIds
      /\ UNCHANGED <<session, roomId, page, live>> /\ RoomsOK
      /\ t.leaving \in BOOLEAN
  BY DEF PlaceInv, TypeInv, TasksOK, Captured, HasRoom, Task, Remove, Sockets
<1>2. \/ Finish(t) /\ t.leaving = FALSE
      \/ \E w : /\ Becomes(t, w) /\ w.user = u /\ w.leaving = t.leaving
                /\ w.at \in {"unregister", "forget"} /\ (w.at = "forget" => t.leaving)
  <2>1. PICK w : w = [t EXCEPT !.at = "forget"]
    OBVIOUS
  <2>2. w.user = u /\ w.at = "forget" /\ w.leaving = t.leaving
    BY <1>1, <2>1 DEF Task
  <2>3. PICK x : x = [t EXCEPT !.at = "unregister", !.code = rooms[t.room].code]
    OBVIOUS
  <2>4. x.user = u /\ x.at = "unregister" /\ x.leaving = t.leaving
    BY <1>1, <2>3 DEF Task
  <2>5. Becomes(t, x) \/ (IF t.leaving THEN Becomes(t, w) ELSE Finish(t))
    BY <2>1, <2>3 DEF Remove, Goto
  <2>. QED  BY <1>1, <2>2, <2>4, <2>5
<1>3. /\ \A v \in Users : v # u => Undisturbed(v)
      /\ t.leaving => InNone(u)'
      /\ ~t.leaving => AtHome(u)'
  <2>1. t.leaving => OnlyIn(u, r)
    BY <1>1 DEF Placed, Leaves
  <2>2. ~t.leaving => AtHome(u)
    BY <1>1 DEF Placed, Stays
  <2>3. CASE ~Exists(r)
    <3>1. UNCHANGED rooms
      BY <2>3 DEF Remove
    <3>2. \A v : Undisturbed(v)
      BY <1>1, <3>1, KeysUndisturbed
    <3>3. OnlyIn(u, r) => InNone(u)
      BY <2>3 DEF OnlyIn, InNone, Existing
    <3>. QED  BY <2>1, <2>2, <3>2, <3>3, UndisturbedStays
  <2>4. CASE Exists(r)
    <3>1. rooms' = [rooms EXCEPT ![r] = Without(rooms[r], u, heir)]
      BY <2>4 DEF Remove, Write
    <3>2. /\ \A v : v # u => SamePlace(v, r, Without(rooms[r], u, heir))
          /\ Existing' = Existing
          /\ u \notin rooms'[r].players
          /\ \A q \in Existing : q # r => rooms'[q] = rooms[q]
      BY <1>1, <2>4, <3>1, MembersWithout
    <3>3. \A v \in Users : v # u => Undisturbed(v)
      BY <1>1, <3>1, <3>2, WriteUndisturbed
    <3>4. OnlyIn(u, r) => InNone(u)'
      BY <3>2 DEF OnlyIn, InNone
    <3>5. AtHome(u) => AtHome(u)'
      BY <1>1, <3>2 DEF AtHome
    <3>. QED  BY <2>1, <2>2, <3>3, <3>4, <3>5
  <2>. QED  BY <2>3, <2>4
<1>4. CASE Finish(t) /\ t.leaving = FALSE
  BY <1>1, <1>3, <1>4, HandlerMoves DEF TypeInv, Listing
<1>5. ASSUME NEW w, Becomes(t, w), w.user = u, w.leaving = t.leaving,
             w.at \in {"unregister", "forget"}, w.at = "forget" => t.leaving
      PROVE  PlaceInv'
  <2>1. t.leaving => page'[u] = None /\ live'[u]
    BY <1>1 DEF Placed, Leaves
  <2>2. Placed(w, u)'
    BY <1>3, <1>5, <2>1 DEF Placed, Seeks, Returns, Arrives, Leaves, IsLost, Stays,
       Entering, Entered, Gone, Elsewhere
  <2>. QED  BY <1>1, <1>3, <1>5, <2>2, HandlerMoves DEF TypeInv, Listing
<1>. QED  BY <1>2, <1>4, <1>5

\* The empty room goes, its keys one after the other; nobody's place changes.
LEMMA UnregisterMoves ==
    ASSUME TypeInv, PlaceInv, NEW t \in tasks, Unregister(t) PROVE PlaceInv'
<1>. DEFINE u == t.user
            w == [t EXCEPT !.at = "delete"]
<1>1. /\ Placed(t, u) /\ t \in Task /\ t.at = "unregister" /\ Becomes(t, w)
      /\ UNCHANGED <<rooms, session, roomId, page, live>>
  BY DEF PlaceInv, TypeInv, TasksOK, Captured, Unregister, Goto, Sockets
<1>2. w.at = "delete" /\ w.user = u /\ w.leaving = t.leaving
  BY <1>1 DEF Task
<1>. HIDE DEF w
<1>3. Placed(w, u)
  BY <1>1, <1>2 DEF Placed, Seeks, Returns, Arrives, Leaves, IsLost, Stays,
     Entering, Entered, Gone, Elsewhere
<1>. QED  BY <1>1, <1>2, <1>3, QuietMove DEF Listing

LEMMA DeleteMoves ==
    ASSUME TypeInv, PlaceInv, NEW t \in tasks, Delete(t) PROVE PlaceInv'
<1>. DEFINE u == t.user
<1>0. PICK w : w = [t EXCEPT !.at = "forget", !.code = None]
  OBVIOUS
<1>1. /\ Placed(t, u) /\ t \in Task /\ t.at = "delete" /\ RoomsOK
      /\ UNCHANGED rooms \/ Erase(t.room)
      /\ IF t.leaving THEN Becomes(t, w) ELSE Finish(t)
      /\ UNCHANGED <<session, roomId, page, live>>
  BY <1>0 DEF PlaceInv, TypeInv, TasksOK, Captured, Delete, Sockets
<1>2. w.at = "forget" /\ w.user = u /\ w.leaving = t.leaving
  BY <1>0, <1>1 DEF Task
<1>3. \A v : Undisturbed(v)
  BY <1>1, KeysUndisturbed, EraseUndisturbed
<1>4. CASE t.leaving
  <2>1. Placed(w, u)
    BY <1>1, <1>2, <1>4 DEF Placed, Seeks, Returns, Arrives, Leaves, IsLost, Stays,
       Entering, Entered, Gone, Elsewhere
  <2>2. Placed(w, u)'
    BY <1>3, <2>1, UndisturbedPlaced
  <2>. QED  BY <1>1, <1>2, <1>3, <1>4, <2>2, HandlerMoves DEF TypeInv, Listing
<1>5. CASE ~t.leaving
  <2>1. AtHome(u)
    BY <1>1, <1>5 DEF Placed, Stays
  <2>2. AtHome(u)'
    BY <1>3, <2>1, UndisturbedStays
  <2>. QED  BY <1>1, <1>3, <1>5, <2>2, HandlerMoves DEF TypeInv, Listing
<1>. QED  BY <1>4, <1>5

LEMMA ForgetMoves ==
    ASSUME TypeInv, PlaceInv, NEW t \in tasks, Forget(t) PROVE PlaceInv'
<1>. DEFINE u == t.user
            w == [t EXCEPT !.at = "unbind"]
<1>1. /\ Placed(t, u) /\ t \in Task /\ t.at = "forget" /\ u \in Users
      /\ session' = [session EXCEPT ![u] = None] /\ Becomes(t, w)
      /\ UNCHANGED <<rooms, roomId, page, live>>
      /\ session \in [Users -> MaybeRoom]
  BY DEF PlaceInv, TypeInv, TasksOK, Captured, Task, Forget, Goto, Sockets, KeysOK
<1>2. w.at = "unbind" /\ w.user = u /\ w.leaving = t.leaving
  BY <1>1 DEF Task
<1>. HIDE DEF w
<1>3. \A v \in Users : v # u => Undisturbed(v)
  BY <1>1, KeysUndisturbed
<1>4. t.leaving /\ page[u] = None /\ live[u] /\ InNone(u)
  BY <1>1 DEF Placed, Leaves, Gone
<1>5. InNone(u)'
  BY <1>1, <1>4 DEF InNone, Existing, Exists
<1>6. Placed(w, u)'
  BY <1>1, <1>2, <1>4, <1>5 DEF Placed, Seeks, Returns, Arrives, Leaves, IsLost, Stays,
     Entering, Entered, Gone, Elsewhere
<1>. QED  BY <1>1, <1>2, <1>3, <1>6, HandlerMoves DEF TypeInv, Listing

LEMMA UnbindMoves ==
    ASSUME TypeInv, PlaceInv, NEW t \in tasks, Unbind(t) PROVE PlaceInv'
<1>. DEFINE u == t.user
<1>1. /\ Placed(t, u) /\ t \in Task /\ t.at = "unbind" /\ u \in Users
      /\ roomId' = [roomId EXCEPT ![u] = None] /\ Finish(t)
      /\ UNCHANGED <<rooms, session, page, live>>
      /\ UsersOK
  BY DEF PlaceInv, TypeInv, TasksOK, Captured, Task, Unbind, Keys
<1>2. \A v \in Users : v # u => Undisturbed(v)
  BY <1>1, KeysUndisturbed DEF UsersOK
<1>3. page[u] = None /\ live[u] = TRUE /\ InNone(u)
  BY <1>1 DEF Placed, Leaves, Gone, UsersOK
<1>4. AtHome(u)'
  <2>1. roomId'[u] = None /\ Existing' = Existing
    BY <1>1 DEF UsersOK, Existing, Exists
  <2>. QED  BY <1>1, <1>3, <2>1 DEF AtHome, InNone
<1>. QED  BY <1>1, <1>2, <1>4, HandlerMoves DEF TypeInv, Listing

-----------------------------------------------------------------------------
\* A lost connection: the flag goes out in the room that the page still shows.
LEMMA MarkMoves ==
    ASSUME TypeInv, PlaceInv, NEW t \in tasks, Mark(t) PROVE PlaceInv'
<1>. DEFINE u == t.user
            r == t.room
<1>1. /\ Placed(t, u) /\ t \in Task /\ t.at = "mark" /\ u \in Users /\ r \in RoomIds
      /\ UNCHANGED <<session, roomId, page, live>> /\ Finish(t) /\ RoomsOK
  BY DEF PlaceInv, TypeInv, TasksOK, Captured, HasRoom, Task, Mark
<1>2. /\ live[u] = FALSE /\ roomId[u] = None /\ OnlyIn(u, r)
      /\ page[u] = r /\ (InNone(u) \/ session[u] = r)
  BY <1>1 DEF Placed, IsLost, TypeInv, UsersOK
<1>3. CASE ~(Exists(r) /\ u \in rooms[r].players)
  <2>1. UNCHANGED rooms \/ Erase(r)
    BY <1>3 DEF Mark, NoWrite
  <2>2. InNone(u)
    BY <1>2, <1>3 DEF OnlyIn, InNone, Existing
  <2>3. AtHome(u)
    BY <1>2, <2>2 DEF AtHome, InNone
  <2>4. \A v : Undisturbed(v)
    BY <1>1, <2>1, KeysUndisturbed, EraseUndisturbed
  <2>. QED  BY <1>1, <2>3, <2>4, UndisturbedStays, HandlerMoves DEF TypeInv, Listing
<1>4. CASE Exists(r) /\ u \in rooms[r].players
  <2>. DEFINE room == Missed(rooms[r], u)
  <2>1. SoundRoom(rooms[r]) /\ rooms' = [rooms EXCEPT ![r] = room]
    BY <1>1, <1>4, RoomFound DEF Mark, Write
  <2>2. /\ room.players = rooms[r].players /\ room.connected = rooms[r].connected \ {u}
    BY <2>1 DEF Missed, SoundRoom, Room
  <2>. HIDE DEF room
  <2>3. \A v : v # u => SamePlace(v, r, room)
    BY <1>4, <2>2 DEF SamePlace
  <2>4. \A v \in Users : v # u => Undisturbed(v)
    BY <1>1, <2>1, <2>3, WriteUndisturbed
  <2>5. AtHome(u)'
    <3>1. ASSUME NEW q \in Existing', u \in rooms'[q].players
          PROVE  q = r /\ u \notin rooms'[q].connected /\ session[u] = r
      <4>1. q = r
        BY <1>1, <1>2, <2>1, <3>1 DEF OnlyIn, Existing, Exists, RoomsOK
      <4>2. u \in rooms[r].players /\ r \in Existing
        BY <1>1, <1>4, <2>1, <2>2, <3>1, <4>1 DEF Existing, RoomsOK
      <4>. QED  BY <1>1, <1>2, <2>1, <2>2, <4>1, <4>2 DEF InNone, RoomsOK
    <3>. QED  BY <1>1, <1>2, <3>1 DEF AtHome
  <2>. QED  BY <1>1, <2>4, <2>5, HandlerMoves DEF TypeInv, Listing
<1>. QED  BY <1>3, <1>4

\* The grace window is over, or the host changes the settings: his place is the same.
LEMMA StayingMoves ==
    ASSUME TypeInv, PlaceInv, NEW t \in tasks, t.at \in Elsewhere,
           \A v \in Users : Undisturbed(v),
           \/ Finish(t)
           \/ \E w : /\ Becomes(t, w) /\ w.user = t.user /\ w.leaving = t.leaving
                     /\ w.at \in {"remove", "index"}
    PROVE  PlaceInv'
<1>. DEFINE u == t.user
<1>1. Placed(t, u) /\ t \in Task /\ u \in Users
  BY DEF PlaceInv, TypeInv, TasksOK, Captured, Task
<1>2. ~t.leaving /\ AtHome(u)'
  BY <1>1, UndisturbedStays DEF Placed, Stays
<1>3. ASSUME NEW w, Becomes(t, w), w.user = u, w.leaving = t.leaving,
             w.at \in {"remove", "index"}
      PROVE  PlaceInv'
  <2>1. Placed(w, u)'
    BY <1>2, <1>3 DEF Placed, Seeks, Returns, Arrives, Leaves, IsLost, Stays,
       Entering, Entered, Gone, Elsewhere
  <2>. QED  BY <1>3, <2>1, HandlerMoves DEF TypeInv, Listing, Elsewhere
<1>4. CASE Finish(t)
  BY <1>2, <1>4, HandlerMoves DEF TypeInv, Listing, Elsewhere
<1>. QED  BY <1>3, <1>4

LEMMA CheckMoves ==
    ASSUME TypeInv, PlaceInv, NEW t \in tasks, Check(t) \/ UpdateIndex(t)
    PROVE  PlaceInv'
<1>1. PICK w : w = [t EXCEPT !.at = "remove"]
  OBVIOUS
<1>2. t.at \in Elsewhere /\ (Finish(t) \/ Becomes(t, w))
  BY <1>1 DEF Check, UpdateIndex, Goto, Elsewhere
<1>3. UNCHANGED <<rooms, session, roomId, page, live>>
  BY DEF Check, UpdateIndex, Keys, Sockets
<1>4. w.at = "remove" /\ w.user = t.user /\ w.leaving = t.leaving
  BY <1>1 DEF TypeInv, TasksOK, Captured, Task
<1>. QED  BY <1>2, <1>3, <1>4, KeysUndisturbed, StayingMoves

LEMMA ChangeSettingsMoves ==
    ASSUME TypeInv, PlaceInv, NEW t \in tasks, ChangeSettings(t) PROVE PlaceInv'
<1>. DEFINE r == t.room
<1>1. PICK w : w = [t EXCEPT !.at = "index"]
  OBVIOUS
<1>2. /\ t.at = "settings" /\ (Finish(t) \/ Becomes(t, w))
      /\ UNCHANGED <<session, roomId, page, live>>
  BY <1>1 DEF ChangeSettings, Goto, Sockets
<1>3. w.at = "index" /\ w.user = t.user /\ w.leaving = t.leaving
  BY <1>1 DEF TypeInv, TasksOK, Captured, Task
<1>4. r \in RoomIds /\ t.private \in BOOLEAN /\ RoomsOK
  BY <1>2 DEF TypeInv, TasksOK, Captured, HasRoom, Task
<1>5. \A v : Undisturbed(v)
  <2>1. CASE UNCHANGED rooms \/ Erase(r)
    BY <1>2, <1>4, <2>1, KeysUndisturbed, EraseUndisturbed
  <2>2. CASE ~(UNCHANGED rooms \/ Erase(r))
    <3>. DEFINE room == Listed(rooms[r], t.private)
    <3>1. Exists(r) /\ rooms' = [rooms EXCEPT ![r] = room]
      BY <2>2 DEF ChangeSettings, Write, NoWrite
    <3>2. SoundRoom(rooms[r])
      BY <1>4, <3>1, RoomFound
    <3>3. room.players = rooms[r].players /\ room.connected = rooms[r].connected
      BY <3>2 DEF Listed, SoundRoom, Room
    <3>. HIDE DEF room
    <3>4. \A v : SamePlace(v, r, room)
      BY <3>1, <3>3 DEF SamePlace
    <3>. QED  BY <1>2, <1>4, <3>1, <3>4, WriteUndisturbed
  <2>. QED  BY <2>1, <2>2
<1>. QED  BY <1>2, <1>3, <1>5, StayingMoves DEF Elsewhere

-----------------------------------------------------------------------------
\* Who asks for the list of rooms, or expires a code, moves nobody.
LEMMA ListingMoves ==
    ASSUME TypeInv, PlaceInv, NEW t \in tasks, ReadMembers(t) \/ ReadRooms(t) \/ Prune(t)
    PROVE  PlaceInv'
<1>1. PICK w : w.user = t.user /\ w.at \in Listing /\ (Finish(t) \/ Becomes(t, w))
  <2>1. t \in Task
    BY DEF TypeInv, TasksOK, Captured
  <2>2. PICK w : w = [t EXCEPT !.at = "get", !.ids = public]
    OBVIOUS
  <2>3. PICK x : x = [t EXCEPT !.at = "prune", !.ids = Stale(t.ids)]
    OBVIOUS
  <2>4. w.user = t.user /\ w.at \in Listing /\ x.user = t.user /\ x.at \in Listing
    BY <2>1, <2>2, <2>3 DEF Task, Listing
  <2>5. Finish(t) \/ Becomes(t, w) \/ Becomes(t, x)
    BY <2>2, <2>3 DEF ReadMembers, ReadRooms, Prune
  <2>. QED  BY <2>4, <2>5
<1>2. t.at \in Listing /\ UNCHANGED <<rooms, session, roomId, page, live>>
  BY DEF ReadMembers, ReadRooms, Prune, Keys, Sockets, Listing
<1>3. OneTask'
  BY <1>1, OneTaskKept DEF PlaceInv
<1>4. /\ \A v \in tasks' : v \in tasks \/ v.at \in Listing
      /\ \A v \in tasks : v.at \notin Listing => v \in tasks'
  BY <1>1, <1>2 DEF Finish, Becomes
<1>. QED  BY <1>2, <1>3, <1>4, KeysUndisturbed, NobodyMoves DEF TypeInv

LEMMA NothingMoves ==
    ASSUME TypeInv, PlaceInv,
           \/ UNCHANGED vars
           \/ \E r \in RoomIds : CodeExpires(r)
           \/ \E u \in Users : RequestList(u)
    PROVE  PlaceInv'
<1>1. UNCHANGED <<rooms, session, roomId, page, live>>
  BY DEF vars, CodeExpires, RequestList, Keys, Sockets
<1>2. UNCHANGED tasks \/ \E w : Spawn(w) /\ w.at \in Listing
  <2>1. \A u : Handler("members", u).at \in Listing
    BY DEF Handler, Listing
  <2>. QED  BY <2>1 DEF vars, CodeExpires, RequestList
<1>3. OneTask'
  <2>1. CASE UNCHANGED tasks
    BY <2>1 DEF PlaceInv, OneTask
  <2>2. ASSUME NEW w, Spawn(w), w.at \in Listing PROVE OneTask'
    BY <2>2, OneTaskSpawned DEF PlaceInv
  <2>. QED  BY <1>2, <2>1, <2>2
<1>4. /\ \A v \in tasks' : v \in tasks \/ v.at \in Listing
      /\ \A v \in tasks : v.at \notin Listing => v \in tasks'
  BY <1>2 DEF Spawn
<1>. QED  BY <1>1, <1>3, <1>4, KeysUndisturbed, NobodyMoves DEF TypeInv

-----------------------------------------------------------------------------
\* Requests of a user who has nothing under way.  In the lobby he is a player of no room.
LEMMA InLobbyMoves ==
    ASSUME Patient = TRUE, Tidy = TRUE, TypeInv, PlaceInv, NEW u \in Users,
           \/ \E private \in BOOLEAN : RequestCreate(u, private)
           \/ \E c \in Codes : RequestJoin(u, c)
    PROVE  PlaceInv'
<1>1. InLobby(u) /\ UNCHANGED <<rooms, session, roomId, page, live>>
  BY DEF RequestCreate, RequestJoin, Keys, Sockets
<1>2. PICK w : Spawn(w) /\ w.user = u /\ w.at \in {"code", "find"}
  <2>1. ASSUME NEW private \in BOOLEAN, RequestCreate(u, private)
        PROVE  \E w : Spawn(w) /\ w.user = u /\ w.at \in {"code", "find"}
    <3>1. PICK w : w = [Handler("code", u) EXCEPT !.private = private]
      OBVIOUS
    <3>2. w.user = u /\ w.at = "code"
      BY <3>1 DEF Handler
    <3>. QED  BY <2>1, <3>1, <3>2 DEF RequestCreate
  <2>2. ASSUME NEW c \in Codes, RequestJoin(u, c)
        PROVE  \E w : Spawn(w) /\ w.user = u /\ w.at \in {"code", "find"}
    <3>1. PICK w : w = [Handler("find", u) EXCEPT !.code = c]
      OBVIOUS
    <3>2. w.user = u /\ w.at = "find"
      BY <3>1 DEF Handler
    <3>. QED  BY <2>2, <3>1, <3>2 DEF RequestJoin
  <2>. QED  BY <2>1, <2>2
<1>3. Calm(u) /\ page[u] = None /\ live[u] = TRUE
  BY <1>1 DEF InLobby, TypeInv, UsersOK
<1>4. AtHome(u)
  BY <1>3 DEF PlaceInv
<1>5. roomId[u] = None /\ InNone(u)
  BY <1>3, <1>4, RoomDirectoryAssumption DEF AtHome, InNone, Existing, Exists
<1>6. Placed(w, u)
  BY <1>2, <1>3, <1>5 DEF Placed, Seeks, Returns, Arrives, Leaves, IsLost, Stays,
     Entering, Entered, Gone, Elsewhere
<1>7. \A v : Undisturbed(v)
  BY <1>1, KeysUndisturbed
<1>8. Placed(w, u)'
  BY <1>6, <1>7, UndisturbedPlaced
<1>. QED  BY <1>2, <1>3, <1>7, <1>8, RequestMoves DEF TypeInv, Listing

LEMMA ReconnectMoves ==
    ASSUME TypeInv, PlaceInv, NEW u \in Users, Reconnect(u) PROVE PlaceInv'
<1>. DEFINE w == Handler("resume", u)
<1>1. /\ Calm(u) /\ live[u] = FALSE /\ live' = [live EXCEPT ![u] = TRUE]
      /\ Spawn(w) /\ UNCHANGED <<rooms, session, roomId, page>> /\ UsersOK
  BY DEF Reconnect, Keys, TypeInv, UsersOK
<1>2. w.user = u /\ w.at = "resume"
  BY DEF Handler
<1>. HIDE DEF w
<1>3. \A v \in Users : v # u => Undisturbed(v)
  BY <1>1, KeysUndisturbed DEF UsersOK
<1>4. AtHome(u)
  BY <1>1 DEF PlaceInv
<1>5. /\ live'[u] = TRUE /\ roomId'[u] = None /\ session' = session
      /\ Existing' = Existing /\ rooms' = rooms
      /\ \A q \in Existing : u \in rooms[q].players => q = session[u]
  BY <1>1, <1>4 DEF AtHome, UsersOK, Existing, Exists
<1>6. Placed(w, u)'
  BY <1>2, <1>5 DEF Placed, Seeks, Returns, Arrives, Leaves, IsLost, Stays,
     Entering, Entered, Gone, Elsewhere
<1>. QED  BY <1>1, <1>2, <1>3, <1>6, RequestMoves DEF TypeInv, Listing

LEMMA RequestLeaveMoves ==
    ASSUME Patient = TRUE, TypeInv, PlaceInv, NEW u \in Users, RequestLeave(u)
    PROVE  PlaceInv'
<1>1. /\ Calm(u) /\ live[u] = TRUE /\ page' = [page EXCEPT ![u] = None]
      /\ UNCHANGED <<rooms, session, roomId, live>> /\ UsersOK
  BY DEF RequestLeave, Keys, Sockets, TypeInv, UsersOK
<1>2. PICK w : w = [Handler("remove", u) EXCEPT !.room = roomId[u], !.leaving = TRUE]
  OBVIOUS
<1>3. w.user = u /\ w.at = "remove" /\ w.room = roomId[u] /\ w.leaving = TRUE
  BY <1>2 DEF Handler
<1>4. \A v \in Users : v # u => Undisturbed(v)
  BY <1>1, KeysUndisturbed DEF UsersOK
<1>5. AtHome(u)
  BY <1>1 DEF PlaceInv
<1>6. /\ page'[u] = None /\ live'[u] = TRUE /\ roomId' = roomId
      /\ Existing' = Existing /\ rooms' = rooms
      /\ \A q \in Existing : u \in rooms[q].players =>
             q = roomId[u] /\ u \in rooms[q].connected
  BY <1>1, <1>5 DEF AtHome, UsersOK, Existing, Exists
<1>7. CASE roomId[u] = None
  <2>1. UNCHANGED tasks
    BY <1>7 DEF RequestLeave
  <2>2. InNone(u)'
    BY <1>6, <1>7, RoomDirectoryAssumption DEF InNone, Existing, Exists
  <2>3. AtHome(u)'
    BY <1>6, <1>7, <2>2 DEF AtHome, InNone
  <2>. QED  BY <1>1, <1>4, <2>1, <2>3, RequestMoves DEF TypeInv
<1>8. CASE roomId[u] # None
  <2>1. Spawn(w)
    BY <1>2, <1>8 DEF RequestLeave
  <2>2. OnlyIn(u, w.room)'
    BY <1>3, <1>6 DEF OnlyIn
  <2>3. Placed(w, u)'
    BY <1>3, <1>6, <2>2 DEF Placed, Seeks, Returns, Arrives, Leaves, IsLost, Stays,
       Entering, Entered, Gone, Elsewhere
  <2>. QED  BY <1>1, <1>3, <1>4, <2>1, <2>3, RequestMoves DEF TypeInv, Listing
<1>. QED  BY <1>7, <1>8

LEMMA LoseMoves ==
    ASSUME TypeInv, PlaceInv, NEW u \in Users, Lose(u) PROVE PlaceInv'
<1>1. /\ Calm(u) /\ live[u] = TRUE /\ live' = [live EXCEPT ![u] = FALSE]
      /\ roomId' = [roomId EXCEPT ![u] = None]
      /\ UNCHANGED <<rooms, session, page>> /\ UsersOK
  BY DEF Lose, Keys, TypeInv, UsersOK
<1>2. PICK w : w = [Handler("mark", u) EXCEPT !.room = roomId[u]]
  OBVIOUS
<1>3. w.user = u /\ w.at = "mark" /\ w.room = roomId[u]
  BY <1>2 DEF Handler
<1>4. \A v \in Users : v # u => Undisturbed(v)
  BY <1>1, KeysUndisturbed DEF UsersOK
<1>5. AtHome(u)
  BY <1>1 DEF PlaceInv
<1>6. /\ live'[u] = FALSE /\ roomId'[u] = None /\ page' = page /\ session' = session
      /\ Existing' = Existing /\ rooms' = rooms
      /\ \A q \in Existing : u \in rooms[q].players =>
             q = roomId[u] /\ u \in rooms[q].connected /\ session[u] = q
      /\ roomId[u] \in {None, page[u]}
  BY <1>1, <1>5 DEF AtHome, UsersOK, Existing, Exists
<1>7. CASE roomId[u] = None
  <2>1. UNCHANGED tasks
    BY <1>7 DEF Lose
  <2>2. InNone(u)'
    BY <1>6, <1>7, RoomDirectoryAssumption DEF InNone, Existing, Exists
  <2>3. AtHome(u)'
    BY <1>6, <2>2 DEF AtHome, InNone
  <2>. QED  BY <1>1, <1>4, <2>1, <2>3, RequestMoves DEF TypeInv
<1>8. CASE roomId[u] # None
  <2>1. Spawn(w)
    BY <1>2, <1>8 DEF Lose
  <2>2. OnlyIn(u, w.room)' /\ page'[u] = w.room
    BY <1>3, <1>6, <1>8 DEF OnlyIn
  <2>3. InNone(u)' \/ session'[u] = w.room
    BY <1>3, <1>6 DEF InNone
  <2>4. Placed(w, u)'
    BY <1>3, <1>6, <2>2, <2>3 DEF Placed, Seeks, Returns, Arrives, Leaves, IsLost, Stays,
       Entering, Entered, Gone, Elsewhere
  <2>. QED  BY <1>1, <1>3, <1>4, <2>1, <2>4, RequestMoves DEF TypeInv, Listing
<1>. QED  BY <1>7, <1>8

LEMMA StayingRequestMoves ==
    ASSUME TypeInv, PlaceInv, NEW u \in Users, Calm(u),
           UNCHANGED <<rooms, session, roomId, page, live>>,
           NEW w, Spawn(w), w.user = u, w.at \in {"settings", "check"}, w.leaving = FALSE
    PROVE  PlaceInv'
<1>1. AtHome(u)
  BY DEF PlaceInv
<1>2. Placed(w, u)
  BY <1>1 DEF Placed, Seeks, Returns, Arrives, Leaves, IsLost, Stays,
     Entering, Entered, Gone, Elsewhere
<1>3. \A v : Undisturbed(v)
  BY KeysUndisturbed
<1>4. Placed(w, u)'
  BY <1>2, <1>3, UndisturbedPlaced
<1>. QED  BY <1>3, <1>4, RequestMoves DEF TypeInv, Listing

LEMMA RequestSettingsMoves ==
    ASSUME Patient = TRUE, TypeInv, PlaceInv, NEW u \in Users, NEW private \in BOOLEAN,
           RequestSettings(u, private)
    PROVE  PlaceInv'
<1>1. PICK w : w = [Handler("settings", u) EXCEPT !.room = roomId[u], !.private = private]
  OBVIOUS
<1>2. w.user = u /\ w.at = "settings" /\ w.leaving = FALSE
  BY <1>1 DEF Handler
<1>3. Calm(u) /\ Spawn(w)
  BY <1>1 DEF RequestSettings
<1>4. UNCHANGED <<rooms, session, roomId, page, live>>
  BY DEF RequestSettings, Keys, Sockets
<1>. QED  BY <1>2, <1>3, <1>4, StayingRequestMoves

LEMMA GraceTimeoutMoves ==
    ASSUME TypeInv, PlaceInv, NEW u \in Users, NEW r \in RoomIds, GraceTimeout(u, r)
    PROVE  PlaceInv'
<1>1. PICK w : w = [Handler("check", u) EXCEPT !.room = r]
  OBVIOUS
<1>2. w.user = u /\ w.at = "check" /\ w.leaving = FALSE
  BY <1>1 DEF Handler
<1>3. Calm(u) /\ Spawn(w)
  BY <1>1 DEF GraceTimeout
<1>4. UNCHANGED <<rooms, session, roomId, page, live>>
  BY DEF GraceTimeout, Keys
<1>. QED  BY <1>2, <1>3, <1>4, StayingRequestMoves

-----------------------------------------------------------------------------
LEMMA PlacesKeep ==
    Patient = TRUE /\ Tidy = TRUE /\ TypeInv /\ PlaceInv /\ [Next]_vars => PlaceInv'
<1>. SUFFICES ASSUME Patient = TRUE, Tidy = TRUE, TypeInv, PlaceInv, [Next]_vars
              PROVE  PlaceInv'
  OBVIOUS
<1>1. ASSUME NEW t \in tasks, Step(t) PROVE PlaceInv'
  BY <1>1, DrawCodeMoves, TestCodeMoves, StoreRoomMoves, RegisterMoves, FindRoomMoves,
     ResumeMoves, JoinMoves, BindSessionMoves, BindToRoomMoves, RemoveMoves, UnregisterMoves,
     DeleteMoves, ForgetMoves, UnbindMoves, MarkMoves, CheckMoves, ChangeSettingsMoves,
     ListingMoves DEF Step
<1>. QED  BY <1>1, NothingMoves, InLobbyMoves, ReconnectMoves, RequestLeaveMoves, LoseMoves,
             RequestSettingsMoves, GraceTimeoutMoves DEF Next

LEMMA NobodyYet == Init => PlaceInv
<1>. SUFFICES ASSUME Init PROVE PlaceInv
  OBVIOUS
<1>1. Existing = {} /\ tasks = {}
  BY DEF Init, Existing, Exists
<1>2. \A u \in Users : roomId[u] = None /\ live[u] = TRUE
  BY DEF Init
<1>. QED  BY <1>1, <1>2 DEF PlaceInv, OneTask, AtHome

\* When nothing is under way, record, page, connection and session agree on where a user
\* is, as long as users wait for the end of their last request and leave a room before they
\* enter another (game.gateway.ts:165-250, useGameConnection.ts:91-155).
THEOREM EverybodySomewhere ==
    ASSUME Patient = TRUE, Tidy = TRUE PROVE Spec => []Whereabouts
<1>1. Spec => []TypeInv
  BY InitTypes, NextTypes, PTL DEF Spec
<1>2. TypeInv /\ PlaceInv /\ [Next]_vars => PlaceInv'
  BY PlacesKeep
<1>3. Spec => []PlaceInv
  BY <1>1, <1>2, NobodyYet, PTL DEF Spec
<1>4. TypeInv /\ PlaceInv => Whereabouts
  <2>. SUFFICES ASSUME TypeInv, PlaceInv, tasks = {}
                PROVE  /\ \A r \in Existing : \A u \in rooms[r].connected :
                             live[u] /\ page[u] = r
                       /\ \A u \in Users :
                            /\ roomId[u] \in {None, page[u]}
                            /\ (live[u] /\ Exists(page[u]) /\ u \in rooms[page[u]].players) =>
                                   /\ u \in rooms[page[u]].connected
                                   /\ roomId[u] = page[u] /\ session[u] = page[u]
    BY DEF Whereabouts
  <2>1. \A u \in Users : AtHome(u)
    BY DEF PlaceInv, Calm
  <2>2. ASSUME NEW r \in Existing, NEW u \in rooms[r].connected PROVE live[u] /\ page[u] = r
    <3>1. u \in rooms[r].players /\ u \in Users
      BY <2>2, RoomFound DEF TypeInv, Existing, SoundRoom, Room
    <3>. QED  BY <2>1, <2>2, <3>1 DEF AtHome
  <2>3. ASSUME NEW u \in Users
        PROVE  /\ roomId[u] \in {None, page[u]}
               /\ (live[u] /\ Exists(page[u]) /\ u \in rooms[page[u]].players) =>
                      /\ u \in rooms[page[u]].connected
                      /\ roomId[u] = page[u] /\ session[u] = page[u]
    <3>1. Exists(page[u]) => page[u] \in Existing
      BY DEF TypeInv, UsersOK, MaybeRoom, Exists, Existing
    <3>. QED  BY <2>1, <3>1 DEF AtHome
  <2>. QED  BY <2>2, <2>3
<1>. QED  BY <1>1, <1>3, <1>4, PTL
=============================================================================
