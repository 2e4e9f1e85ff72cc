--------------------------- MODULE GameFlowProofs ---------------------------
(***************************************************************************)
(* Theorems about GameFlow, for any players and bounds, and for every      *)
(* setting of its constants that a theorem does not restrict: failures,    *)
(* crashes, leaves and late handlers included.                             *)
(***************************************************************************)
EXTENDS GameFlow, CommonProofs

\* What a step does to the record, whoever holds it.
USE DEF record, Write, Reorder

-----------------------------------------------------------------------------
(***************************************************************************)
(* The inductive invariant.  It is TypeOK and the two invariants to be     *)
(* proved, with what they rest on: a handler in flight runs on some node,  *)
(* whoever is connected is a player of the room, and a record that is held *)
(* over its deletion is held by a handler or by another request.           *)
(***************************************************************************)
TasksOK == /\ tasks \in [Slots -> Task]
           /\ \A s \in Slots : tasks[s].at # "idle" => tasks[s].node \in Nodes

RoomOK == /\ room \in Room /\ holder \in 0..Others /\ emptied \in BOOLEAN
          /\ room.connected \subseteq room.players
          /\ DrawOrderSound
          /\ OneDrawer

HistoryOK == turn \in Nat /\ drew \subseteq Players /\ departures \in 0..MaxDepartures

RestOK == secret \in Secret /\ db \in Database /\ HistoryOK

IInv == RoomOK /\ TasksOK /\ timers \subseteq Timer /\ RestOK

-----------------------------------------------------------------------------
(***************************************************************************)
(* Turn orders.                                                            *)
(***************************************************************************)
\* A shuffled order is sound for the players it was made of.
LEMMA OrdersSound ==
    ASSUME NEW S \in SUBSET Players, NEW o \in Orders(S)
    PROVE  SoundFor(o, S)
<1>1. Cardinality(S) \in Nat
  BY GameFlowAssumption, FS_Subset, FS_CardinalityType
<1>2. o \in Seq(S)
  BY <1>1 DEF Orders
<1>. QED  BY <1>2 DEF Orders, SoundFor

\* The swap that keeps a player from going first keeps an order sound.
LEMMA NotFirstSound ==
    ASSUME NEW S \in SUBSET Players, NEW o, SoundFor(o, S), NEW p
    PROVE  SoundFor(NotFirst(p, o), S)
<1>1. CASE ~(Len(o) > 1 /\ o[1] = p)
  BY <1>1 DEF NotFirst
<1>2. CASE Len(o) > 1 /\ o[1] = p
  <2>1. DOMAIN o = 1..Len(o) /\ Len(o) \in Nat /\ 1 \in DOMAIN o /\ 2 \in DOMAIN o
    BY <1>2 DEF SoundFor
  <2>2. \A i \in DOMAIN o : o[i] \in S
    BY DEF SoundFor
  <2>3. Swapped(o) \in [1..Len(o) -> S]
    BY <2>1, <2>2 DEF Swapped
  <2>4. Swapped(o) \in Seq(S)
    BY <2>1, <2>3
  <2>5. \A i, j \in 1..Len(o) : Swapped(o)[i] = Swapped(o)[j] => i = j
    BY <2>1 DEF Swapped, SoundFor
  <2>. QED  BY <1>2, <2>1, <2>3, <2>4, <2>5 DEF NotFirst, SoundFor
<1>. QED  BY <1>1, <1>2

-----------------------------------------------------------------------------
(***************************************************************************)
(* The record of the room.  RoomOK speaks of the record alone, so a step   *)
(* that leaves it alone keeps it.                                          *)
(***************************************************************************)
LEMMA NoOrder == << >> \in Seq(Players) /\ DOMAIN << >> = {}
OBVIOUS

LEMMA NoHolder == Others \in 0..Others /\ 0 \in 0..Others /\ Slots \subseteq 0..Others
BY GameFlowAssumption DEF Others, Slots

\* Nothing happens to an order that is left alone while no player leaves.
LEMMA SameOrder ==
    ASSUME DrawOrderSound, room'.drawOrder = room.drawOrder, room.players \subseteq room'.players,
           UNCHANGED emptied
    PROVE  DrawOrderSound'
BY DEF DrawOrderSound

\* The order of a room that always had players is one of its players.
LEMMA RoomOKSound == RoomOK /\ ~emptied => SoundFor(room.drawOrder, room.players)
BY DEF RoomOK, DrawOrderSound, SoundFor, Room

\* The room the host has just created is sound.
LEMMA InitRoom == Init => RoomOK
<1>. SUFFICES ASSUME Init PROVE RoomOK
  OBVIOUS
<1>1. room \in Room /\ holder \in 0..Others /\ emptied \in BOOLEAN
  <2>1. PICK host \in Players :
          room = [exists |-> TRUE, phase |-> "LOBBY", players |-> {host},
                  connected |-> {host}, drawOrder |-> << >>, turnPointer |-> 0,
                  currentRound |-> 0, drawing |-> {}, guessed |-> {}, gameId |-> 0]
    BY DEF Init
  <2>2. {host} \in SUBSET Players /\ {} \in SUBSET Players
    OBVIOUS
  <2>3. room \in Room
    BY <2>1, <2>2, NoOrder DEF Room, Phases
  <2>. QED  BY <2>3, NoHolder DEF Init
<1>2. room.drawOrder = << >> /\ ~emptied
  BY DEF Init
<1>3. DrawOrderSound
  BY <1>2, NoOrder DEF DrawOrderSound
<1>4. OneDrawer /\ room.connected \subseteq room.players
  BY DEF Init, OneDrawer
<1>. QED  BY <1>1, <1>3, <1>4 DEF RoomOK

\* What removePlayer() writes.
LEMMA RemovalKeepsRoomOK ==
    ASSUME RoomOK, NEW p \in Players, room' = RoomWithout(p), holder' = 0,
           emptied' = (emptied \/ room.players = {p})
    PROVE  RoomOK'
<1>0. holder' \in 0..Others /\ emptied' \in BOOLEAN
  BY NoHolder DEF RoomOK
<1>. DEFINE o == IF room.players = {p} THEN room.drawOrder ELSE Without(room.drawOrder, p)
<1>1. SoundFor(room.drawOrder, Players)
  BY DEF RoomOK, DrawOrderSound, SoundFor, Room
<1>2. SoundFor(Without(room.drawOrder, p), Players \ {p})
  BY <1>1, WithoutSound
<1>3. o \in Seq(Players) /\ \A i, j \in DOMAIN o : o[i] = o[j] => i = j
  BY <1>1, <1>2 DEF SoundFor
<1>4. room' = [room EXCEPT !.players = @ \ {p}, !.connected = @ \ {p},
                           !.drawing = @ \ {p}, !.guessed = @ \ {p}, !.drawOrder = o]
  BY DEF RoomWithout
<1>5. ASSUME emptied' PROVE Len(o) <= 1
  <2>1. CASE emptied
    <3>1. room.drawOrder \in Seq(Players) /\ Len(room.drawOrder) <= 1
      BY <2>1 DEF RoomOK, DrawOrderSound, Room
    <3>2. Len(Without(room.drawOrder, p)) <= 1
      BY <3>1 DEF Without
    <3>. QED  BY <3>1, <3>2
  <2>2. CASE ~emptied /\ room.players = {p}
    <3>1. /\ DOMAIN room.drawOrder = 1..Len(room.drawOrder) /\ Len(room.drawOrder) \in Nat
          /\ \A i \in DOMAIN room.drawOrder : room.drawOrder[i] = p
          /\ \A i, j \in DOMAIN room.drawOrder : room.drawOrder[i] = room.drawOrder[j] => i = j
      BY <1>1, <2>2 DEF RoomOK, DrawOrderSound, SoundFor
    <3>2. Len(room.drawOrder) > 1 => 1 \in 1..Len(room.drawOrder) /\ 2 \in 1..Len(room.drawOrder)
      BY <3>1
    <3>. QED  BY <2>2, <3>1, <3>2
  <2>. QED  BY <1>5, <2>1, <2>2
<1>6. ASSUME ~emptied' PROVE \A i \in DOMAIN o : o[i] \in room.players \ {p}
  <2>1. ~emptied /\ room.players # {p}
    BY <1>6 DEF RoomOK
  <2>2. SoundFor(Without(room.drawOrder, p), room.players \ {p})
    BY <2>1, RoomOKSound, WithoutSound
  <2>. QED  BY <2>1, <2>2 DEF SoundFor
<1>. HIDE DEF o
<1>7. room' \in Room /\ room'.connected \subseteq room'.players
  <2>1. room \in Room /\ room.connected \subseteq room.players
    BY DEF RoomOK
  <2>2. o \in Seq(Players)
    BY <1>3
  <2>. QED  BY <1>4, <2>1, <2>2 DEF Room
<1>8. room'.drawOrder = o /\ room'.players = room.players \ {p}
  BY <1>4 DEF RoomOK, Room
<1>9. DrawOrderSound'
  BY <1>0, <1>3, <1>5, <1>6, <1>8 DEF DrawOrderSound
<1>10. OneDrawer'
  BY <1>4 DEF RoomOK, Room, OneDrawer
<1>. QED  BY <1>0, <1>7, <1>9, <1>10 DEF RoomOK

\* What deleteRoom leaves.
LEMMA EraseKeepsRoomOK == Erase => RoomOK'
<1>. SUFFICES ASSUME Erase PROVE RoomOK'
  OBVIOUS
<1>1. room' \in Room /\ holder' \in 0..Others /\ emptied' \in BOOLEAN
  BY NoOrder, NoHolder DEF Erase, Absent, Room, Phases
<1>2. DrawOrderSound' /\ OneDrawer' /\ room'.connected \subseteq room'.players
  BY NoOrder DEF Erase, Absent, DrawOrderSound, OneDrawer
<1>. QED  BY <1>1, <1>2 DEF RoomOK

\* A mutate() that writes nothing leaves a good record.
LEMMA NoWriteKeepsRoomOK == ASSUME RoomOK, NEW h, NoWrite(h) PROVE RoomOK'
<1>1. CASE Erase
  BY <1>1, EraseKeepsRoomOK
<1>2. CASE UNCHANGED record
  BY <1>2 DEF RoomOK, DrawOrderSound, OneDrawer
<1>. QED  BY <1>1, <1>2 DEF NoWrite

\* A new order for the connected players, in an otherwise legal record.
LEMMA NewOrderKeepsRoomOK ==
    ASSUME RoomOK, NEW o, SoundFor(o, room.connected),
           room' \in Room, holder' = 0, emptied' = FALSE, room'.drawOrder = o, OneDrawer',
           room'.players = room.players, room'.connected = room.connected
    PROVE  RoomOK'
<1>1. holder' \in 0..Others /\ emptied' \in BOOLEAN /\ ~emptied'
  BY NoHolder
<1>2. \A i \in DOMAIN o : o[i] \in room.players
  BY DEF SoundFor, RoomOK
<1>3. DrawOrderSound'
  BY <1>1, <1>2 DEF DrawOrderSound, SoundFor
<1>. QED  BY <1>1, <1>3 DEF RoomOK

-----------------------------------------------------------------------------
\* Every step keeps the record of the room good.
LEMMA RoomStep == RoomOK /\ TasksOK /\ Next => RoomOK'
<1>. SUFFICES ASSUME RoomOK, TasksOK, Next PROVE RoomOK'
  OBVIOUS
<1>. USE NoHolder DEF Room, Phases
<1>1. CASE UNCHANGED record
  BY <1>1 DEF RoomOK, DrawOrderSound, OneDrawer
<1>2. ASSUME NEW p \in Players, Join(p) PROVE RoomOK'
  BY <1>2 DEF Join, RoomOK, DrawOrderSound, OneDrawer
<1>3. ASSUME NEW p \in Players, Disconnect(p) PROVE RoomOK'
  BY <1>3 DEF Disconnect, RoomOK, DrawOrderSound, OneDrawer
<1>4. ASSUME NEW n \in Nodes, NEW p \in Players, Leave(n, p) \/ Kick(n, p) PROVE RoomOK'
  BY <1>4, RemovalKeepsRoomOK DEF Leave, Kick, Remove
<1>5. ASSUME NEW s \in Slots, Delete(s) PROVE RoomOK'
  <2>1. CASE Erase
    BY <2>1, EraseKeepsRoomOK
  <2>2. ASSUME UNCHANGED <<room, emptied>>, holder' \in Slots \cup {Others} PROVE RoomOK'
    BY <2>2 DEF RoomOK, DrawOrderSound, OneDrawer
  <2>. QED  BY <1>1, <1>5, <2>1, <2>2 DEF Delete
<1>6. ASSUME NEW s \in Slots, StartGame(s), tasks[s].gameId \in Nat PROVE RoomOK'
  <2>1. PICK o \in Orders(room.connected) :
          /\ room' = [room EXCEPT !.gameId = tasks[s].gameId, !.currentRound = 1,
                                  !.turnPointer = 0, !.drawOrder = o,
                                  !.drawing = {}, !.guessed = {},
                                  !.phase = "WORD_SELECTION"]
          /\ holder' = 0 /\ emptied' = FALSE
    BY <1>6 DEF StartGame
  <2>2. SoundFor(o, room.connected)
    BY OrdersSound DEF RoomOK
  <2>3. o \in Seq(Players)
    BY <2>2 DEF SoundFor, RoomOK
  <2>. HIDE DEF Orders
  <2>4. room' \in Room /\ OneDrawer'
    BY <1>6, <2>1, <2>3 DEF RoomOK, OneDrawer
  <2>5. room'.drawOrder = o /\ room'.players = room.players /\ room'.connected = room.connected
    BY <2>1 DEF RoomOK
  <2>. QED  BY <2>1, <2>2, <2>4, <2>5, NewOrderKeepsRoomOK
<1>7. ASSUME NEW s \in Slots, BeginTurn(s) PROVE RoomOK'
  BY <1>7 DEF BeginTurn, RoomOK, DrawOrderSound, OneDrawer
<1>8. ASSUME NEW s \in Slots, SelectWord(s) PROVE RoomOK'
  <2>1. CASE NoWrite(s)
    BY <2>1, NoWriteKeepsRoomOK
  <2>2. CASE Write([room EXCEPT !.phase = "DRAWING"])
    BY <2>2 DEF RoomOK, DrawOrderSound, OneDrawer
  <2>. QED  BY <1>8, <2>1, <2>2 DEF SelectWord
<1>9. ASSUME NEW s \in Slots, CreditGuess(s) PROVE RoomOK'
  <2>1. CASE NoWrite(s)
    BY <2>1, NoWriteKeepsRoomOK
  <2>2. CASE Write([room EXCEPT !.guessed = @ \cup {tasks[s].player}])
             /\ tasks[s].player \in room.players
    BY <2>2 DEF RoomOK, DrawOrderSound, OneDrawer
  <2>. QED  BY <1>9, <2>1, <2>2 DEF CreditGuess
<1>10. ASSUME NEW s \in Slots, EndTurn(s) PROVE RoomOK'
  <2>1. SUFFICES ASSUME Write([room EXCEPT !.phase = "ROUND_END",
                                           !.drawing = @ \ {CurrentDrawer}])
                 PROVE  RoomOK'
    BY <1>10, NoWriteKeepsRoomOK DEF EndTurn
  <2>2. DrawOrderSound'
    BY <2>1, SameOrder DEF RoomOK
  <2>. QED  BY <2>1, <2>2 DEF RoomOK, OneDrawer
<1>11. ASSUME NEW s \in Slots, AdvanceTurn(s) PROVE RoomOK'
  <2>. DEFINE round == room.currentRound + 1
              pointer == room.turnPointer + 1
  <2>0. round \in Nat /\ pointer \in Nat
    BY DEF RoomOK
  <2>. HIDE DEF round, pointer
  <2>1. CASE Write(NextTurn) \/ Write(LastRoundOver)
    <3>1. DrawOrderSound'
      BY <2>1, SameOrder DEF NextTurn, LastRoundOver, RoomOK
    <3>2. room' \in Room
      <4>1. \/ room' = [room EXCEPT !.turnPointer = pointer]
            \/ room' = [room EXCEPT !.turnPointer = 0, !.currentRound = round]
        BY <2>1 DEF NextTurn, LastRoundOver, round, pointer
      <4>2. room \in Room
        BY DEF RoomOK
      <4>3. CASE room' = [room EXCEPT !.turnPointer = pointer]
        BY <2>0, <4>2, <4>3
      <4>4. CASE room' = [room EXCEPT !.turnPointer = 0, !.currentRound = round]
        BY <2>0, <4>2, <4>4
      <4>. QED  BY <4>1, <4>3, <4>4
    <3>. QED  BY <2>1, <3>1, <3>2 DEF NextTurn, LastRoundOver, RoomOK, OneDrawer
  <2>2. ASSUME NEW order \in Orders(room.connected), Reorder(NextRound(order)) PROVE RoomOK'
    <3>. DEFINE o == NotFirst(CurrentDrawer, order)
    <3>1. SoundFor(o, room.connected)
      BY OrdersSound, NotFirstSound DEF RoomOK
    <3>2. o \in Seq(Players)
      BY <3>1 DEF SoundFor, RoomOK
    <3>3. room' = [room EXCEPT !.turnPointer = 0, !.currentRound = round, !.drawOrder = o]
      BY <2>2 DEF NextRound, round
    <3>. HIDE DEF o
    <3>4. room' \in Room /\ OneDrawer'
      BY <2>0, <3>2, <3>3 DEF RoomOK, OneDrawer
    <3>5. room'.drawOrder = o /\ room'.players = room.players /\ room'.connected = room.connected
      BY <3>3 DEF RoomOK
    <3>6. holder' = 0 /\ emptied' = FALSE
      BY <2>2
    <3>. QED  BY <3>1, <3>4, <3>5, <3>6, NewOrderKeepsRoomOK
  <2>. QED  BY <1>11, <2>1, <2>2 DEF AdvanceTurn
<1>12. ASSUME NEW s \in Slots, EndGame(s) PROVE RoomOK'
  BY <1>12 DEF EndGame, RoomOK, DrawOrderSound, OneDrawer
<1>13. ASSUME NEW s \in Slots, ResetToLobby(s) PROVE RoomOK'
  <2>1. room' = [room EXCEPT !.phase = "LOBBY", !.currentRound = 0, !.turnPointer = 0,
                            !.drawOrder = << >>, !.gameId = 0, !.guessed = {},
                            !.drawing = {}]
    BY <1>13 DEF ResetToLobby
  <2>2. room' \in Room
    BY <2>1, NoOrder DEF RoomOK
  <2>3. /\ room'.drawOrder = << >> /\ room'.drawing = {}
        /\ room'.connected = room.connected /\ room'.players = room.players
        /\ holder' = 0 /\ emptied' = FALSE
    BY <1>13, <2>1 DEF ResetToLobby, RoomOK
  <2>4. DrawOrderSound'
    BY <2>3, NoOrder DEF DrawOrderSound
  <2>. QED  BY <2>2, <2>3, <2>4 DEF RoomOK, OneDrawer
<1>14. CASE OtherMutation
  BY <1>14, EraseKeepsRoomOK DEF OtherMutation, RoomOK, DrawOrderSound, OneDrawer
<1>. QED
  <2>1. ASSUME NEW n \in Nodes, RequestStart(n) \/ Crash(n) PROVE RoomOK'
    BY <1>1, <2>1, EraseKeepsRoomOK DEF RequestStart, Crash
  <2>2. ASSUME NEW n \in Nodes, NEW p \in Players, ChooseWord(n, p) \/ Guess(n, p)
        PROVE  UNCHANGED record
    BY <2>2 DEF ChooseWord, Guess
  <2>3. ASSUME NEW t \in timers, Timeout(t) \/ HintTick(t) PROVE UNCHANGED record
    BY <2>3 DEF Timeout, SelectTimeout, DrawTimeout, RoundEndTimeout, GameEndTimeout, HintTick
  <2>4. ASSUME NEW s \in Slots, PersistFails(s) \/ HandlerFails(s) PROVE RoomOK'
    BY <1>1, <2>4, NoWriteKeepsRoomOK DEF PersistFails, HandlerFails
  <2>5. ASSUME NEW s \in Slots, Resume(s) PROVE RoomOK'
    <3>1. CASE NoRoom(s) \/ PlayerGone(s) \/ Deal(s) \/ SetWord(s) \/ Arm(s)
               \/ (\E last \in BOOLEAN : RevealHint(s, last)) \/ TurnEnded(s)
               \/ SaveScores(s) \/ SaveStats(s)
      BY <1>1, <3>1 DEF NoRoom, PlayerGone, Deal, SetWord, Arm, RevealHint,
                        TurnEnded, SaveScores, SaveStats
    <3>2. tasks[s].gameId \in Nat
      BY DEF TasksOK, Task
    <3>3. CASE BeginNothing(s)
      BY <3>3, NoWriteKeepsRoomOK DEF BeginNothing
    <3>. QED  BY <2>5, <3>1, <3>2, <3>3, <1>5, <1>6, <1>7, <1>8, <1>9, <1>10, <1>11, <1>12,
                 <1>13 DEF Resume
  <2>. QED  BY <1>1, <1>2, <1>3, <1>4, <1>14, <2>1, <2>2, <2>3, <2>4, <2>5 DEF Next

-----------------------------------------------------------------------------
(***************************************************************************)
(* The handlers in flight and the timers.                                  *)
(***************************************************************************)
Legal(t) == t \in Task /\ (t.at # "idle" => t.node \in Nodes)

\* What is in a slot is a task, and runs on a node unless the slot is free.
LEMMA TasksAreLegal ==
    TasksOK <=> tasks \in [Slots -> Task] /\ \A s \in Slots : Legal(tasks[s])
BY DEF TasksOK, Legal

\* A free slot is legal.
LEMMA NoTaskLegal == Legal(NoTask)
BY DEF Legal, NoTask, Task, Labels

\* A handler that has just been entered.
LEMMA HandlerLegal ==
    ASSUME NEW n \in Nodes, NEW label \in Labels
    PROVE  /\ Legal(Handler(n, label))
           /\ Handler(n, label) \in Task
           /\ Handler(n, label).node = n
BY DEF Legal, Handler, NoTask, Task, Labels

\* Replacing one handler by a legal one.
LEMMA ReplaceKeepsTasksOK ==
    ASSUME TasksOK, NEW s \in Slots, NEW t, Legal(t), tasks' = [tasks EXCEPT ![s] = t]
    PROVE  TasksOK'
<1>1. t \in Task
  BY DEF Legal
<1>2. tasks' \in [Slots -> Task]
  BY <1>1 DEF TasksOK
<1>3. \A x \in Slots : tasks'[x] = t \/ tasks'[x] = tasks[x]
  BY DEF TasksOK
<1>. QED  BY <1>2, <1>3 DEF TasksOK, Legal

\* A new handler in a free slot.
LEMMA SpawnKeepsTasksOK ==
    ASSUME TasksOK, NEW t, Legal(t), Spawn(t)
    PROVE  TasksOK'
<1>. DEFINE s == CHOOSE x \in Free : TRUE
<1>1. s \in Slots /\ tasks' = [tasks EXCEPT ![s] = t]
  BY DEF Spawn, Free
<1>. QED  BY <1>1, ReplaceKeepsTasksOK

\* The other ways in which a handler goes on.
LEMMA FinishKeepsTasksOK ==
    ASSUME TasksOK, NEW s \in Slots, Finish(s)
    PROVE  TasksOK'
BY NoTaskLegal, ReplaceKeepsTasksOK DEF Finish

\* A handler that goes on and forgets what it captured.
LEMMA EnterKeepsTasksOK ==
    ASSUME TasksOK, NEW s \in Slots, tasks[s].at # "idle",
           NEW label \in Labels, Enter(s, label)
    PROVE  TasksOK'
<1>. DEFINE n == tasks[s].node
            t == [Handler(n, label) EXCEPT !.delays = tasks[s].delays]
<1>1. n \in Nodes /\ tasks[s].delays \in SUBSET (Nodes \X TimerKinds)
  BY DEF TasksOK, Task
<1>2. Handler(n, label) \in Task /\ Handler(n, label).node = n
  BY <1>1, HandlerLegal
<1>3. Legal(t)
  BY <1>1, <1>2 DEF Legal, Task
<1>4. tasks' = [tasks EXCEPT ![s] = t]
  BY DEF Enter, TasksOK
<1>. HIDE DEF t
<1>. QED  BY <1>3, <1>4, ReplaceKeepsTasksOK

\* A handler that ends by setting timers: the others note the delays.
LEMMA FinishSettingKeepsTasksOK ==
    ASSUME TasksOK, NEW s \in Slots, tasks[s].at # "idle",
           NEW kinds \in SUBSET TimerKinds, FinishSetting(s, kinds)
    PROVE  TasksOK'
<1>. DEFINE later(x) == [tasks[x] EXCEPT !.delays = @ \cup ({tasks[s].node} \X kinds)]
<1>1. {tasks[s].node} \X kinds \subseteq Nodes \X TimerKinds
  BY DEF TasksOK
<1>2. ASSUME NEW x \in Slots PROVE Legal(later(x))
  BY <1>1 DEF TasksOK, Legal, Task
<1>3. \A x \in Slots : Legal(tasks[x])
  BY TasksAreLegal
<1>4. ASSUME NEW x \in Slots PROVE Legal(tasks'[x])
  <2>1. tasks'[x] = NoTask \/ tasks'[x] = tasks[x] \/ tasks'[x] = later(x)
    BY DEF FinishSetting
  <2>. QED  BY <1>2, <1>3, <2>1, NoTaskLegal
<1>5. tasks' = [x \in Slots |-> tasks'[x]]
  BY DEF FinishSetting
<1>6. tasks' \in [Slots -> Task]
  BY <1>4, <1>5 DEF Legal
<1>. QED  BY <1>4, <1>6 DEF TasksOK, Legal

\* A handler that goes on with some of what it captured.
LEMMA GoOnKeepsTasksOK ==
    ASSUME TasksOK, NEW s \in Slots, tasks[s].at # "idle", NEW t \in Task,
           t.node = tasks[s].node, tasks' = [tasks EXCEPT ![s] = t]
    PROVE  TasksOK'
BY ReplaceKeepsTasksOK DEF TasksOK, Legal

\* A handler that goes on with what it captured.
LEMMA GotoKeepsTasksOK ==
    ASSUME TasksOK, NEW s \in Slots, tasks[s].at # "idle",
           NEW label \in Labels, Goto(s, label)
    PROVE  TasksOK'
<1>. DEFINE t == [tasks[s] EXCEPT !.at = label]
<1>1. t \in Task /\ t.node = tasks[s].node
  BY DEF TasksOK, Task
<1>2. tasks' = [tasks EXCEPT ![s] = t]
  BY DEF Goto
<1>. HIDE DEF t
<1>. QED  BY <1>1, <1>2, GoOnKeepsTasksOK

\* The order points at a player of the game or past its end.
LEMMA CurrentDrawerType == RoomOK => CurrentDrawer \in Players \cup {Nobody}
<1>. SUFFICES ASSUME RoomOK, room.turnPointer < Len(room.drawOrder)
              PROVE  room.drawOrder[room.turnPointer + 1] \in Players
  BY DEF CurrentDrawer
<1>1. room.drawOrder \in Seq(Players) /\ room.turnPointer \in Nat
  BY DEF RoomOK, Room
<1>. QED  BY <1>1

\* Every step keeps the handlers in flight legal.
LEMMA TasksStep == IInv /\ Next => TasksOK'
<1>. SUFFICES ASSUME RoomOK, TasksOK, timers \subseteq Timer, RestOK, Next PROVE TasksOK'
  BY DEF IInv
<1>. DEFINE P0 == Players \cup {Nobody}
<1>a. /\ secret.turn \in Nat /\ secret.chosen \in BOOLEAN
      /\ room.gameId \in Nat /\ room.players \in SUBSET Players
  BY DEF RoomOK, Room, RestOK, Secret
<1>b. CurrentDrawer \in P0
  BY CurrentDrawerType
<1>c. \A s \in Slots : tasks[s] \in Task
  BY DEF TasksOK
<1>d. ASSUME NEW n \in Nodes, NEW label \in Labels
      PROVE  Handler(n, label) \in Task /\ Handler(n, label).node = n
  BY HandlerLegal
<1>1. CASE UNCHANGED tasks
  BY <1>1 DEF TasksOK
<1>2. ASSUME NEW n \in Nodes, NEW p \in P0, ReadChoices(n, p) PROVE TasksOK'
  <2>. DEFINE t == [Handler(n, "select") EXCEPT !.player = p, !.turn = secret.turn]
  <2>1. Legal(t)
    <3>1. Handler(n, "select") \in Task /\ Handler(n, "select").node = n
      BY <1>d DEF Labels
    <3>. QED  BY <1>a, <3>1 DEF Legal, Task
  <2>. QED  BY <1>2, <2>1, SpawnKeepsTasksOK DEF ReadChoices
<1>3. ASSUME NEW n \in Nodes, NEW p \in Players, Leave(n, p) \/ Kick(n, p) PROVE TasksOK'
  <2>. DEFINE t == [Handler(n, "gone") EXCEPT !.player = p]
  <2>1. Legal(t)
    BY HandlerLegal DEF Labels, Legal, Task
  <2>2. Legal(Handler(n, "delete"))
    BY HandlerLegal DEF Labels
  <2>. QED  BY <1>1, <1>3, <2>1, <2>2, SpawnKeepsTasksOK DEF Leave, Kick, Remove
<1>4. ASSUME NEW n \in Nodes, RequestStart(n) PROVE TasksOK'
  <2>. DEFINE t == [Handler(n, "start") EXCEPT !.gameId = db.games + 1]
  <2>0. db.games + 1 \in Nat
    BY DEF RestOK, Database
  <2>1. Legal(t)
    BY <2>0, HandlerLegal DEF Labels, Legal, Task
  <2>. QED  BY <1>4, <2>1, SpawnKeepsTasksOK DEF RequestStart
<1>5. ASSUME NEW n \in Nodes, NEW p \in Players, Guess(n, p) PROVE TasksOK'
  <2>. DEFINE t == [Handler(n, "guess") EXCEPT !.player = p, !.turn = secret.turn,
                                               !.drawer = CurrentDrawer]
  <2>1. Legal(t)
    <3>1. Handler(n, "guess") \in Task /\ Handler(n, "guess").node = n
      BY <1>d DEF Labels
    <3>. QED  BY <1>a, <1>b, <3>1 DEF Legal, Task
  <2>. QED  BY <1>5, <2>1, SpawnKeepsTasksOK DEF Guess
<1>6. ASSUME NEW t \in timers, Timeout(t) \/ HintTick(t) PROVE TasksOK'
  <2>1. t.node \in Nodes /\ t.drawer \in P0
    BY DEF Timer
  <2>2. CASE SelectTimeout(t)
    BY <1>1, <1>2, <2>1, <2>2 DEF SelectTimeout
  <2>3. ASSUME NEW label \in Labels, Spawn(Handler(t.node, label)) PROVE TasksOK'
    BY <2>1, <2>3, HandlerLegal, SpawnKeepsTasksOK
  <2>4. CASE DrawTimeout(t) \/ RoundEndTimeout(t) \/ GameEndTimeout(t)
    BY <2>3, <2>4 DEF DrawTimeout, RoundEndTimeout, GameEndTimeout, Labels
  <2>5. CASE HintTick(t)
    <3>. DEFINE h == [Handler(t.node, "hint") EXCEPT !.turn = secret.turn,
                                                     !.chosen = secret.chosen]
    <3>1. Legal(h)
      <4>1. Handler(t.node, "hint") \in Task /\ Handler(t.node, "hint").node = t.node
        BY <1>d, <2>1 DEF Labels
      <4>. QED  BY <1>a, <2>1, <4>1 DEF Legal, Task
    <3>. QED  BY <2>5, <3>1, SpawnKeepsTasksOK DEF HintTick
  <2>. QED  BY <1>6, <2>2, <2>4, <2>5 DEF Timeout
<1>7. ASSUME NEW n \in Nodes, Crash(n) PROVE TasksOK'
  <2>1. \A s \in Slots : tasks'[s] = NoTask \/ tasks'[s] = tasks[s]
    BY <1>7 DEF Crash
  <2>2. tasks' = [s \in Slots |-> tasks'[s]]
    BY <1>7 DEF Crash
  <2>3. \A s \in Slots : Legal(tasks'[s])
    BY <2>1, TasksAreLegal, NoTaskLegal
  <2>4. tasks' \in [Slots -> Task]
    BY <2>2, <2>3 DEF Legal
  <2>. QED  BY <2>3, <2>4 DEF TasksOK, Legal
<1>8. ASSUME NEW s \in Slots, Finish(s) PROVE TasksOK'
  BY <1>8, FinishKeepsTasksOK
<1>9. ASSUME NEW s \in Slots, tasks[s].at # "idle", NEW label \in Labels, Enter(s, label)
      PROVE  TasksOK'
  BY <1>9, EnterKeepsTasksOK
<1>10. ASSUME NEW s \in Slots, tasks[s].at # "idle", NEW label \in Labels, Goto(s, label)
       PROVE  TasksOK'
  BY <1>10, GotoKeepsTasksOK
<1>11. ASSUME NEW s \in Slots, tasks[s].at # "idle",
              NEW kinds \in SUBSET TimerKinds, FinishSetting(s, kinds)
       PROVE  TasksOK'
  BY <1>11, FinishSettingKeepsTasksOK
<1>12. ASSUME NEW s \in Slots, tasks[s].at # "idle", ShowResults(s) PROVE TasksOK'
  BY <1>11, <1>12 DEF ShowResults, TimerKinds
<1>13. ASSUME NEW s \in Slots, Resume(s) PROVE TasksOK'
  <2>1. CASE NoRoom(s) \/ Delete(s) \/ BeginNothing(s) \/ ResetToLobby(s)
             \/ \E last \in BOOLEAN : RevealHint(s, last)
    BY <1>8, <2>1 DEF NoRoom, Delete, BeginNothing, ResetToLobby, RevealHint
  <2>2. CASE PlayerGone(s)
    BY <1>8, <1>9, <2>2 DEF PlayerGone, At, Labels
  <2>3. CASE StartGame(s) \/ AdvanceTurn(s)
    BY <1>9, <2>3 DEF StartGame, AdvanceTurn, At, Labels
  <2>4. CASE BeginTurn(s)
    <3>1. CASE CurrentDrawer \in room.players
      <4>. DEFINE t == [tasks[s] EXCEPT !.at = "deal", !.drawer = CurrentDrawer,
                                        !.turn = turn + 1]
      <4>1. turn + 1 \in Nat
        BY DEF RestOK, HistoryOK
      <4>2. t \in Task /\ t.node = tasks[s].node
        BY <1>b, <1>c, <4>1 DEF Task, Labels
      <4>3. tasks' = [tasks EXCEPT ![s] = t]
        BY <2>4, <3>1 DEF BeginTurn, TasksOK
      <4>. HIDE DEF t
      <4>. QED  BY <2>4, <4>2, <4>3, GoOnKeepsTasksOK DEF BeginTurn, At
    <3>2. CASE CurrentDrawer \notin room.players
      BY <1>9, <2>4, <3>2 DEF BeginTurn, At, Labels
    <3>. QED  BY <3>1, <3>2
  <2>5. CASE Deal(s) \/ Arm(s) \/ TurnEnded(s)
    BY <1>11, <2>5 DEF Deal, Arm, TurnEnded, At, TimerKinds
  <2>6. CASE SelectWord(s)
    <3>. DEFINE t == [tasks[s] EXCEPT !.at = "setWord", !.player = Nobody]
    <3>0. "setWord" \in Labels /\ Nobody \in P0
      BY DEF Labels
    <3>1. t \in Task /\ t.node = tasks[s].node
      BY <1>c, <3>0 DEF Task
    <3>2. tasks[s].at # "idle" /\ (Finish(s) \/ tasks' = [tasks EXCEPT ![s] = t])
      BY <2>6 DEF SelectWord, At, TasksOK
    <3>. HIDE DEF t
    <3>. QED  BY <1>8, <3>1, <3>2, GoOnKeepsTasksOK
  <2>7. CASE SetWord(s)
    BY <1>10, <2>7 DEF SetWord, At, Labels
  <2>8. CASE CreditGuess(s) \/ EndTurn(s)
    BY <1>8, <1>9, <2>8 DEF CreditGuess, EndTurn, At, Labels
  <2>9. CASE EndGame(s)
    <3>. DEFINE t == [tasks[s] EXCEPT !.at = "persist", !.gameId = room.gameId,
                                      !.ranked = room.players]
    <3>1. t \in Task /\ t.node = tasks[s].node
      BY <1>a, <1>c DEF Task, Labels
    <3>2. tasks[s].at # "idle" /\ tasks' = [tasks EXCEPT ![s] = t]
      BY <2>9 DEF EndGame, At, TasksOK
    <3>. HIDE DEF t
    <3>. QED  BY <3>1, <3>2, GoOnKeepsTasksOK
  <2>10. CASE SaveScores(s) \/ SaveStats(s)
    BY <1>10, <1>12, <2>10 DEF SaveScores, SaveStats, Labels
  <2>. QED  BY <1>13, <2>1, <2>2, <2>3, <2>4, <2>5, <2>6, <2>7, <2>8, <2>9, <2>10 DEF Resume
<1>14. ASSUME NEW s \in Slots, PersistFails(s) \/ HandlerFails(s) PROVE TasksOK'
  BY <1>8, <1>12, <1>14 DEF PersistFails, HandlerFails
<1>15. ASSUME OtherMutation \/ \E p \in Players : Join(p) \/ Disconnect(p) PROVE TasksOK'
  BY <1>1, <1>15 DEF OtherMutation, Join, Disconnect
<1>16. ASSUME NEW n \in Nodes, NEW p \in Players, ChooseWord(n, p) PROVE TasksOK'
  BY <1>2, <1>16 DEF ChooseWord
<1>. QED  BY <1>3, <1>4, <1>5, <1>6, <1>7, <1>13, <1>14, <1>15, <1>16 DEF Next

-----------------------------------------------------------------------------
\* Clearing timers leaves timers.
LEMMA ClearedOK ==
    ASSUME timers \subseteq Timer, NEW n, NEW kinds
    PROVE  Cleared(n, kinds) \subseteq Timer
BY DEF Cleared

\* Setting timers on a node leaves timers.
LEMMA ArmedOK ==
    ASSUME timers \subseteq Timer, NEW n \in Nodes, NEW kinds \in SUBSET TimerKinds,
           NEW d \in Players \cup {Nobody}
    PROVE  Armed(n, kinds, d) \subseteq Timer
<1>1. \A k \in kinds : [node |-> n, kind |-> k, drawer |-> d] \in Timer
  BY DEF Timer
<1>. QED  BY <1>1, ClearedOK DEF Armed

\* Every step sets timers of the code's kinds, on the nodes there are.
LEMMA TimersStep == TasksOK /\ timers \subseteq Timer /\ Next => timers' \subseteq Timer
<1>. SUFFICES ASSUME TasksOK, timers \subseteq Timer, Next PROVE timers' \subseteq Timer
  OBVIOUS
<1>1. CASE UNCHANGED timers
  BY <1>1
<1>2. ASSUME NEW n, NEW kinds, timers' = Cleared(n, kinds) PROVE timers' \subseteq Timer
  BY <1>2, ClearedOK
<1>3. ASSUME NEW n \in Nodes, NEW kinds \in SUBSET TimerKinds, NEW d \in Players \cup {Nobody},
             timers' = Armed(n, kinds, d)
      PROVE  timers' \subseteq Timer
  BY <1>3, ArmedOK
<1>4. ASSUME timers' \subseteq timers PROVE timers' \subseteq Timer
  BY <1>4
<1>5. ASSUME NEW s \in Slots, tasks[s].at # "idle"
      PROVE  tasks[s].node \in Nodes /\ tasks[s].drawer \in Players \cup {Nobody}
  BY <1>5 DEF TasksOK, Task
<1>6. ASSUME NEW s \in Slots, tasks[s].at # "idle", ShowResults(s)
      PROVE  timers' \subseteq Timer
  BY <1>3, <1>5, <1>6 DEF ShowResults, TimerKinds
<1>7. ASSUME NEW s \in Slots, Resume(s) PROVE timers' \subseteq Timer
  <2>1. CASE NoRoom(s) \/ Delete(s) \/ StartGame(s) \/ BeginTurn(s) \/ BeginNothing(s)
             \/ SetWord(s) \/ EndTurn(s) \/ EndGame(s) \/ ResetToLobby(s)
    BY <1>1, <2>1 DEF NoRoom, Delete, StartGame, BeginTurn, BeginNothing, SetWord, EndTurn,
                      EndGame, ResetToLobby
  <2>2. CASE PlayerGone(s) \/ SelectWord(s) \/ CreditGuess(s) \/ AdvanceTurn(s)
             \/ \E last \in BOOLEAN : RevealHint(s, last)
    BY <1>1, <1>2, <2>2 DEF PlayerGone, SelectWord, CreditGuess, AdvanceTurn, RevealHint
  <2>3. CASE Deal(s)
    BY <1>3, <1>5, <2>3 DEF Deal, At, TimerKinds
  <2>4. CASE Arm(s)
    BY <1>3, <1>5, <2>4 DEF Arm, TimerKinds
  <2>5. CASE TurnEnded(s)
    BY <1>3, <1>5, <2>5 DEF TurnEnded, At, TimerKinds
  <2>6. CASE SaveScores(s) \/ SaveStats(s)
    BY <1>1, <1>6, <2>6 DEF SaveScores, SaveStats
  <2>. QED  BY <1>7, <2>1, <2>2, <2>3, <2>4, <2>5, <2>6 DEF Resume
<1>8. ASSUME NEW s \in Slots, PersistFails(s) \/ HandlerFails(s) PROVE timers' \subseteq Timer
  BY <1>1, <1>6, <1>8 DEF PersistFails, HandlerFails
<1>9. ASSUME NEW t \in timers, Timeout(t) \/ HintTick(t) PROVE timers' \subseteq Timer
  BY <1>2, <1>4, <1>9 DEF Timeout, SelectTimeout, DrawTimeout, RoundEndTimeout,
                          GameEndTimeout, HintTick
<1>10. ASSUME OtherMutation \/ \E p \in Players : Join(p) \/ Disconnect(p)
       PROVE  timers' \subseteq Timer
  BY <1>10 DEF OtherMutation, Join, Disconnect
<1>11. ASSUME NEW n \in Nodes, RequestStart(n) \/ Crash(n) PROVE timers' \subseteq Timer
  BY <1>4, <1>11 DEF RequestStart, Crash
<1>12. ASSUME NEW n \in Nodes, NEW p \in Players,
              Leave(n, p) \/ Kick(n, p) \/ ChooseWord(n, p) \/ Guess(n, p)
       PROVE  timers' \subseteq Timer
  BY <1>12 DEF Leave, Kick, Remove, ChooseWord, Guess
<1>. QED  BY <1>7, <1>8, <1>9, <1>10, <1>11, <1>12 DEF Next

-----------------------------------------------------------------------------
\* Every step keeps the types of the secret, the database and the history.
LEMMA RestStep == IInv /\ Next => RestOK'
<1>. SUFFICES ASSUME RoomOK, TasksOK, RestOK, Next PROVE RestOK'
  BY DEF IInv
<1>1. secret' \in Secret
  <2>1. ASSUME NEW s \in Slots, Resume(s) PROVE secret' \in Secret
    <3>1. tasks[s].turn \in Nat /\ tasks[s].chosen \in BOOLEAN
      BY DEF TasksOK, Task
    <3>2. CASE Deal(s) \/ SetWord(s) \/ TurnEnded(s) \/ \E last \in BOOLEAN : RevealHint(s, last)
      <4>1. \A a \in Nat, b \in BOOLEAN : [turn |-> a, chosen |-> b] \in Secret
        BY DEF Secret
      <4>2. CASE Deal(s) \/ SetWord(s)
        BY <3>1, <4>1, <4>2 DEF Deal, SetWord
      <4>3. CASE TurnEnded(s)
        BY <4>1, <4>3 DEF TurnEnded, NoSecret
      <4>4. CASE \E last \in BOOLEAN : RevealHint(s, last)
        BY <3>1, <4>1, <4>4 DEF RevealHint
      <4>. QED  BY <3>2, <4>2, <4>3, <4>4
    <3>3. CASE UNCHANGED secret
      BY <3>3 DEF RestOK
    <3>4. CASE Delete(s)
      BY <3>4 DEF Delete, Secret, NoSecret
    <3>. QED  BY <2>1, <3>2, <3>3, <3>4 DEF Resume, NoRoom, PlayerGone, StartGame, BeginTurn,
                   BeginNothing, SelectWord, Arm, CreditGuess, EndTurn, AdvanceTurn, EndGame,
                   SaveScores, SaveStats, ResetToLobby
  <2>2. ASSUME NEW n \in Nodes, NEW p \in Players,
               Leave(n, p) \/ Kick(n, p) \/ ChooseWord(n, p) \/ Guess(n, p)
        PROVE  secret' \in Secret
    BY <2>2 DEF Leave, Kick, Remove, ChooseWord, Guess, RestOK
  <2>3. ASSUME NEW t \in timers, Timeout(t) \/ HintTick(t) PROVE secret' \in Secret
    BY <2>3 DEF Timeout, SelectTimeout, DrawTimeout, RoundEndTimeout, GameEndTimeout,
                HintTick, RestOK
  <2>4. ASSUME NEW s \in Slots, PersistFails(s) \/ HandlerFails(s) PROVE secret' \in Secret
    BY <2>4 DEF PersistFails, HandlerFails, RestOK
  <2>5. ASSUME OtherMutation \/ \E p \in Players : Join(p) \/ Disconnect(p)
        PROVE  secret' \in Secret
    BY <2>5 DEF OtherMutation, Join, Disconnect, RestOK
  <2>6. ASSUME NEW n \in Nodes, RequestStart(n) \/ Crash(n) PROVE secret' \in Secret
    BY <2>6 DEF RequestStart, Crash, RestOK
  <2>. QED  BY <2>1, <2>2, <2>3, <2>4, <2>5, <2>6 DEF Next
<1>2. db' \in Database
  <2>1. CASE UNCHANGED db
    BY <2>1 DEF RestOK
  <2>2. ASSUME NEW n \in Nodes, RequestStart(n) PROVE db' \in Database
    <3>. DEFINE g == db.games + 1
    <3>1. g \in Nat
      BY DEF RestOK, Database
    <3>2. db' = [db EXCEPT !.games = g]
      BY <2>2 DEF RequestStart
    <3>. HIDE DEF g
    <3>. QED  BY <3>1, <3>2 DEF RestOK, Database
  <2>3. ASSUME NEW s \in Slots, SaveScores(s) PROVE db' \in Database
    <3>1. tasks[s].gameId \in Nat /\ tasks[s].ranked \in SUBSET Players
      BY DEF TasksOK, Task
    <3>. DEFINE rows == {tasks[s].gameId} \X tasks[s].ranked
    <3>2. db.scores \cup rows \in SUBSET (Nat \X Players)
      BY <3>1 DEF RestOK, Database
    <3>3. db' = [db EXCEPT !.scores = db.scores \cup rows] \/ db' = db
      BY <2>3 DEF SaveScores
    <3>. HIDE DEF rows
    <3>. QED  BY <3>2, <3>3 DEF RestOK, Database
  <2>4. ASSUME NEW s \in Slots, SaveStats(s) PROVE db' \in Database
    <3>. DEFINE f == [p \in Players |-> IF p \in tasks[s].ranked THEN db.played[p] + 1
                                                                ELSE db.played[p]]
    <3>1. f \in [Players -> Nat]
      BY DEF RestOK, Database
    <3>2. db' = [db EXCEPT !.played = f]
      BY <2>4 DEF SaveStats
    <3>. HIDE DEF f
    <3>. QED  BY <3>1, <3>2 DEF RestOK, Database
  <2>5. ASSUME NEW s \in Slots, Resume(s) PROVE db' \in Database
    BY <2>1, <2>3, <2>4, <2>5 DEF Resume, NoRoom, PlayerGone, Delete, StartGame, BeginTurn,
         BeginNothing, Deal, SelectWord, SetWord, Arm, RevealHint, CreditGuess, EndTurn,
         TurnEnded, AdvanceTurn, EndGame, ResetToLobby
  <2>6. ASSUME NEW t \in timers, Timeout(t) \/ HintTick(t) PROVE UNCHANGED db
    BY <2>6 DEF Timeout, SelectTimeout, DrawTimeout, RoundEndTimeout, GameEndTimeout, HintTick
  <2>7. ASSUME NEW s \in Slots, PersistFails(s) \/ HandlerFails(s) PROVE UNCHANGED db
    BY <2>7 DEF PersistFails, HandlerFails
  <2>8. ASSUME OtherMutation \/ \E p \in Players : Join(p) \/ Disconnect(p) PROVE UNCHANGED db
    BY <2>8 DEF OtherMutation, Join, Disconnect
  <2>9. ASSUME NEW n \in Nodes, Crash(n) PROVE UNCHANGED db
    BY <2>9 DEF Crash
  <2>10. ASSUME NEW n \in Nodes, NEW p \in Players,
                Leave(n, p) \/ Kick(n, p) \/ ChooseWord(n, p) \/ Guess(n, p)
         PROVE  UNCHANGED db
    BY <2>10 DEF Leave, Kick, Remove, ChooseWord, Guess
  <2>. QED  BY <2>1, <2>2, <2>5, <2>6, <2>7, <2>8, <2>9, <2>10 DEF Next
<1>3. HistoryOK'
  <2>. USE DEF RestOK, HistoryOK
  <2>1. CASE UNCHANGED <<turn, drew, departures>>
    BY <2>1
  <2>2. ASSUME NEW s \in Slots, BeginTurn(s)
        PROVE  turn' \in Nat /\ drew' \subseteq Players /\ UNCHANGED departures
    BY <2>2 DEF BeginTurn, RoomOK, Room
  <2>3. ASSUME NEW s \in Slots, StartGame(s) \/ AdvanceTurn(s)
        PROVE  (drew' = drew \/ drew' = {}) /\ UNCHANGED <<turn, departures>>
    BY <2>3 DEF StartGame, AdvanceTurn
  <2>4. ASSUME CountDeparture, UNCHANGED <<turn, drew>> PROVE HistoryOK'
    BY <2>4, GameFlowAssumption DEF CountDeparture
  <2>5. ASSUME NEW s \in Slots, Resume(s) PROVE HistoryOK'
    BY <2>1, <2>2, <2>3, <2>5 DEF Resume, NoRoom, PlayerGone, Delete, BeginNothing, Deal, SelectWord,
         SetWord, Arm, RevealHint, CreditGuess, EndTurn, TurnEnded, EndGame, SaveScores,
         SaveStats, ResetToLobby
  <2>6. ASSUME NEW t \in timers, Timeout(t) \/ HintTick(t) PROVE HistoryOK'
    BY <2>1, <2>6 DEF Timeout, SelectTimeout, DrawTimeout, RoundEndTimeout, GameEndTimeout,
         HintTick
  <2>7. ASSUME NEW s \in Slots, PersistFails(s) \/ HandlerFails(s) PROVE HistoryOK'
    BY <2>1, <2>7 DEF PersistFails, HandlerFails
  <2>8. ASSUME OtherMutation \/ \E p \in Players : Join(p) \/ Disconnect(p) PROVE HistoryOK'
    BY <2>1, <2>4, <2>8 DEF OtherMutation, Join, Disconnect
  <2>9. ASSUME NEW n \in Nodes, RequestStart(n) \/ Crash(n) PROVE HistoryOK'
    BY <2>1, <2>9 DEF RequestStart, Crash
  <2>10. ASSUME NEW n \in Nodes, NEW p \in Players,
                Leave(n, p) \/ Kick(n, p) \/ ChooseWord(n, p) \/ Guess(n, p)
         PROVE  HistoryOK'
    BY <2>1, <2>4, <2>10 DEF Leave, Kick, Remove, ChooseWord, Guess
  <2>. QED  BY <2>5, <2>6, <2>7, <2>8, <2>9, <2>10 DEF Next
<1>. QED  BY <1>1, <1>2, <1>3 DEF RestOK

-----------------------------------------------------------------------------
\* The invariant holds at first.
LEMMA InitInv == Init => IInv
<1>. SUFFICES ASSUME Init PROVE IInv
  OBVIOUS
<1>1. RoomOK
  BY InitRoom
<1>2. TasksOK
  BY NoTaskLegal DEF Init, TasksOK, Legal, NoTask
<1>3. RestOK
  BY GameFlowAssumption DEF Init, RestOK, HistoryOK, Secret, NoSecret, Database
<1>4. timers \subseteq Timer
  BY DEF Init
<1>. QED  BY <1>1, <1>2, <1>3, <1>4 DEF IInv

\* Every step keeps the invariant: the parts put together.
LEMMA StepInv == IInv /\ [Next]_vars => IInv'
<1>1. IInv /\ Next => IInv'
  BY RoomStep, TasksStep, TimersStep, RestStep DEF IInv
<1>2. IInv /\ UNCHANGED vars => IInv'
  BY DEF IInv, RoomOK, TasksOK, RestOK, HistoryOK, DrawOrderSound, OneDrawer, vars
<1>. QED  BY <1>1, <1>2

\* The invariant holds in every reachable state.
LEMMA Invariance == Spec => []IInv
BY InitInv, StepInv, PTL DEF Spec

(***************************************************************************)
(* The record in Redis, the secret, the timers, the handlers and the rows  *)
(* always have the types the code gives them.                              *)
(***************************************************************************)
THEOREM TypeCorrect == Spec => []TypeOK
<1>1. IInv => TypeOK
  BY DEF IInv, RoomOK, TasksOK, RestOK, HistoryOK, TypeOK
<1>. QED  BY <1>1, Invariance, PTL

(***************************************************************************)
(* startGame and advanceTurn shuffle, removePlayer filters: however they   *)
(* interleave, the order names players of the room, each once, and one     *)
(* player at most once the room has been without players, even if a        *)
(* mutate() in flight brings the record back after deleteRoom.             *)
(***************************************************************************)
THEOREM TurnOrderIsSound == Spec => []DrawOrderSound
<1>1. IInv => DrawOrderSound
  BY DEF IInv, RoomOK
<1>. QED  BY <1>1, Invariance, PTL

(***************************************************************************)
(* However turns begin, end and are cut short, and by however many         *)
(* handlers at once, one player at most has the pen, and nobody in the     *)
(* lobby or on the results screen.                                         *)
(***************************************************************************)
THEOREM OnePen == Spec => []OneDrawer
<1>1. IInv => OneDrawer
  BY DEF IInv, RoomOK
<1>. QED  BY <1>1, Invariance, PTL

-----------------------------------------------------------------------------
(***************************************************************************)
(* Statistics.  A handler between the two commands of persistGameEnd has   *)
(* stored score rows and still owes their players a count.                 *)
(***************************************************************************)
Owed(p) == {s \in Slots : tasks[s].at = "stats" /\ p \in tasks[s].ranked}
Scored(p) == {g \in 1..MaxGames : <<g, p>> \in db.scores}

\* Handlers and the record know games that the database has given a number.
GamesKnown == /\ db.games <= MaxGames
              /\ room.gameId <= db.games
              /\ \A s \in Slots : tasks[s].gameId <= db.games

CountsCovered ==
    \A p \in Players : db.played[p] + Cardinality(Owed(p)) <= Cardinality(Scored(p))

LEMMA OwedIsFinite ==
    /\ \A p : IsFiniteSet(Owed(p)) /\ Cardinality(Owed(p)) \in Nat
    /\ \A p : IsFiniteSet(Scored(p)) /\ Cardinality(Scored(p)) \in Nat
<1>1. IsFiniteSet(Slots) /\ IsFiniteSet(1..MaxGames)
  BY FS_Interval, GameFlowAssumption DEF Slots
<1>2. ASSUME NEW p PROVE Owed(p) \subseteq Slots /\ Scored(p) \subseteq 1..MaxGames
  BY DEF Owed, Scored
<1>. QED  BY <1>1, <1>2, FS_Subset, FS_CardinalityType

\* What a removal leaves to be done.
Departing == {"gone", "delete"}

\* A handler owes a count after the step only if it did before, and knows no other game;
\* it owes nothing to a departure if nobody is removed, and it is about to start a game
\* only if it was before or finds two players connected.
Follows(x) == /\ tasks'[x].at = "stats" =>
                    tasks[x].at = "stats" /\ tasks'[x].ranked = tasks[x].ranked
              /\ tasks'[x].gameId \in {0, tasks[x].gameId, room.gameId, db'.games}
              /\ tasks'[x].at \in Departing => Leaves \/ tasks[x].at \in Departing
              /\ tasks'[x].at = "start" => \/ tasks[x].at = "start"
                                           \/ Cardinality(room.connected) >= 2

Plain(label) == /\ label # "stats"
                /\ label \in Departing => Leaves
                /\ label = "start" => Cardinality(room.connected) >= 2

LEMMA ReplaceFollows ==
    ASSUME TasksOK, NEW s, NEW t, tasks' = [tasks EXCEPT ![s] = t], Plain(t.at),
           s \in Slots => t.gameId \in {0, tasks[s].gameId, room.gameId, db'.games}
    PROVE  \A x \in Slots : Follows(x)
<1>1. \A x \in Slots : tasks'[x] = IF x = s THEN t ELSE tasks[x]
  BY DEF TasksOK
<1>. QED  BY <1>1 DEF Follows, Plain

LEMMA SpawnFollows ==
    ASSUME TasksOK, NEW t, Spawn(t), Plain(t.at), t.gameId \in {0, db'.games}
    PROVE  \A x \in Slots : Follows(x)
BY ReplaceFollows DEF Spawn

LEMMA HandlerFields ==
    \A n, label : Handler(n, label).at = label /\ Handler(n, label).gameId = 0
BY DEF Handler, NoTask

LEMMA EnterFollows ==
    ASSUME TasksOK, NEW s \in Slots, NEW label, Plain(label), Enter(s, label) \/ Finish(s)
    PROVE  \A x \in Slots : Follows(x)
<1>1. CASE Finish(s)
  <2>1. Plain(NoTask.at) /\ NoTask.gameId = 0
    BY DEF NoTask, Plain, Departing
  <2>. QED  BY <1>1, <2>1, ReplaceFollows DEF Finish
<1>2. CASE Enter(s, label)
  <2>1. PICK t : t = [Handler(tasks[s].node, label) EXCEPT !.delays = tasks[s].delays]
    OBVIOUS
  <2>2. t.at = label /\ t.gameId = 0
    BY <2>1 DEF Handler, NoTask
  <2>3. tasks' = [tasks EXCEPT ![s] = t]
    BY <1>2, <2>1 DEF Enter, TasksOK
  <2>. QED  BY <2>2, <2>3, ReplaceFollows
<1>. QED  BY <1>1, <1>2

LEMMA GotoFollows ==
    ASSUME TasksOK, NEW s \in Slots, NEW label, Plain(label), Goto(s, label)
    PROVE  \A x \in Slots : Follows(x)
<1>1. PICK t : t = [tasks[s] EXCEPT !.at = label]
  OBVIOUS
<1>2. t.at = label /\ t.gameId = tasks[s].gameId
  BY <1>1 DEF TasksOK, Task
<1>3. tasks' = [tasks EXCEPT ![s] = t]
  BY <1>1 DEF Goto
<1>. QED  BY <1>2, <1>3, ReplaceFollows

\* The handler that sets timers ends; the others note it.
LEMMA SettingFollows ==
    ASSUME TasksOK, NEW s \in Slots, NEW kinds, FinishSetting(s, kinds)
    PROVE  /\ \A x \in Slots : Follows(x)
           /\ tasks'[s].at # "stats"
<1>. DEFINE later(x) == [tasks[x] EXCEPT !.delays = @ \cup ({tasks[s].node} \X kinds)]
<1>1. ASSUME NEW x \in Slots
      PROVE  /\ later(x).at = tasks[x].at /\ later(x).ranked = tasks[x].ranked
             /\ later(x).gameId = tasks[x].gameId
  BY DEF TasksOK, Task
<1>2. ASSUME NEW x \in Slots
      PROVE  tasks'[x] = IF x = s THEN NoTask
                         ELSE IF tasks[x].at = "idle" \/ ~Prompt THEN tasks[x] ELSE later(x)
  BY DEF FinishSetting
<1>3. NoTask.at = "idle" /\ NoTask.gameId = 0
  BY DEF NoTask
<1>. HIDE DEF later
<1>. QED  BY <1>1, <1>2, <1>3 DEF Follows, Departing

\* Nothing else that a step does brings a new debt, or a game that has no number.
Unscored == UNCHANGED <<db.scores, db.played>> /\ \A x \in Slots : Follows(x)

LEMMA OtherSteps ==
    ASSUME IInv, Next, ~ \E s \in Slots : SaveScores(s) \/ SaveStats(s)
    PROVE  Unscored
<1>. USE DEF IInv, Plain, Departing
<1>1. ASSUME UNCHANGED <<tasks, db>> PROVE Unscored
  BY <1>1 DEF Unscored, Follows
<1>2. ASSUME UNCHANGED db, NEW t, Spawn(t), Plain(t.at), t.gameId = 0 PROVE Unscored
  BY <1>2, SpawnFollows DEF Unscored
<1>3. ASSUME UNCHANGED db, NEW s \in Slots, NEW label, Plain(label),
             Enter(s, label) \/ Finish(s) \/ Goto(s, label)
      PROVE  Unscored
  BY <1>3, EnterFollows, GotoFollows DEF Unscored
<1>4. ASSUME UNCHANGED db, NEW s \in Slots, NEW kinds, FinishSetting(s, kinds) PROVE Unscored
  BY <1>4, SettingFollows DEF Unscored
<1>5. ASSUME UNCHANGED db, NEW s \in Slots, NEW t, tasks' = [tasks EXCEPT ![s] = t],
             Plain(t.at), t.gameId \in {tasks[s].gameId, room.gameId}
      PROVE  Unscored
  BY <1>5, ReplaceFollows DEF Unscored
<1>6. ASSUME UNCHANGED db, NEW n, NEW p, ReadChoices(n, p) PROVE Unscored
  <2>1. PICK t : t = [Handler(n, "select") EXCEPT !.player = p, !.turn = secret.turn]
    OBVIOUS
  <2>2. t.at = "select" /\ t.gameId = 0
    BY <2>1 DEF Handler, NoTask
  <2>. QED  BY <1>2, <1>6, <2>1, <2>2 DEF ReadChoices
<1>7. ASSUME NEW n \in Nodes, RequestStart(n) PROVE Unscored
  <2>1. PICK g : g = db.games + 1
    OBVIOUS
  <2>2. PICK t : t = [Handler(n, "start") EXCEPT !.gameId = g]
    OBVIOUS
  <2>3. t.at = "start" /\ t.gameId = g
    BY <2>2 DEF Handler, NoTask
  <2>4. db'.games = g /\ db'.scores = db.scores /\ db'.played = db.played
    BY <1>7, <2>1 DEF RequestStart, RestOK, Database
  <2>5. Spawn(t)
    BY <1>7, <2>1, <2>2 DEF RequestStart
  <2>6. Plain(t.at)
    BY <1>7, <2>3 DEF RequestStart
  <2>. QED  BY <2>3, <2>4, <2>5, <2>6, SpawnFollows DEF Unscored
<1>8. ASSUME NEW n \in Nodes, NEW p \in Players,
             Leave(n, p) \/ Kick(n, p) \/ ChooseWord(n, p) \/ Guess(n, p)
      PROVE  Unscored
  <2>1. CASE Leave(n, p) \/ Kick(n, p)
    <3>1. PICK t : t = [Handler(n, "gone") EXCEPT !.player = p]
      OBVIOUS
    <3>2. t.at = "gone" /\ t.gameId = 0
      BY <3>1 DEF Handler, NoTask
    <3>3. Leaves
      BY <2>1 DEF Leave, Kick, Remove
    <3>. QED  BY <1>1, <1>2, <2>1, <3>1, <3>2, <3>3, HandlerFields DEF Leave, Kick, Remove
  <2>2. CASE ChooseWord(n, p)
    BY <1>6, <2>2 DEF ChooseWord
  <2>3. CASE Guess(n, p)
    <3>1. PICK t : t = [Handler(n, "guess") EXCEPT !.player = p, !.turn = secret.turn,
                                                   !.drawer = CurrentDrawer]
      OBVIOUS
    <3>2. t.at = "guess" /\ t.gameId = 0
      BY <3>1 DEF Handler, NoTask
    <3>. QED  BY <1>2, <2>3, <3>1, <3>2 DEF Guess
  <2>. QED  BY <1>8, <2>1, <2>2, <2>3
<1>9. ASSUME NEW t \in timers, Timeout(t) \/ HintTick(t) PROVE Unscored
  <2>1. CASE SelectTimeout(t)
    BY <1>1, <1>6, <2>1 DEF SelectTimeout
  <2>2. ASSUME NEW label, Plain(label), Spawn(Handler(t.node, label)), UNCHANGED db
        PROVE  Unscored
    BY <1>2, <2>2, HandlerFields
  <2>3. CASE DrawTimeout(t) \/ RoundEndTimeout(t) \/ GameEndTimeout(t)
    BY <2>2, <2>3 DEF DrawTimeout, RoundEndTimeout, GameEndTimeout
  <2>4. CASE HintTick(t)
    <3>1. PICK h : h = [Handler(t.node, "hint") EXCEPT !.turn = secret.turn,
                                                       !.chosen = secret.chosen]
      OBVIOUS
    <3>2. h.at = "hint" /\ h.gameId = 0
      BY <3>1 DEF Handler, NoTask
    <3>. QED  BY <1>2, <2>4, <3>1, <3>2 DEF HintTick
  <2>. QED  BY <1>9, <2>1, <2>3, <2>4 DEF Timeout
<1>10. ASSUME NEW n \in Nodes, Crash(n) PROVE Unscored
  <2>1. \A x \in Slots : tasks'[x] = NoTask \/ tasks'[x] = tasks[x]
    BY <1>10 DEF Crash
  <2>2. NoTask.at = "idle" /\ NoTask.gameId = 0 /\ UNCHANGED db
    BY <1>10 DEF NoTask, Crash
  <2>. QED  BY <2>1, <2>2 DEF Unscored, Follows
<1>11. ASSUME NEW s \in Slots, Resume(s) PROVE Unscored
  <2>0. CASE Finish(s) /\ UNCHANGED db
    <3>1. PICK label : label = "idle"
      OBVIOUS
    <3>. QED  BY <1>3, <2>0, <3>1
  <2>1. CASE NoRoom(s) \/ PlayerGone(s) \/ StartGame(s) \/ BeginNothing(s) \/ SetWord(s)
             \/ CreditGuess(s) \/ EndTurn(s) \/ AdvanceTurn(s) \/ ResetToLobby(s)
    <3>1. UNCHANGED db /\ \E label \in {"begin", "arm", "endTurn", "turnEnded", "endGame"} :
                             Enter(s, label) \/ Finish(s) \/ Goto(s, label)
      BY <2>1 DEF NoRoom, PlayerGone, StartGame, BeginNothing, SetWord,
         CreditGuess, EndTurn, AdvanceTurn, ResetToLobby
    <3>. QED  BY <1>3, <3>1
  <2>6. CASE Delete(s) \/ \E last \in BOOLEAN : RevealHint(s, last)
    <3>1. Finish(s) /\ UNCHANGED db
      BY <2>6 DEF Delete, RevealHint
    <3>. QED  BY <2>0, <3>1
  <2>2. CASE Deal(s) \/ Arm(s) \/ TurnEnded(s)
    BY <1>4, <2>2 DEF Deal, Arm, TurnEnded
  <2>3. CASE BeginTurn(s)
    <3>1. PICK t : t = [tasks[s] EXCEPT !.at = "deal", !.drawer = CurrentDrawer,
                                        !.turn = turn + 1]
      OBVIOUS
    <3>2. t.at = "deal" /\ t.gameId = tasks[s].gameId
      BY <3>1 DEF TasksOK, Task
    <3>3. tasks' = [tasks EXCEPT ![s] = t] \/ Enter(s, "advance")
      BY <2>3, <3>1 DEF BeginTurn, TasksOK
    <3>4. UNCHANGED db
      BY <2>3 DEF BeginTurn
    <3>. QED  BY <1>3, <1>5, <3>2, <3>3, <3>4
  <2>4. CASE SelectWord(s)
    <3>1. PICK t : t = [tasks[s] EXCEPT !.at = "setWord", !.player = Nobody]
      OBVIOUS
    <3>2. t.at = "setWord" /\ t.gameId = tasks[s].gameId
      BY <3>1 DEF TasksOK, Task
    <3>3. tasks' = [tasks EXCEPT ![s] = t] \/ Finish(s)
      BY <2>4, <3>1 DEF SelectWord, TasksOK
    <3>4. UNCHANGED db
      BY <2>4 DEF SelectWord
    <3>5. CASE Finish(s)
      BY <2>0, <3>4, <3>5
    <3>. QED  BY <1>5, <3>2, <3>3, <3>4, <3>5
  <2>5. CASE EndGame(s)
    <3>1. PICK t : t = [tasks[s] EXCEPT !.at = "persist", !.gameId = room.gameId,
                                        !.ranked = room.players]
      OBVIOUS
    <3>2. t.at = "persist" /\ t.gameId = room.gameId
      BY <3>1 DEF TasksOK, Task
    <3>3. tasks' = [tasks EXCEPT ![s] = t] /\ UNCHANGED db
      BY <2>5, <3>1 DEF EndGame, TasksOK
    <3>. QED  BY <1>5, <3>2, <3>3
  <2>. QED  BY <1>11, <2>1, <2>2, <2>3, <2>4, <2>5, <2>6 DEF Resume
<1>12. ASSUME NEW s \in Slots, PersistFails(s) \/ HandlerFails(s) PROVE Unscored
  <2>1. CASE PersistFails(s)
    BY <1>4, <2>1 DEF PersistFails, ShowResults
  <2>2. CASE HandlerFails(s)
    BY <1>3, <2>2 DEF HandlerFails
  <2>. QED  BY <1>12, <2>1, <2>2
<1>13. ASSUME OtherMutation \/ \E p \in Players : Join(p) \/ Disconnect(p) PROVE Unscored
  BY <1>1, <1>13 DEF OtherMutation, Join, Disconnect
<1>. QED  BY <1>7, <1>8, <1>9, <1>10, <1>11, <1>12, <1>13 DEF Next

\* The transaction of persistGameEnd, and the statistics that follow it.
LEMMA ScoresStep ==
    ASSUME IInv, NEW s \in Slots, SaveScores(s), tasks'[s].at = "stats"
    PROVE  /\ tasks[s].at = "persist" /\ tasks[s].gameId # 0
           /\ db'.games = db.games /\ db'.played = db.played
           /\ db'.scores = db.scores \cup ({tasks[s].gameId} \X tasks[s].ranked)
           /\ \A p \in tasks[s].ranked : <<tasks[s].gameId, p>> \notin db.scores
           /\ \A x \in Slots : /\ tasks'[x].at = IF x = s THEN "stats" ELSE tasks[x].at
                               /\ tasks'[x].ranked = tasks[x].ranked
                               /\ tasks'[x].gameId = tasks[x].gameId
<1>1. PICK rows : rows = {tasks[s].gameId} \X tasks[s].ranked
  OBVIOUS
<1>0. ~FinishSetting(s, {"gameEnd"})
  BY SettingFollows DEF IInv
<1>2. /\ tasks[s].at = "persist" /\ tasks[s].gameId # 0 /\ rows \cap db.scores = {}
      /\ db' = [db EXCEPT !.scores = db.scores \cup rows] /\ Goto(s, "stats")
  BY <1>0, <1>1 DEF SaveScores, ShowResults
<1>3. db'.games = db.games /\ db'.played = db.played /\ db'.scores = db.scores \cup rows
  BY <1>2 DEF IInv, RestOK, Database
<1>4. \A p \in tasks[s].ranked : <<tasks[s].gameId, p>> \in rows
  BY <1>1
<1>5. PICK t : t = [tasks[s] EXCEPT !.at = "stats"]
  OBVIOUS
<1>6. t.at = "stats" /\ t.ranked = tasks[s].ranked /\ t.gameId = tasks[s].gameId
  BY <1>5 DEF IInv, TasksOK, Task
<1>7. tasks' = [tasks EXCEPT ![s] = t]
  BY <1>2, <1>5 DEF Goto
<1>8. \A x \in Slots : tasks'[x] = IF x = s THEN t ELSE tasks[x]
  BY <1>7 DEF IInv, TasksOK
<1>. QED  BY <1>1, <1>2, <1>3, <1>4, <1>6, <1>8

LEMMA RefusedFollows ==
    ASSUME IInv, NEW s \in Slots, SaveScores(s), tasks'[s].at # "stats"
    PROVE  Unscored
<1>1. PICK t : t = [tasks[s] EXCEPT !.at = "stats"]
  OBVIOUS
<1>2. ~Goto(s, "stats")
  <2>1. t.at = "stats"
    BY <1>1 DEF IInv, TasksOK, Task
  <2>2. [tasks EXCEPT ![s] = t][s] = t
    BY DEF IInv, TasksOK
  <2>. QED  BY <1>1, <2>1, <2>2 DEF Goto
<1>3. FinishSetting(s, {"gameEnd"}) /\ UNCHANGED db
  BY <1>2 DEF SaveScores, ShowResults
<1>. QED  BY <1>3, SettingFollows DEF IInv, Unscored

LEMMA StatsStep ==
    ASSUME IInv, NEW s \in Slots, SaveStats(s)
    PROVE  /\ tasks[s].at = "stats" /\ tasks'[s].at # "stats"
           /\ db'.games = db.games /\ db'.scores = db.scores
           /\ \A p \in Players : db'.played[p] = IF p \in tasks[s].ranked THEN db.played[p] + 1
                                                 ELSE db.played[p]
           /\ \A x \in Slots : Follows(x)
<1>1. PICK f : f = [p \in Players |-> IF p \in tasks[s].ranked THEN db.played[p] + 1
                                                              ELSE db.played[p]]
  OBVIOUS
<1>2. db' = [db EXCEPT !.played = f]
  BY <1>1 DEF SaveStats
<1>3. db'.games = db.games /\ db'.scores = db.scores /\ db'.played = f
  BY <1>2 DEF IInv, RestOK, Database
<1>4. tasks[s].at = "stats" /\ FinishSetting(s, {"gameEnd"})
  BY DEF SaveStats, ShowResults
<1>. QED  BY <1>1, <1>3, <1>4, SettingFollows DEF IInv

\* The number of the game in the record is one a handler brought, or none.
LEMMA GameIdStep ==
    ASSUME IInv, Next
    PROVE  room'.gameId \in {0, room.gameId} \/ \E s \in Slots : room'.gameId = tasks[s].gameId
<1>. USE DEF IInv, RoomOK, Room
<1>1. CASE UNCHANGED room
  BY <1>1
<1>2. ASSUME NEW p \in Players, room' = RoomWithout(p) PROVE room'.gameId = room.gameId
  BY <1>2 DEF RoomWithout
<1>3. ASSUME NEW h, NoWrite(h) PROVE room'.gameId \in {0, room.gameId}
  BY <1>3 DEF NoWrite, Erase, Absent
<1>4. ASSUME NEW p \in Players, Join(p) \/ Disconnect(p) PROVE room'.gameId = room.gameId
  BY <1>4 DEF Join, Disconnect
<1>5. ASSUME NEW n \in Nodes, NEW p \in Players,
             Leave(n, p) \/ Kick(n, p) \/ ChooseWord(n, p) \/ Guess(n, p)
      PROVE  room'.gameId = room.gameId
  BY <1>2, <1>5 DEF Leave, Kick, Remove, ChooseWord, Guess
<1>6. ASSUME NEW s \in Slots, StartGame(s) PROVE room'.gameId = tasks[s].gameId
  BY <1>6 DEF StartGame
<1>7. ASSUME NEW s \in Slots,
             BeginTurn(s) \/ SelectWord(s) \/ CreditGuess(s) \/ EndTurn(s) \/ EndGame(s)
      PROVE  room'.gameId \in {0, room.gameId}
  BY <1>7, <1>3 DEF BeginTurn, SelectWord, CreditGuess, EndTurn, EndGame
<1>8. ASSUME NEW s \in Slots, AdvanceTurn(s) PROVE room'.gameId = room.gameId
  BY <1>8 DEF AdvanceTurn, NextTurn, NextRound, LastRoundOver
<1>9. ASSUME NEW s \in Slots, ResetToLobby(s) PROVE room'.gameId = 0
  BY <1>9 DEF ResetToLobby
<1>10. ASSUME NEW s \in Slots, Resume(s)
      PROVE  UNCHANGED room \/ room'.gameId \in {0, room.gameId, tasks[s].gameId}
  <2>1. CASE Delete(s)
    BY <2>1 DEF Delete, Erase, Absent
  <2>. QED  BY <1>6, <1>7, <1>8, <1>9, <1>10, <1>3, <2>1 DEF Resume, NoRoom, PlayerGone,
              BeginNothing, Deal, SetWord, Arm, RevealHint, TurnEnded, SaveScores, SaveStats
<1>11. CASE \/ \E n \in Nodes : RequestStart(n)
            \/ \E t \in timers : Timeout(t) \/ HintTick(t)
            \/ \E s \in Slots : PersistFails(s)
  BY <1>1, <1>11 DEF RequestStart, Timeout, SelectTimeout, DrawTimeout, RoundEndTimeout,
     GameEndTimeout, HintTick, PersistFails
<1>12. Erase => room'.gameId = 0
  BY DEF Erase, Absent
<1>13. CASE OtherMutation
  BY <1>12, <1>13 DEF OtherMutation
<1>14. ASSUME NEW n \in Nodes, Crash(n) PROVE room'.gameId \in {0, room.gameId}
  BY <1>12, <1>14 DEF Crash
<1>15. ASSUME NEW s \in Slots, HandlerFails(s) PROVE room'.gameId \in {0, room.gameId}
  BY <1>3, <1>15 DEF HandlerFails
<1>. QED  BY <1>1, <1>4, <1>5, <1>10, <1>11, <1>13, <1>14, <1>15 DEF Next

LEMMA GamesStep ==
    ASSUME IInv, GamesKnown, Next
    PROVE  GamesKnown'
<1>1. db.games \in Nat /\ room.gameId \in Nat /\ \A s \in Slots : tasks[s].gameId \in Nat
  BY DEF IInv, RestOK, Database, RoomOK, Room, TasksOK, Task
<1>2. db.games <= db'.games /\ db'.games <= MaxGames /\ db'.games \in Nat
  <2>1. CASE db'.games = db.games
    BY <1>1, <2>1 DEF GamesKnown
  <2>2. ASSUME NEW n \in Nodes, RequestStart(n)
        PROVE  db'.games = db.games + 1 /\ db.games < MaxGames
    BY <2>2 DEF RequestStart, IInv, RestOK, Database
  <2>3. ASSUME NEW s \in Slots, SaveScores(s) PROVE db'.games = db.games
    <3>1. (\E S : db' = [db EXCEPT !.scores = S]) \/ db' = db
      BY <2>3 DEF SaveScores
    <3>. QED  BY <3>1 DEF IInv, RestOK, Database
  <2>4. ASSUME NEW s \in Slots, SaveStats(s) PROVE db'.games = db.games
    BY <2>4, StatsStep
  <2>5. ASSUME NEW s \in Slots, Resume(s) PROVE db'.games = db.games
    BY <2>3, <2>4, <2>5 DEF Resume, NoRoom, PlayerGone, Delete, StartGame, BeginTurn,
         BeginNothing, Deal, SelectWord, SetWord, Arm, RevealHint, CreditGuess, EndTurn,
         TurnEnded, AdvanceTurn, EndGame, ResetToLobby
  <2>6. ASSUME \/ \E n \in Nodes : Crash(n)
               \/ \E n \in Nodes, p \in Players :
                     Leave(n, p) \/ Kick(n, p) \/ ChooseWord(n, p) \/ Guess(n, p)
               \/ \E t \in timers : Timeout(t) \/ HintTick(t)
               \/ OtherMutation \/ \E p \in Players : Join(p) \/ Disconnect(p)
               \/ \E s \in Slots : PersistFails(s) \/ HandlerFails(s)
        PROVE  db'.games = db.games
    BY <2>6 DEF Crash, Leave, Kick, Remove, ChooseWord, Guess, Timeout, SelectTimeout,
       DrawTimeout, RoundEndTimeout, GameEndTimeout, HintTick, OtherMutation, Join, Disconnect,
       PersistFails, HandlerFails
  <2>7. db'.games = db.games \/ (db'.games = db.games + 1 /\ db.games < MaxGames)
    BY <2>2, <2>5, <2>6 DEF Next
  <2>. QED  BY <1>1, <2>1, <2>7, GameFlowAssumption
<1>3. room'.gameId <= db'.games
  BY <1>1, <1>2, GameIdStep DEF GamesKnown
<1>4. ASSUME NEW x \in Slots PROVE tasks'[x].gameId <= db'.games
  <2>1. CASE Follows(x)
    BY <1>1, <1>2, <2>1 DEF Follows, GamesKnown
  <2>2. CASE tasks'[x].gameId = tasks[x].gameId
    BY <1>1, <1>2, <2>2 DEF GamesKnown
  <2>3. ASSUME NEW s \in Slots, SaveScores(s) \/ SaveStats(s)
        PROVE  Follows(x) \/ tasks'[x].gameId = tasks[x].gameId
    BY <2>3, ScoresStep, RefusedFollows, StatsStep DEF Unscored
  <2>. QED  BY <2>1, <2>2, <2>3, OtherSteps DEF Unscored
<1>. QED  BY <1>2, <1>3, <1>4 DEF GamesKnown

\* A debt comes with a score row of its own, and goes with its count.
LEMMA CountsStep ==
    ASSUME IInv, GamesKnown, CountsCovered, Next
    PROVE  CountsCovered'
<1>. SUFFICES ASSUME NEW p \in Players
              PROVE  (db.played[p] + Cardinality(Owed(p)) <= Cardinality(Scored(p)))'
  BY DEF CountsCovered
<1>1. PICK owed, scored : owed = Owed(p) /\ scored = Scored(p)
  OBVIOUS
<1>2. PICK owedNow, scoredNow : owedNow = Owed(p)' /\ scoredNow = Scored(p)'
  OBVIOUS
<1>3. /\ IsFiniteSet(owed) /\ Cardinality(owed) \in Nat
      /\ IsFiniteSet(scored) /\ Cardinality(scored) \in Nat
  BY <1>1, OwedIsFinite
<1>4. /\ IsFiniteSet(owedNow) /\ Cardinality(owedNow) \in Nat
      /\ IsFiniteSet(scoredNow) /\ Cardinality(scoredNow) \in Nat
  <2>1. owedNow \subseteq Slots /\ scoredNow \subseteq 1..MaxGames
    BY <1>2 DEF Owed, Scored
  <2>2. IsFiniteSet(Slots) /\ IsFiniteSet(1..MaxGames)
    BY FS_Interval, GameFlowAssumption DEF Slots
  <2>. QED  BY <2>1, <2>2, FS_Subset, FS_CardinalityType
<1>5. /\ db.played[p] + Cardinality(owed) <= Cardinality(scored)
      /\ db.played[p] \in Nat
  BY <1>1 DEF CountsCovered, IInv, RestOK, Database
<1>6. SUFFICES db'.played[p] + Cardinality(owedNow) <= Cardinality(scoredNow)
  BY <1>2
<1>7. CASE Unscored
  <2>1. owedNow \subseteq owed
    BY <1>1, <1>2, <1>7 DEF Unscored, Follows, Owed
  <2>2. scoredNow = scored /\ db'.played = db.played
    BY <1>1, <1>2, <1>7 DEF Unscored, Scored
  <2>3. Cardinality(owedNow) <= Cardinality(owed)
    BY <1>3, <2>1, FS_Subset
  <2>. QED  BY <1>3, <1>4, <1>5, <2>2, <2>3
<1>8. ASSUME NEW s \in Slots, SaveScores(s), tasks'[s].at = "stats"
      PROVE  db'.played[p] + Cardinality(owedNow) <= Cardinality(scoredNow)
  <2>. DEFINE g == tasks[s].gameId
  <2>1. g \in 1..MaxGames
    <3>1. g \in Nat /\ db.games \in Nat /\ g # 0 /\ g <= db.games /\ db.games <= MaxGames
      BY <1>8, ScoresStep DEF IInv, TasksOK, Task, RestOK, Database, GamesKnown
    <3>. QED  BY <3>1, GameFlowAssumption
  <2>2. CASE p \in tasks[s].ranked
    <3>1. owedNow = owed \cup {s} /\ s \notin owed
      BY <1>1, <1>2, <1>8, <2>2, ScoresStep DEF Owed
    <3>2. scoredNow = scored \cup {g} /\ g \notin scored
      BY <1>1, <1>2, <1>8, <2>1, <2>2, ScoresStep DEF Scored
    <3>3. /\ Cardinality(owedNow) = Cardinality(owed) + 1
          /\ Cardinality(scoredNow) = Cardinality(scored) + 1
      BY <1>3, <3>1, <3>2, FS_AddElement
    <3>4. db'.played[p] = db.played[p]
      BY <1>8, ScoresStep
    <3>. QED  BY <1>3, <1>5, <3>3, <3>4
  <2>3. CASE p \notin tasks[s].ranked
    <3>1. owedNow = owed
      BY <1>1, <1>2, <1>8, <2>3, ScoresStep DEF Owed
    <3>2. scoredNow = scored
      BY <1>1, <1>2, <1>8, <2>3, ScoresStep DEF Scored
    <3>3. db'.played[p] = db.played[p]
      BY <1>8, ScoresStep
    <3>. QED  BY <1>5, <3>1, <3>2, <3>3
  <2>. QED  BY <2>2, <2>3
<1>9. ASSUME NEW s \in Slots, SaveStats(s)
      PROVE  db'.played[p] + Cardinality(owedNow) <= Cardinality(scoredNow)
  <2>1. scoredNow = scored
    BY <1>1, <1>2, <1>9, StatsStep DEF Scored
  <2>2. owedNow \subseteq owed
    BY <1>1, <1>2, <1>9, StatsStep DEF Owed, Follows
  <2>3. CASE p \in tasks[s].ranked
    <3>1. s \in owed /\ owedNow \subseteq owed \ {s}
      BY <1>1, <1>2, <1>9, <2>2, <2>3, StatsStep DEF Owed
    <3>2. Cardinality(owed \ {s}) = Cardinality(owed) - 1 /\ IsFiniteSet(owed \ {s})
      BY <1>3, <3>1, FS_RemoveElement
    <3>3. Cardinality(owedNow) <= Cardinality(owed) - 1
      BY <3>1, <3>2, FS_Subset
    <3>4. db'.played[p] = db.played[p] + 1
      BY <1>9, <2>3, StatsStep
    <3>. QED  BY <1>3, <1>4, <1>5, <2>1, <3>3, <3>4
  <2>4. CASE p \notin tasks[s].ranked
    <3>1. Cardinality(owedNow) <= Cardinality(owed)
      BY <1>3, <2>2, FS_Subset
    <3>2. db'.played[p] = db.played[p]
      BY <1>9, <2>4, StatsStep
    <3>. QED  BY <1>3, <1>4, <1>5, <2>1, <3>1, <3>2
  <2>. QED  BY <2>3, <2>4
<1>. QED  BY <1>7, <1>8, <1>9, OtherSteps, RefusedFollows

(***************************************************************************)
(* A game that ends twice, on two nodes or after a departure, counts once: *)
(* the statistics of a player never run ahead of his score rows, whatever  *)
(* fails, restarts or leaves.                                              *)
(***************************************************************************)
THEOREM StatsNeverAhead == Spec => []StatsBacked
<1>1. Init => IInv /\ GamesKnown /\ CountsCovered
  <2>. SUFFICES ASSUME Init PROVE IInv /\ GamesKnown /\ CountsCovered
    OBVIOUS
  <2>1. GamesKnown
    BY GameFlowAssumption DEF Init, GamesKnown, NoTask
  <2>2. ASSUME NEW p \in Players PROVE db.played[p] = 0 /\ Owed(p) = {}
    BY DEF Init, Owed, NoTask
  <2>3. CountsCovered
    BY <2>2, OwedIsFinite, FS_EmptySet DEF CountsCovered
  <2>. QED  BY <2>1, <2>3, InitInv
<1>2. /\ IInv /\ GamesKnown /\ CountsCovered /\ [Next]_vars
      => IInv' /\ GamesKnown' /\ CountsCovered'
  <2>1. CASE UNCHANGED vars
    BY <2>1, StepInv DEF vars, GamesKnown, CountsCovered, Owed, Scored
  <2>. QED  BY <2>1, StepInv, GamesStep, CountsStep
<1>3. IInv /\ CountsCovered => StatsBacked
  <2>. SUFFICES ASSUME IInv, CountsCovered, NEW p \in Players
                PROVE  db.played[p] <= Cardinality(Scored(p))
    BY DEF StatsBacked, Scored
  <2>1. db.played[p] \in Nat
    BY DEF IInv, RestOK, Database
  <2>. QED  BY <2>1, OwedIsFinite DEF CountsCovered
<1>. QED  BY <1>1, <1>2, <1>3, PTL DEF Spec

-----------------------------------------------------------------------------
(***************************************************************************)
(* Who has the pen: through one game in which nobody is removed.           *)
(***************************************************************************)
\* Until its first turn a game is one handler, and before that the room is a lobby.
Begins == /\ turn = 0 => /\ room.phase \in {"LOBBY", "WORD_SELECTION"} /\ room.drawing = {}
                         /\ timers = {}
                         /\ \A s \in Slots : tasks[s].at \in {"idle", "start", "begin"}
                         /\ \A s, x \in Slots : tasks[s].at # "idle" /\ tasks[x].at # "idle"
                                                  => s = x
          /\ turn > 0 => \A s \in Slots : tasks[s].at # "start"
          /\ db.games = 0 => turn = 0 /\ \A s \in Slots : tasks[s].at = "idle"

\* Between two turns one handler, or one timer, brings about the next; in a turn, none.
Bringing == {"turnEnded", "advance", "begin", "endGame"}
Pausing == {t \in timers : t.kind = "roundEnd"}
InPlay == room.phase \in {"WORD_SELECTION", "DRAWING"} /\ turn > 0

OneSuccessor ==
    /\ \A s, x \in Slots : tasks[s].at \in Bringing /\ tasks[x].at \in Bringing => s = x
    /\ \A a, b \in Pausing : a = b
    /\ (\E s \in Slots : tasks[s].at \in Bringing) => Pausing = {}
    /\ InPlay => Pausing = {} /\ \A s \in Slots : tasks[s].at \notin Bringing

\* In a turn the player the order points at has the pen, while choosing as well.
PenWithDrawer == InPlay => room.drawing = {CurrentDrawer}

PenInv == Begins /\ OneSuccessor /\ PenWithDrawer

-----------------------------------------------------------------------------
(***************************************************************************)
(* What the steps do to the handlers in flight.                            *)
(***************************************************************************)
\* The handler in one slot goes to a label; the others stay where they are.
Moves(s, label) == \A x \in Slots : tasks'[x].at = IF x = s THEN label ELSE tasks[x].at

LEMMA ReplaceMoves ==
    ASSUME TasksOK, NEW s \in Slots, NEW t, tasks' = [tasks EXCEPT ![s] = t]
    PROVE  Moves(s, t.at)
BY DEF TasksOK, Moves

LEMMA SpawnMoves ==
    ASSUME TasksOK, NEW t, Spawn(t)
    PROVE  \E s \in Slots : tasks[s].at = "idle" /\ Moves(s, t.at)
<1>1. PICK s \in Free : tasks' = [tasks EXCEPT ![s] = t]
  BY DEF Spawn
<1>. QED  BY <1>1, ReplaceMoves DEF Free

LEMMA FinishMoves == ASSUME TasksOK, NEW s \in Slots, Finish(s) PROVE Moves(s, "idle")
<1>1. NoTask.at = "idle"
  BY DEF NoTask
<1>. QED  BY <1>1, ReplaceMoves DEF Finish

LEMMA EnterMoves ==
    ASSUME TasksOK, NEW s \in Slots, NEW label, Enter(s, label)
    PROVE  Moves(s, label)
<1>1. PICK t : t = [Handler(tasks[s].node, label) EXCEPT !.delays = tasks[s].delays]
  OBVIOUS
<1>2. t.at = label
  BY <1>1 DEF Handler, NoTask
<1>3. tasks' = [tasks EXCEPT ![s] = t]
  BY <1>1 DEF Enter, TasksOK
<1>. QED  BY <1>2, <1>3, ReplaceMoves

LEMMA GotoMoves ==
    ASSUME TasksOK, NEW s \in Slots, NEW label, Goto(s, label)
    PROVE  Moves(s, label)
<1>1. PICK t : t = [tasks[s] EXCEPT !.at = label]
  OBVIOUS
<1>2. t.at = label
  BY <1>1 DEF TasksOK, Task
<1>3. tasks' = [tasks EXCEPT ![s] = t]
  BY <1>1 DEF Goto
<1>. QED  BY <1>2, <1>3, ReplaceMoves

LEMMA SettingMoves ==
    ASSUME TasksOK, NEW s \in Slots, NEW kinds, FinishSetting(s, kinds)
    PROVE  Moves(s, "idle")
<1>. DEFINE later(x) == [tasks[x] EXCEPT !.delays = @ \cup ({tasks[s].node} \X kinds)]
<1>1. \A x \in Slots : later(x).at = tasks[x].at
  BY DEF TasksOK, Task
<1>2. \A x \in Slots :
        tasks'[x] = IF x = s THEN NoTask
                    ELSE IF tasks[x].at = "idle" \/ ~Prompt THEN tasks[x] ELSE later(x)
  BY DEF FinishSetting
<1>3. NoTask.at = "idle"
  BY DEF NoTask
<1>. HIDE DEF later
<1>. QED  BY <1>1, <1>2, <1>3 DEF Moves

-----------------------------------------------------------------------------
(***************************************************************************)
(* A room that nobody is removed from is never deleted.                    *)
(***************************************************************************)
Whole == /\ holder = 0 /\ ~emptied
         /\ \A s \in Slots : tasks[s].at \notin Departing

\* Then a mutate() that writes nothing changes nothing.
LEMMA NothingWritten ==
    ASSUME Whole, NEW s \in Slots, NoWrite(s)
    PROVE  UNCHANGED record
BY GameFlowAssumption DEF Whole, NoWrite, Slots

LEMMA InitWhole == Init => Whole
BY DEF Init, Whole, NoTask, Departing

LEMMA WholeStep ==
    ASSUME ~Leaves, IInv, Whole, [Next]_vars
    PROVE  Whole'
<1>1. CASE UNCHANGED vars
  BY <1>1 DEF Whole, vars
<1>2. CASE Next
  <2>1. holder' = 0 /\ ~emptied'
    <3>. USE DEF Whole
    <3>1. ASSUME NEW s \in Slots, NoWrite(s) PROVE holder' = 0 /\ ~emptied'
      BY <3>1, NothingWritten
    <3>2. ASSUME NEW s \in Slots, Resume(s) PROVE holder' = 0 /\ ~emptied'
      <4>1. ~Delete(s)
        BY DEF Delete, Departing
      <4>2. CASE BeginNothing(s) \/ SelectWord(s) \/ CreditGuess(s) \/ EndTurn(s)
        BY <3>1, <4>2 DEF BeginNothing, SelectWord, CreditGuess, EndTurn
      <4>3. CASE \/ NoRoom(s) \/ PlayerGone(s) \/ Deal(s) \/ SetWord(s) \/ Arm(s)
                 \/ TurnEnded(s) \/ SaveScores(s) \/ SaveStats(s)
                 \/ \E last \in BOOLEAN : RevealHint(s, last)
        BY <4>3 DEF NoRoom, PlayerGone, Deal, SetWord, Arm, RevealHint, TurnEnded, SaveScores,
                    SaveStats
      <4>4. CASE StartGame(s)
        BY <4>4 DEF StartGame
      <4>5. CASE AdvanceTurn(s)
        BY <4>5 DEF AdvanceTurn
      <4>6. CASE BeginTurn(s) \/ EndGame(s) \/ ResetToLobby(s)
        BY <4>6 DEF BeginTurn, EndGame, ResetToLobby
      <4>. QED  BY <3>2, <4>1, <4>2, <4>3, <4>4, <4>5, <4>6 DEF Resume
    <3>3. ASSUME NEW s \in Slots, PersistFails(s) \/ HandlerFails(s) PROVE holder' = 0 /\ ~emptied'
      BY <3>1, <3>3 DEF PersistFails, HandlerFails
    <3>4. ASSUME NEW t \in timers, Timeout(t) \/ HintTick(t) PROVE UNCHANGED record
      BY <3>4 DEF Timeout, SelectTimeout, DrawTimeout, RoundEndTimeout, GameEndTimeout, HintTick
    <3>5. 0 \notin Slots /\ Others # 0
      BY GameFlowAssumption DEF Slots, Others
    <3>6. ASSUME NEW n \in Nodes, RequestStart(n) \/ Crash(n) PROVE UNCHANGED record
      BY <3>5, <3>6 DEF RequestStart, Crash
    <3>7. ASSUME NEW n \in Nodes, NEW p \in Players,
                 Leave(n, p) \/ Kick(n, p) \/ ChooseWord(n, p) \/ Guess(n, p)
          PROVE  UNCHANGED record
      BY <3>7 DEF Leave, Kick, Remove, ChooseWord, Guess
    <3>8. ASSUME NEW p \in Players, Join(p) \/ Disconnect(p) PROVE holder' = 0 /\ ~emptied'
      BY <3>8 DEF Join, Disconnect
    <3>9. ~OtherMutation
      BY <3>5 DEF OtherMutation
    <3>. QED  BY <1>2, <3>2, <3>3, <3>4, <3>6, <3>7, <3>8, <3>9 DEF Next
  <2>2. \A x \in Slots : tasks'[x].at \in Departing => tasks[x].at \in Departing
    <3>1. CASE \A x \in Slots : Follows(x)
      BY <3>1 DEF Follows
    <3>2. ASSUME NEW s \in Slots, SaveScores(s), tasks'[s].at = "stats"
          PROVE  \A x \in Slots : tasks'[x].at \in Departing => tasks[x].at \in Departing
      BY <3>2, ScoresStep DEF Departing
    <3>. QED  BY <1>2, <3>1, <3>2, OtherSteps, RefusedFollows, StatsStep DEF Unscored
  <2>. QED  BY <2>1, <2>2 DEF Whole
<1>. QED  BY <1>1, <1>2

-----------------------------------------------------------------------------
(***************************************************************************)
(* A turn goes on: most steps change no more than this.                    *)
(***************************************************************************)
SameTurn == /\ room'.phase = room.phase /\ room'.drawing = room.drawing
            /\ room'.drawOrder = room.drawOrder /\ room'.turnPointer = room.turnPointer
            /\ turn' = turn /\ db'.games = db.games

Harmless(x) == \/ tasks'[x].at = tasks[x].at
               \/ tasks'[x].at = "idle"
               \/ turn > 0 /\ tasks'[x].at \notin Bringing \cup {"start"}

NewTimers == \A t \in timers' : t \in timers \/ (turn > 0 /\ t.kind # "roundEnd")

LEMMA TurnGoesOn ==
    ASSUME IInv, PenInv, SameTurn, NewTimers, \A x \in Slots : Harmless(x)
    PROVE  PenInv'
<1>. USE DEF PenInv, SameTurn, Harmless
<1>1. turn \in Nat /\ db.games \in Nat
  BY DEF IInv, RestOK, HistoryOK, Database
<1>2. Begins'
  BY <1>1 DEF Begins, NewTimers
<1>3. OneSuccessor'
  <2>1. Pausing' \subseteq Pausing
    BY DEF NewTimers, Pausing
  <2>2. \A x \in Slots : tasks'[x].at \in Bringing => tasks[x].at \in Bringing
    BY DEF Bringing
  <2>3. InPlay' => InPlay
    BY DEF InPlay
  <2>. QED  BY <2>1, <2>2, <2>3 DEF OneSuccessor
<1>4. PenWithDrawer'
  BY DEF PenWithDrawer, CurrentDrawer, InPlay
<1>. QED  BY <1>2, <1>3, <1>4

LEMMA Busy ==
    ASSUME IInv, PenInv, NEW s \in Slots, tasks[s].at \notin {"idle", "start", "begin"}
    PROVE  turn \in Nat /\ turn > 0
BY DEF IInv, RestOK, HistoryOK, PenInv, Begins

\* The record and the count of games are left alone.
LEMMA Quiet ==
    ASSUME IInv, PenInv, UNCHANGED <<room, turn, db>>, NewTimers, NEW s \in Slots, NEW label,
           Moves(s, label),
           \/ label = "idle"
           \/ turn > 0 /\ label \notin Bringing \cup {"start"}
    PROVE  PenInv'
<1>1. SameTurn /\ \A x \in Slots : Harmless(x)
  BY DEF SameTurn, Harmless, Moves
<1>. QED  BY <1>1, TurnGoesOn

LEMMA SpawnQuiet ==
    ASSUME IInv, PenInv, UNCHANGED <<room, turn, db>>, timers' \subseteq timers,
           NEW t, Spawn(t), turn > 0, t.at \notin Bringing \cup {"start"}
    PROVE  PenInv'
<1>1. PICK s \in Slots : Moves(s, t.at)
  BY SpawnMoves DEF IInv
<1>2. NewTimers
  BY DEF NewTimers
<1>. QED  BY <1>1, <1>2, Quiet

\* The fields a step leaves alone.
LEMMA RoomFields ==
    ASSUME IInv
    PROVE  /\ room \in Room /\ db \in Database
           /\ Whole => SoundFor(room.drawOrder, room.players)
BY RoomOKSound DEF IInv, RestOK, RoomOK, Whole

-----------------------------------------------------------------------------
(***************************************************************************)
(* Players, timers, failures.                                              *)
(***************************************************************************)
\* Who is there, and who is connected, does not move the pen.
LEMMA ConnectionKeeps ==
    ASSUME IInv, PenInv, NEW p \in Players, Join(p) \/ Disconnect(p)
    PROVE  PenInv'
<1>1. /\ room' = [room EXCEPT !.players = @ \cup {p}, !.connected = @ \cup {p}]
            \/ room' = [room EXCEPT !.connected = @ \ {p}]
      /\ UNCHANGED <<timers, tasks, db, turn>>
  BY DEF Join, Disconnect
<1>2. SameTurn
  BY <1>1, RoomFields DEF Room, SameTurn
<1>3. NewTimers /\ \A x \in Slots : Harmless(x)
  BY <1>1 DEF NewTimers, Harmless
<1>. QED  BY <1>2, <1>3, TurnGoesOn

LEMMA RequestKeeps ==
    ASSUME IInv, PenInv, NEW n \in Nodes, NEW p \in Players, ChooseWord(n, p) \/ Guess(n, p)
    PROVE  PenInv'
<1>1. turn > 0
  BY DEF IInv, RestOK, HistoryOK, PenInv, Begins, ChooseWord, Guess
<1>2. CASE ChooseWord(n, p)
  <2>1. PICK t : t = [Handler(n, "select") EXCEPT !.player = p, !.turn = secret.turn]
    OBVIOUS
  <2>2. t.at = "select" /\ Spawn(t) /\ UNCHANGED <<room, turn, db, timers>>
    BY <1>2, <2>1 DEF ChooseWord, ReadChoices, Handler, NoTask
  <2>. QED  BY <1>1, <2>2, SpawnQuiet DEF Bringing
<1>3. CASE Guess(n, p)
  <2>1. PICK t : t = [Handler(n, "guess") EXCEPT !.player = p, !.turn = secret.turn,
                                                 !.drawer = CurrentDrawer]
    OBVIOUS
  <2>2. t.at = "guess" /\ Spawn(t) /\ UNCHANGED <<room, turn, db, timers>>
    BY <1>3, <2>1 DEF Guess, Handler, NoTask
  <2>. QED  BY <1>1, <2>2, SpawnQuiet DEF Bringing
<1>. QED  BY <1>2, <1>3

LEMMA TimersKeep ==
    ASSUME IInv, PenInv, NEW t \in timers,
           SelectTimeout(t) \/ DrawTimeout(t) \/ GameEndTimeout(t) \/ HintTick(t)
    PROVE  PenInv'
<1>1. turn \in Nat /\ turn > 0
  BY DEF IInv, RestOK, HistoryOK, PenInv, Begins
<1>2. CASE SelectTimeout(t) /\ secret.turn = 0
  <2>1. SameTurn /\ NewTimers /\ \A x \in Slots : Harmless(x)
    BY <1>2 DEF SelectTimeout, SameTurn, NewTimers, Harmless
  <2>. QED  BY <2>1, TurnGoesOn
<1>3. CASE SelectTimeout(t) /\ secret.turn # 0
  <2>1. PICK h : h = [Handler(t.node, "select") EXCEPT !.player = t.drawer,
                                                       !.turn = secret.turn]
    OBVIOUS
  <2>2. h.at = "select" /\ Spawn(h) /\ UNCHANGED <<room, turn, db>> /\ timers' \subseteq timers
    BY <1>3, <2>1 DEF SelectTimeout, ReadChoices, Handler, NoTask
  <2>. QED  BY <1>1, <2>2, SpawnQuiet DEF Bringing
<1>4. CASE HintTick(t)
  <2>1. PICK h : h = [Handler(t.node, "hint") EXCEPT !.turn = secret.turn,
                                                     !.chosen = secret.chosen]
    OBVIOUS
  <2>2. h.at = "hint" /\ Spawn(h) /\ UNCHANGED <<room, turn, db, timers>>
    BY <1>4, <2>1 DEF HintTick, Handler, NoTask
  <2>. QED  BY <1>1, <2>2, SpawnQuiet DEF Bringing
<1>5. CASE DrawTimeout(t)
  BY <1>1, <1>5, SpawnQuiet, HandlerFields DEF DrawTimeout, Cleared, Bringing
<1>6. CASE GameEndTimeout(t)
  BY <1>1, <1>6, SpawnQuiet, HandlerFields DEF GameEndTimeout, Bringing
<1>. QED  BY <1>2, <1>3, <1>4, <1>5, <1>6

LEMMA FailuresKeep ==
    ASSUME IInv, Whole, PenInv,
           \/ \E n \in Nodes : Crash(n)
           \/ \E s \in Slots : PersistFails(s) \/ HandlerFails(s)
    PROVE  PenInv'
<1>1. ASSUME NEW n \in Nodes, Crash(n) PROVE PenInv'
  <2>1. NoTask.at = "idle"
    BY DEF NoTask
  <2>2. SameTurn /\ NewTimers /\ \A x \in Slots : Harmless(x)
    BY <1>1, <2>1, GameFlowAssumption DEF Whole, Slots, Crash, SameTurn, NewTimers, Harmless
  <2>. QED  BY <2>2, TurnGoesOn
<1>2. ASSUME NEW s \in Slots, HandlerFails(s) PROVE PenInv'
  <2>1. Moves(s, "idle") /\ NewTimers /\ UNCHANGED <<room, turn, db>>
    BY <1>2, FinishMoves, NothingWritten DEF HandlerFails, IInv, NewTimers
  <2>. QED  BY <2>1, Quiet
<1>3. ASSUME NEW s \in Slots, PersistFails(s) PROVE PenInv'
  <2>1. turn > 0
    BY <1>3, Busy DEF PersistFails
  <2>2. Moves(s, "idle") /\ UNCHANGED <<room, turn, db>>
    BY <1>3, SettingMoves DEF PersistFails, ShowResults, IInv
  <2>3. NewTimers
    BY <1>3, <2>1 DEF PersistFails, ShowResults, Armed, Cleared, NewTimers
  <2>. QED  BY <2>2, <2>3, Quiet
<1>. QED  BY <1>1, <1>2, <1>3

-----------------------------------------------------------------------------
(***************************************************************************)
(* Handlers that go on within a turn.                                      *)
(***************************************************************************)
LEMMA EndingKeeps ==
    ASSUME IInv, Whole, PenInv, NEW s \in Slots,
           NoRoom(s) \/ BeginNothing(s) \/ \E last \in BOOLEAN : RevealHint(s, last)
    PROVE  PenInv'
<1>1. Finish(s) /\ UNCHANGED <<room, turn, db>> /\ timers' \subseteq timers
  BY NothingWritten DEF NoRoom, BeginNothing, RevealHint, Cleared
<1>2. Moves(s, "idle") /\ NewTimers
  BY <1>1, FinishMoves DEF IInv, NewTimers
<1>. QED  BY <1>1, <1>2, Quiet

LEMMA SettingKeeps ==
    ASSUME IInv, Whole, PenInv, NEW s \in Slots, Deal(s) \/ Arm(s)
    PROVE  PenInv'
<1>1. turn > 0
  BY Busy DEF Deal, Arm
<1>2. Moves(s, "idle") /\ UNCHANGED <<room, turn, db>>
  BY SettingMoves DEF Deal, Arm, IInv
<1>3. NewTimers
  BY <1>1 DEF Deal, Arm, Armed, Cleared, NewTimers
<1>. QED  BY <1>2, <1>3, Quiet

LEMMA SetWordKeeps == ASSUME IInv, PenInv, NEW s \in Slots, SetWord(s) PROVE PenInv'
<1>1. turn > 0
  BY Busy DEF SetWord, At
<1>2. Moves(s, "arm") /\ UNCHANGED <<room, turn, db>> /\ NewTimers
  BY GotoMoves DEF SetWord, IInv, NewTimers
<1>. QED  BY <1>1, <1>2, Quiet DEF Bringing

\* Only the first command of persistGameEnd, and the second, write the database.
LEMMA SaveKeeps ==
    ASSUME IInv, PenInv, NEW s \in Slots, SaveScores(s) \/ SaveStats(s)
    PROVE  PenInv'
<1>1. turn > 0
  BY Busy DEF SaveScores, SaveStats
<1>2. Moves(s, "stats") \/ Moves(s, "idle")
  BY SettingMoves, GotoMoves DEF SaveScores, SaveStats, ShowResults, IInv
<1>3. NewTimers
  BY <1>1 DEF SaveScores, SaveStats, ShowResults, Armed, Cleared, NewTimers
<1>4. db'.games = db.games
  <2>1. CASE SaveScores(s)
    <3>1. (\E S : db' = [db EXCEPT !.scores = S]) \/ db' = db
      BY <2>1 DEF SaveScores
    <3>. QED  BY <3>1, RoomFields DEF Database
  <2>. QED  BY <2>1, StatsStep
<1>5. SameTurn
  BY <1>4 DEF SaveScores, SaveStats, SameTurn
<1>6. \A x \in Slots : Harmless(x)
  BY <1>1, <1>2 DEF Moves, Harmless, Bringing
<1>. QED  BY <1>3, <1>5, <1>6, TurnGoesOn

LEMMA CreditKeeps == ASSUME IInv, Whole, PenInv, NEW s \in Slots, CreditGuess(s) PROVE PenInv'
<1>1. turn > 0
  BY Busy DEF CreditGuess, At
<1>2. Moves(s, "endTurn") \/ Moves(s, "idle")
  BY EnterMoves, FinishMoves DEF CreditGuess, IInv
<1>3. NewTimers
  BY DEF CreditGuess, Cleared, NewTimers
<1>4. (\E G : room' = [room EXCEPT !.guessed = G]) \/ UNCHANGED room
  BY NothingWritten DEF CreditGuess
<1>5. SameTurn
  BY <1>4, RoomFields DEF CreditGuess, SameTurn, Room
<1>6. \A x \in Slots : Harmless(x)
  BY <1>1, <1>2 DEF Moves, Harmless, Bringing
<1>. QED  BY <1>3, <1>5, <1>6, TurnGoesOn

-----------------------------------------------------------------------------
(***************************************************************************)
(* From one turn to the next.                                              *)
(***************************************************************************)
\* After the first turn Begins has little left to say.
LEMMA BeginsStays ==
    ASSUME IInv, PenInv, turn > 0, UNCHANGED <<turn, db>>, NEW s \in Slots, NEW label,
           Moves(s, label), label # "start"
    PROVE  Begins'
BY DEF IInv, RestOK, HistoryOK, Database, PenInv, Begins, Moves

\* Out of play the pen is nobody's business.
LEMMA OutOfPlay ==
    ASSUME IInv, PenInv, turn > 0, UNCHANGED <<turn, db>>, ~InPlay', NEW s \in Slots, NEW label,
           Moves(s, label), label # "start",
           \* one handler at most brings the next turn about, and then no timer does
           \A a, b \in Pausing' : a = b,
           label \in Bringing => Pausing' = {},
           \/ label \in Bringing /\ \A x \in Slots \ {s} : tasks[x].at \notin Bringing
           \/ label \notin Bringing /\ Pausing' \subseteq Pausing
           \/ label \notin Bringing /\ \A x \in Slots \ {s} : tasks[x].at \notin Bringing
    PROVE  PenInv'
<1>1. Begins'
  BY BeginsStays
<1>2. PenWithDrawer'
  BY DEF PenWithDrawer
<1>3. OneSuccessor'
  BY DEF PenInv, OneSuccessor, Moves
<1>. QED  BY <1>1, <1>2, <1>3 DEF PenInv

\* endTurn's mutation finds a turn in play, or has nothing to do.
LEMMA EndTurnKeeps == ASSUME IInv, Whole, PenInv, NEW s \in Slots, EndTurn(s) PROVE PenInv'
<1>1. turn > 0 /\ UNCHANGED <<timers, db, turn>>
  BY Busy DEF EndTurn, At
<1>2. CASE Finish(s) /\ UNCHANGED room
  <2>1. Moves(s, "idle") /\ NewTimers
    BY <1>1, <1>2, FinishMoves DEF IInv, NewTimers
  <2>. QED  BY <1>1, <1>2, <2>1, Quiet
<1>3. CASE InPlay /\ Enter(s, "turnEnded") /\ room'.phase = "ROUND_END"
  <2>1. Moves(s, "turnEnded")
    BY <1>3, EnterMoves DEF IInv
  <2>2. Pausing' = {} /\ \A x \in Slots : tasks[x].at \notin Bringing
    BY <1>1, <1>3 DEF PenInv, OneSuccessor, Pausing
  <2>3. ~InPlay'
    BY <1>3 DEF InPlay
  <2>4. "turnEnded" \in Bringing
    BY DEF Bringing
  <2>. QED  BY <1>1, <2>1, <2>2, <2>3, <2>4, OutOfPlay
<1>4. \/ Finish(s) /\ UNCHANGED room
      \/ InPlay /\ Enter(s, "turnEnded") /\ room'.phase = "ROUND_END"
  BY <1>1, RoomFields, NothingWritten DEF EndTurn, InPlay, Room
<1>. QED  BY <1>2, <1>3, <1>4

\* A handler that brings the next turn about is the only one, and no timer does.
LEMMA OnlyOne ==
    ASSUME IInv, PenInv, NEW s \in Slots, tasks[s].at \in Bringing
    PROVE  /\ \A x \in Slots \ {s} : tasks[x].at \notin Bringing
           /\ Pausing = {}
           /\ ~InPlay
BY DEF PenInv, OneSuccessor

LEMMA TurnEndedKeeps == ASSUME IInv, PenInv, NEW s \in Slots, TurnEnded(s) PROVE PenInv'
<1>1. turn > 0 /\ UNCHANGED <<room, db, turn>> /\ tasks[s].at \in Bringing
  BY Busy DEF TurnEnded, Bringing
<1>2. Moves(s, "idle")
  BY SettingMoves DEF TurnEnded, IInv
<1>3. \A a, b \in Pausing' : a = b
  <2>1. PICK t : timers' = Cleared(tasks[s].node, {"roundEnd"}) \cup {t}
    BY DEF TurnEnded, Armed
  <2>2. Pausing' \subseteq {t}
    BY <1>1, <2>1, OnlyOne DEF Cleared, Pausing
  <2>. QED  BY <2>2
<1>4. ~InPlay'
  BY <1>1, OnlyOne DEF InPlay
<1>5. "idle" \notin Bringing
  BY DEF Bringing
<1>. QED  BY <1>1, <1>2, <1>3, <1>4, <1>5, OnlyOne, OutOfPlay

LEMMA PauseOver == ASSUME IInv, PenInv, NEW t \in timers, RoundEndTimeout(t) PROVE PenInv'
<1>1. t \in Pausing /\ UNCHANGED <<room, db, turn>> /\ timers' = timers \ {t}
  BY DEF RoundEndTimeout, Pausing
<1>2. turn > 0
  BY DEF IInv, RestOK, HistoryOK, PenInv, Begins
<1>3. Pausing' = {} /\ \A x \in Slots : tasks[x].at \notin Bringing
  BY <1>1 DEF PenInv, OneSuccessor, Pausing
<1>4. ~InPlay'
  BY <1>1 DEF PenInv, OneSuccessor, InPlay
<1>5. Spawn(Handler(t.node, "advance")) /\ Handler(t.node, "advance").at = "advance"
  BY HandlerFields DEF RoundEndTimeout
<1>6. PICK s \in Slots : Moves(s, "advance")
  BY <1>5, SpawnMoves DEF IInv
<1>7. "advance" \in Bringing
  BY DEF Bringing
<1>. QED  BY <1>1, <1>2, <1>3, <1>4, <1>6, <1>7, OutOfPlay

LEMMA AdvanceKeeps == ASSUME IInv, PenInv, NEW s \in Slots, AdvanceTurn(s) PROVE PenInv'
<1>1. turn > 0 /\ UNCHANGED <<db, turn>> /\ tasks[s].at \in Bringing
  BY Busy DEF AdvanceTurn, At, Bringing
<1>2. PICK label \in {"begin", "endGame"} : Enter(s, label)
  BY DEF AdvanceTurn
<1>3. Moves(s, label) /\ label \in Bringing
  BY <1>2, EnterMoves DEF IInv, Bringing
<1>4. timers' \subseteq timers
  BY DEF AdvanceTurn, Cleared
<1>5. Pausing' = {}
  BY <1>1, <1>4, OnlyOne DEF Pausing
<1>6. room'.phase = room.phase
  BY RoomFields DEF AdvanceTurn, NextTurn, NextRound, LastRoundOver, Room
<1>7. ~InPlay'
  BY <1>1, <1>6, OnlyOne DEF InPlay
<1>. QED  BY <1>1, <1>2, <1>3, <1>5, <1>7, OnlyOne, OutOfPlay

LEMMA EndGameKeeps == ASSUME IInv, PenInv, NEW s \in Slots, EndGame(s) PROVE PenInv'
<1>1. turn > 0 /\ UNCHANGED <<db, turn, timers>> /\ tasks[s].at \in Bringing
  BY Busy DEF EndGame, At, Bringing
<1>2. Moves(s, "persist")
  <2>1. PICK t : t = [tasks[s] EXCEPT !.at = "persist", !.gameId = room.gameId,
                                      !.ranked = room.players]
    OBVIOUS
  <2>2. tasks[s] \in Task
    BY DEF IInv, TasksOK
  <2>3. t.at = "persist"
    BY <2>1, <2>2 DEF Task
  <2>4. tasks' = [tasks EXCEPT ![s] = t]
    BY <2>1, <2>2 DEF EndGame, IInv, TasksOK
  <2>. QED  BY <2>3, <2>4, ReplaceMoves DEF IInv
<1>3. Pausing' = {}
  BY <1>1, OnlyOne DEF Pausing
<1>4. ~InPlay'
  BY RoomFields DEF EndGame, Room, InPlay
<1>5. "persist" \notin Bringing
  BY DEF Bringing
<1>. QED  BY <1>1, <1>2, <1>3, <1>4, <1>5, OutOfPlay

LEMMA ResetKeeps == ASSUME IInv, PenInv, NEW s \in Slots, ResetToLobby(s) PROVE PenInv'
<1>1. turn > 0 /\ UNCHANGED <<db, turn, timers>>
  BY Busy DEF ResetToLobby, At
<1>2. Moves(s, "idle")
  BY FinishMoves DEF ResetToLobby, IInv
<1>3. Pausing' = Pausing
  BY <1>1 DEF Pausing
<1>4. room'.phase = "LOBBY"
  BY RoomFields DEF ResetToLobby, Room
<1>5. ~InPlay' /\ "idle" \notin Bringing
  BY <1>4 DEF InPlay, Bringing
<1>6. \A a, b \in Pausing' : a = b
  BY <1>3 DEF PenInv, OneSuccessor
<1>. QED  BY <1>1, <1>2, <1>3, <1>5, <1>6, OutOfPlay

-----------------------------------------------------------------------------
(***************************************************************************)
(* The first turn, and every turn dealt.                                   *)
(***************************************************************************)
\* The one game starts when nothing is in flight.
LEMMA RequestStartKeeps ==
    ASSUME IInv, PenInv, MaxGames <= 1, NEW n \in Nodes, RequestStart(n)
    PROVE  PenInv'
<1>1. db.games = 0 /\ db'.games = 1
  <2>1. db.games \in Nat /\ db.games < MaxGames /\ db' = [db EXCEPT !.games = @ + 1]
    BY RoomFields DEF RequestStart, Database
  <2>2. db.games = 0
    BY <2>1, GameFlowAssumption
  <2>. QED  BY <2>1, <2>2, RoomFields DEF Database
<1>2. turn = 0 /\ \A s \in Slots : tasks[s].at = "idle"
  BY <1>1 DEF PenInv, Begins
<1>3. PICK s \in Slots : Moves(s, "start")
  <2>1. PICK t : t = [Handler(n, "start") EXCEPT !.gameId = db.games + 1]
    OBVIOUS
  <2>2. t.at = "start" /\ Spawn(t)
    BY <2>1 DEF RequestStart, Handler, NoTask
  <2>. QED  BY <2>2, SpawnMoves DEF IInv
<1>4. UNCHANGED <<room, timers, turn>>
  BY DEF RequestStart
<1>5. Begins'
  BY <1>1, <1>2, <1>3, <1>4 DEF PenInv, Begins, Moves
<1>6. OneSuccessor' /\ PenWithDrawer'
  BY <1>2, <1>3, <1>4
     DEF PenInv, OneSuccessor, PenWithDrawer, Pausing, Moves, Bringing, InPlay
<1>. QED  BY <1>5, <1>6 DEF PenInv

LEMMA StartGameKeeps == ASSUME IInv, PenInv, NEW s \in Slots, StartGame(s) PROVE PenInv'
<1>1. turn = 0 /\ UNCHANGED <<db, turn, timers>> /\ tasks[s].at = "start"
  BY DEF StartGame, At, IInv, RestOK, HistoryOK, PenInv, Begins
<1>2. Moves(s, "begin")
  BY EnterMoves DEF StartGame, IInv
<1>3. room'.phase = "WORD_SELECTION" /\ room'.drawing = {}
  <2>1. PICK o \in Orders(room.connected) :
          room' = [room EXCEPT !.gameId = tasks[s].gameId, !.currentRound = 1,
                               !.turnPointer = 0, !.drawOrder = o,
                               !.drawing = {}, !.guessed = {},
                               !.phase = "WORD_SELECTION"]
    BY DEF StartGame
  <2>. QED  BY <2>1, RoomFields DEF Room
<1>4. Begins'
  BY <1>1, <1>2, <1>3 DEF PenInv, Begins, Moves
<1>5. OneSuccessor' /\ PenWithDrawer'
  BY <1>1, <1>2, <1>4
     DEF PenInv, Begins, OneSuccessor, PenWithDrawer, Pausing, Moves, Bringing, InPlay
<1>. QED  BY <1>4, <1>5 DEF PenInv

\* A turn is dealt to the player the order points at, who is in the room.
LEMMA BeginTurnKeeps == ASSUME IInv, Whole, PenInv, NEW s \in Slots, BeginTurn(s) PROVE PenInv'
<1>1. tasks[s].at = "begin" /\ CurrentDrawer # Nobody /\ UNCHANGED <<timers, db>>
  BY DEF BeginTurn, At
<1>2. CurrentDrawer \in room.players
  <2>1. SoundFor(room.drawOrder, room.players) /\ room.turnPointer \in Nat
    BY RoomFields DEF Room
  <2>2. room.turnPointer < Len(room.drawOrder)
    BY <1>1 DEF CurrentDrawer
  <2>3. room.drawOrder \in Seq(room.players)
    BY <2>1 DEF SoundFor
  <2>. QED  BY <2>1, <2>2, <2>3 DEF CurrentDrawer
<1>3. /\ room'.phase = "WORD_SELECTION" /\ room'.drawing = {CurrentDrawer}
      /\ room'.drawOrder = room.drawOrder /\ room'.turnPointer = room.turnPointer
  BY <1>2, RoomFields DEF BeginTurn, Room
<1>4. turn \in Nat /\ turn' = turn + 1
  BY <1>2 DEF BeginTurn, IInv, RestOK, HistoryOK
<1>5. Moves(s, "deal")
  <2>1. PICK t : t = [tasks[s] EXCEPT !.at = "deal", !.drawer = CurrentDrawer,
                                      !.turn = turn + 1]
    OBVIOUS
  <2>2. tasks[s] \in Task
    BY DEF IInv, TasksOK
  <2>3. t.at = "deal"
    BY <2>1, <2>2 DEF Task
  <2>4. tasks' = [tasks EXCEPT ![s] = t]
    BY <1>2, <2>1, <2>2 DEF BeginTurn, IInv, TasksOK
  <2>. QED  BY <2>3, <2>4, ReplaceMoves DEF IInv
<1>6. Begins'
  BY <1>1, <1>4, <1>5 DEF PenInv, Begins, Moves
<1>7. tasks[s].at \in Bringing
  BY <1>1 DEF Bringing
<1>8. OneSuccessor'
  BY <1>1, <1>5, <1>7, OnlyOne DEF OneSuccessor, Moves, Pausing, Bringing
<1>9. PenWithDrawer'
  BY <1>3 DEF PenWithDrawer, CurrentDrawer
<1>. QED  BY <1>6, <1>8, <1>9 DEF PenInv

\* The drawer keeps the pen when the drawing begins.
LEMMA SelectWordKeeps == ASSUME IInv, Whole, PenInv, NEW s \in Slots, SelectWord(s) PROVE PenInv'
<1>1. turn > 0 /\ UNCHANGED <<db, turn>> /\ timers' \subseteq timers
  BY Busy DEF SelectWord, At, Cleared
<1>2. CASE Finish(s) /\ UNCHANGED room
  <2>1. Moves(s, "idle") /\ NewTimers
    BY <1>1, <1>2, FinishMoves DEF IInv, NewTimers
  <2>. QED  BY <1>1, <1>2, <2>1, Quiet
<1>3. CASE /\ room.phase = "WORD_SELECTION"
           /\ room' = [room EXCEPT !.phase = "DRAWING"]
           /\ tasks' = [tasks EXCEPT ![s] = [@ EXCEPT !.at = "setWord", !.player = Nobody]]
  <2>1. Moves(s, "setWord")
    <3>1. PICK t : t = [tasks[s] EXCEPT !.at = "setWord", !.player = Nobody]
      OBVIOUS
    <3>2. tasks[s] \in Task
      BY DEF IInv, TasksOK
    <3>3. t.at = "setWord"
      BY <3>1, <3>2 DEF Task
    <3>4. tasks' = [tasks EXCEPT ![s] = t]
      BY <1>3, <3>1, <3>2 DEF IInv, TasksOK
    <3>. QED  BY <3>3, <3>4, ReplaceMoves DEF IInv
  <2>2. /\ room'.phase = "DRAWING" /\ room'.drawing = room.drawing
        /\ room'.drawOrder = room.drawOrder /\ room'.turnPointer = room.turnPointer
    BY <1>3, RoomFields DEF Room
  <2>3. InPlay /\ InPlay' /\ Pausing' \subseteq Pausing
    BY <1>1, <1>3, <2>2 DEF InPlay, Pausing
  <2>4. Begins'
    BY <1>1, <2>1, BeginsStays
  <2>5. OneSuccessor'
    BY <2>1, <2>3 DEF PenInv, OneSuccessor, Moves, Bringing
  <2>6. PenWithDrawer'
    BY <2>2, <2>3 DEF PenInv, PenWithDrawer, CurrentDrawer
  <2>. QED  BY <2>4, <2>5, <2>6 DEF PenInv
<1>. QED  BY <1>2, <1>3, NothingWritten DEF SelectWord

-----------------------------------------------------------------------------
(***************************************************************************)
(* The theorem.                                                            *)
(***************************************************************************)
LEMMA PenInit == Init => PenInv
<1>. SUFFICES ASSUME Init PROVE PenInv
  OBVIOUS
<1>1. \A s \in Slots : tasks[s].at = "idle"
  BY DEF Init, NoTask
<1>2. /\ room.phase = "LOBBY" /\ room.drawing = {} /\ turn = 0
      /\ timers = {} /\ db.games = 0
  BY DEF Init
<1>. QED
  BY <1>1, <1>2 DEF PenInv, Begins, OneSuccessor, PenWithDrawer, Pausing, Bringing, InPlay

LEMMA PenStep ==
    ASSUME IInv, Whole, PenInv, Leaves = FALSE, MaxGames <= 1, [Next]_vars
    PROVE  PenInv'
<1>1. CASE UNCHANGED vars
  <2>1. SameTurn /\ NewTimers /\ \A x \in Slots : Harmless(x)
    BY <1>1 DEF vars, SameTurn, NewTimers, Harmless
  <2>. QED  BY <2>1, TurnGoesOn
<1>2. ASSUME NEW p \in Players, Join(p) \/ Disconnect(p) PROVE PenInv'
  BY <1>2, ConnectionKeeps
<1>3. ASSUME NEW n \in Nodes, RequestStart(n) \/ Crash(n) PROVE PenInv'
  BY <1>3, RequestStartKeeps, FailuresKeep
<1>4. ASSUME NEW n \in Nodes, NEW p \in Players,
             Leave(n, p) \/ Kick(n, p) \/ ChooseWord(n, p) \/ Guess(n, p)
      PROVE  PenInv'
  BY <1>4, RequestKeeps DEF Leave, Kick, Remove
<1>5. ASSUME NEW t \in timers, Timeout(t) \/ HintTick(t) PROVE PenInv'
  BY <1>5, TimersKeep, PauseOver DEF Timeout
<1>6. ASSUME NEW s \in Slots, PersistFails(s) \/ HandlerFails(s) PROVE PenInv'
  BY <1>6, FailuresKeep
<1>7. ASSUME NEW s \in Slots, Resume(s) PROVE PenInv'
  <2>1. ~PlayerGone(s) /\ ~Delete(s)
    BY DEF PlayerGone, Delete, Whole, Departing
  <2>2. CASE NoRoom(s) \/ BeginNothing(s) \/ \E last \in BOOLEAN : RevealHint(s, last)
    BY <2>2, EndingKeeps
  <2>3. CASE Deal(s) \/ Arm(s) \/ SetWord(s) \/ SaveScores(s) \/ SaveStats(s)
             \/ CreditGuess(s)
    BY <2>3, SettingKeeps, SetWordKeeps, SaveKeeps, CreditKeeps
  <2>4. CASE StartGame(s) \/ BeginTurn(s) \/ SelectWord(s) \/ EndTurn(s) \/ TurnEnded(s)
             \/ AdvanceTurn(s) \/ EndGame(s) \/ ResetToLobby(s)
    BY <2>4, StartGameKeeps, BeginTurnKeeps, SelectWordKeeps, EndTurnKeeps, TurnEndedKeeps,
       AdvanceKeeps, EndGameKeeps, ResetKeeps
  <2>. QED  BY <1>7, <2>1, <2>2, <2>3, <2>4 DEF Resume
<1>8. ~OtherMutation
  BY GameFlowAssumption DEF Whole, OtherMutation, Others
<1>. QED  BY <1>1, <1>2, <1>3, <1>4, <1>5, <1>6, <1>7, <1>8 DEF Next

\* While a turn is being drawn, the player the order points at, who is the one
\* endTurn credits and whom handleGuess keeps from guessing, is the only one with
\* the pen: through one game in which nobody is removed, whatever timers of other
\* nodes, handlers, failures and crashes come in between (game.service.ts:111-126,
\* 255-269, 345-355).
THEOREM PenFollowsOrder ==
    ASSUME Leaves = FALSE, MaxGames <= 1
    PROVE  Spec => []DrawerHasPen
<1>1. Init => IInv /\ Whole /\ PenInv
  BY InitInv, InitWhole, PenInit
<1>2. IInv /\ Whole /\ PenInv /\ [Next]_vars => IInv' /\ Whole' /\ PenInv'
  BY StepInv, WholeStep, PenStep
<1>3. IInv /\ PenInv => DrawerHasPen
  BY DEF IInv, RestOK, HistoryOK, PenInv, Begins, PenWithDrawer, InPlay, DrawerHasPen
<1>. QED  BY <1>1, <1>2, <1>3, PTL DEF Spec
-----------------------------------------------------------------------------
(***************************************************************************)
(* A game on one node, whose timers do not overtake its handlers: what may *)
(* be in flight in each phase.  Unlike PenInv this holds for any number of *)
(* games, because nothing is left in flight when the room is a lobby.      *)
(***************************************************************************)
Choosing == room.phase = "WORD_SELECTION"
Drawing == room.phase = "DRAWING"
Over == room.phase = "ROUND_END"

\* The secret is this turn's: choices, or the word.
Offered == secret.turn = turn /\ ~secret.chosen
Chosen == secret.turn = turn /\ secret.chosen

HasPen == room.drawing = {CurrentDrawer}
Idle(x) == tasks[x].at = "idle"

\* Handlers that are in flight alone, and those that only share a turn with stragglers.
Solo == {"start", "begin", "deal", "advance", "endGame", "persist", "stats", "reset"}
Stragglers == {"select", "guess", "hint", "endTurn"}

\* A handler is in flight in its own turn, and knows its secret.
Timely(x) ==
    LET t == tasks[x]
    IN /\ t.at = "start" => room.phase = "LOBBY"
       /\ t.at = "begin" => (Choosing \/ Over) /\ room.drawing = {}
       /\ t.at = "deal" => Choosing /\ HasPen /\ t.turn = turn /\ secret.turn # turn
       /\ t.at = "select" => /\ (Choosing /\ HasPen /\ Offered) \/ Drawing \/ Over
                             /\ t.turn = turn
       /\ t.at = "setWord" => Drawing /\ Offered /\ t.turn = turn
       /\ t.at = "arm" => Drawing /\ Chosen
       /\ t.at = "guess" => ((Drawing /\ Chosen) \/ Over) /\ t.turn = turn
       /\ t.at = "hint" => ((Drawing /\ Chosen) \/ Over) /\ t.turn = turn /\ t.chosen
       /\ t.at = "endTurn" => (Drawing /\ Chosen) \/ Over
       /\ t.at \in {"turnEnded", "advance", "endGame"} => Over
       /\ t.at \in {"persist", "stats", "reset"} => room.phase = "GAME_END"
       /\ t.at \notin {"gone", "delete"}

Alone(x) ==
    LET others == {tasks[y].at : y \in Slots \ {x}}
    IN /\ tasks[x].at \in Solo => others \subseteq {"idle"} /\ timers = {}
       /\ tasks[x].at \in {"setWord", "arm"} => others \subseteq {"idle", "select"} /\ timers = {}
       /\ tasks[x].at = "turnEnded" => others \subseteq {"idle"} \cup Stragglers /\ timers = {}

\* A timer is pending in its own turn.
Runs(t) ==
    /\ t.kind = "select" => Choosing /\ HasPen /\ Offered
    /\ t.kind \in {"draw", "hint"} => Drawing /\ Chosen /\ \A x \in Slots : tasks[x].at # "endTurn"
    /\ t.kind = "roundEnd" => /\ Over /\ timers = {t}
                              /\ \A x \in Slots : Idle(x) \/ <<t.node, "roundEnd">> \in tasks[x].delays
    /\ t.kind = "gameEnd" => room.phase = "GAME_END" /\ timers = {t} /\ \A x \in Slots : Idle(x)

PenAndWord ==
    /\ room.phase \in {"LOBBY", "ROUND_END", "GAME_END"} => room.drawing = {}
    /\ Choosing => \/ room.drawing = {}
                   \/ HasPen /\ ~Chosen
    /\ Drawing => HasPen /\ secret.turn = turn
    /\ secret.turn <= turn

FlowInv == /\ PenAndWord
           /\ \A x \in Slots : Timely(x) /\ Alone(x)
           /\ \A t \in timers : Runs(t)

-----------------------------------------------------------------------------
(***************************************************************************)
(* What the steps do to the handlers in flight, once more: what these have *)
(* captured counts here as well.                                           *)
(***************************************************************************)
Keeps(x) == /\ tasks'[x].at = tasks[x].at /\ tasks'[x].turn = tasks[x].turn
            /\ tasks'[x].chosen = tasks[x].chosen /\ tasks[x].delays \subseteq tasks'[x].delays

Becomes(s, label) == tasks'[s].at = label /\ \A x \in Slots \ {s} : Keeps(x)

LEMMA Replaced ==
    ASSUME TasksOK, NEW s \in Slots, NEW t, tasks' = [tasks EXCEPT ![s] = t]
    PROVE  tasks'[s] = t /\ \A x \in Slots \ {s} : Keeps(x)
BY DEF TasksOK, Keeps

LEMMA Spawned ==
    ASSUME TasksOK, NEW t, Spawn(t)
    PROVE  \E s \in Slots : Idle(s) /\ tasks'[s] = t /\ \A x \in Slots \ {s} : Keeps(x)
<1>1. PICK s \in Free : tasks' = [tasks EXCEPT ![s] = t]
  BY DEF Spawn
<1>. QED  BY <1>1, Replaced DEF Free, Idle

LEMMA Finished == ASSUME TasksOK, NEW s \in Slots, Finish(s) PROVE Becomes(s, "idle")
<1>1. NoTask.at = "idle"
  BY DEF NoTask
<1>. QED  BY <1>1, Replaced DEF Finish, Becomes

LEMMA Entered ==
    ASSUME TasksOK, NEW s \in Slots, NEW label, Enter(s, label)
    PROVE  Becomes(s, label) /\ tasks'[s].delays = tasks[s].delays
<1>1. PICK t : t = [Handler(tasks[s].node, label) EXCEPT !.delays = tasks[s].delays]
  OBVIOUS
<1>2. t.at = label /\ t.delays = tasks[s].delays
  BY <1>1 DEF Handler, NoTask
<1>3. tasks' = [tasks EXCEPT ![s] = t]
  BY <1>1 DEF Enter, TasksOK
<1>. QED  BY <1>2, <1>3, Replaced DEF Becomes

LEMMA WentOn ==
    ASSUME TasksOK, NEW s \in Slots, NEW label, Goto(s, label)
    PROVE  Becomes(s, label) /\ tasks'[s].turn = tasks[s].turn
<1>1. PICK t : t = [tasks[s] EXCEPT !.at = label]
  OBVIOUS
<1>2. t.at = label /\ t.turn = tasks[s].turn
  BY <1>1 DEF TasksOK, Task
<1>3. tasks' = [tasks EXCEPT ![s] = t]
  BY <1>1 DEF Goto
<1>. QED  BY <1>2, <1>3, Replaced DEF Becomes

LEMMA HasSet ==
    ASSUME TasksOK, NEW s \in Slots, NEW kinds, FinishSetting(s, kinds)
    PROVE  /\ Becomes(s, "idle")
           /\ Prompt => \A x \in Slots : \/ tasks'[x].at = "idle"
                                         \/ {tasks[s].node} \X kinds \subseteq tasks'[x].delays
<1>. DEFINE later(x) == [tasks[x] EXCEPT !.delays = @ \cup ({tasks[s].node} \X kinds)]
<1>1. \A x \in Slots : /\ later(x).at = tasks[x].at /\ later(x).turn = tasks[x].turn
                       /\ later(x).chosen = tasks[x].chosen
                       /\ later(x).delays = tasks[x].delays \cup ({tasks[s].node} \X kinds)
  BY DEF TasksOK, Task
<1>2. \A x \in Slots :
        tasks'[x] = IF x = s THEN NoTask
                    ELSE IF tasks[x].at = "idle" \/ ~Prompt THEN tasks[x] ELSE later(x)
  BY DEF FinishSetting
<1>3. NoTask.at = "idle"
  BY DEF NoTask
<1>. HIDE DEF later
<1>. QED  BY <1>1, <1>2, <1>3 DEF Becomes, Keeps

-----------------------------------------------------------------------------
SameStage == /\ room'.phase = room.phase /\ room'.drawing = room.drawing
             /\ room'.drawOrder = room.drawOrder /\ room'.turnPointer = room.turnPointer
             /\ turn' = turn /\ secret' = secret

LEMMA StageStays ==
    ASSUME SameStage, FlowInv
    PROVE  /\ PenAndWord' /\ CurrentDrawer' = CurrentDrawer
           /\ Choosing' = Choosing /\ Drawing' = Drawing /\ Over' = Over
           /\ Offered' = Offered /\ Chosen' = Chosen /\ HasPen' = HasPen
<1>1. CurrentDrawer' = CurrentDrawer
  BY DEF SameStage, CurrentDrawer
<1>2. /\ Choosing' = Choosing /\ Drawing' = Drawing /\ Over' = Over
      /\ Offered' = Offered /\ Chosen' = Chosen /\ HasPen' = HasPen
  BY <1>1 DEF SameStage, Choosing, Drawing, Over, Offered, Chosen, HasPen
<1>. QED  BY <1>1, <1>2 DEF FlowInv, PenAndWord, SameStage

LEMMA AloneStays ==
    ASSUME NEW x \in Slots, Alone(x), timers' \subseteq timers,
           \A y \in Slots : Keeps(y) \/ tasks'[y].at = "idle"
    PROVE  Alone(x)'
BY DEF Alone, Keeps, Solo, Stragglers

\* Nothing new is in flight.
LEMMA NothingNew ==
    ASSUME FlowInv, SameStage, timers' \subseteq timers,
           \A x \in Slots : Keeps(x) \/ tasks'[x].at = "idle"
    PROVE  FlowInv'
<1>. USE StageStays
<1>1. ASSUME NEW x \in Slots PROVE Timely(x)'
  <2>1. Timely(x)
    BY DEF FlowInv
  <2>. QED  BY <2>1 DEF Timely, Keeps, SameStage
<1>2. \A x \in Slots : Alone(x)'
  BY AloneStays DEF FlowInv
<1>3. ASSUME NEW t \in timers' PROVE Runs(t)'
  <2>1. Runs(t)
    BY DEF FlowInv
  <2>. QED  BY <2>1 DEF Runs, Keeps, SameStage, Idle
<1>. QED  BY <1>1, <1>2, <1>3 DEF FlowInv

-----------------------------------------------------------------------------
\* One node whose timers do not overtake its handlers, one request to start at a time, and
\* nobody is removed: the four restrictions of what follows.
OneCalmNode == /\ \A m, n \in Nodes : m = n
               /\ Prompt /\ ~Leaves /\ MaxStarts <= 1

LEMMA FlowTypes ==
    ASSUME IInv
    PROVE  /\ TasksOK /\ turn \in Nat /\ secret \in Secret /\ room \in Room /\ timers \subseteq Timer
           /\ \A s \in Slots : tasks[s] \in Task /\ (~Idle(s) => tasks[s].node \in Nodes)
BY DEF IInv, RestOK, HistoryOK, RoomOK, TasksOK, Idle

\* Players come and go; handlers end, fail, or are lost.
LEMMA ConnectionFlows ==
    ASSUME IInv, FlowInv, NEW p \in Players, Join(p) \/ Disconnect(p)
    PROVE  FlowInv'
<1>1. SameStage /\ UNCHANGED <<timers, tasks>>
  BY FlowTypes DEF Join, Disconnect, SameStage, Room
<1>. QED  BY <1>1, NothingNew DEF Keeps

LEMMA EndsFlow ==
    ASSUME IInv, FlowInv, NEW s \in Slots, Finish(s), SameStage, timers' \subseteq timers
    PROVE  FlowInv'
<1>1. Becomes(s, "idle")
  BY Finished, FlowTypes
<1>. QED  BY <1>1, NothingNew DEF Becomes

LEMMA CrashFlows ==
    ASSUME IInv, Whole, FlowInv, NEW n \in Nodes, Crash(n)
    PROVE  FlowInv'
<1>1. SameStage /\ timers' \subseteq timers
  BY GameFlowAssumption DEF Crash, SameStage, Whole, Slots
<1>2. NoTask.at = "idle"
  BY DEF NoTask
<1>3. \A x \in Slots : Keeps(x) \/ tasks'[x].at = "idle"
  BY <1>2 DEF Crash, Keeps
<1>. QED  BY <1>1, <1>3, NothingNew

\* One more straggler.
LEMMA Arrival ==
    ASSUME FlowInv, SameStage, timers' \subseteq timers,
           NEW s \in Slots, tasks'[s].at \in Stragglers, \A x \in Slots \ {s} : Keeps(x),
           Timely(s)', \A t \in timers' : Runs(t)',
           \A x \in Slots \ {s} : tasks[x].at \notin Solo,
           tasks'[s].at # "select" => \A x \in Slots \ {s} : tasks[x].at \notin {"setWord", "arm"}
    PROVE  FlowInv'
<1>. USE StageStays
<1>1. ASSUME NEW x \in Slots PROVE Timely(x)'
  <2>1. CASE x = s
    BY <2>1
  <2>2. CASE x # s
    <3>1. Timely(x) /\ Keeps(x)
      BY <2>2 DEF FlowInv
    <3>. QED  BY <3>1 DEF Timely, Keeps, SameStage
  <2>. QED  BY <2>1, <2>2
<1>2. ASSUME NEW x \in Slots PROVE Alone(x)'
  <2>1. CASE x = s
    BY <2>1 DEF Alone, Solo, Stragglers
  <2>2. CASE x # s
    <3>1. Alone(x) /\ Keeps(x)
      BY <2>2 DEF FlowInv
    <3>2. tasks'[x].at \notin Solo
      BY <2>2, <3>1 DEF Keeps
    <3>3. tasks'[x].at \in {"setWord", "arm"} => tasks'[s].at = "select"
      BY <2>2, <3>1 DEF Keeps
    <3>4. \A y \in Slots \ {x} : tasks'[y].at \in {tasks[z].at : z \in Slots \ {x}} \cup {tasks'[s].at}
      BY DEF Keeps
    <3>. QED  BY <3>1, <3>2, <3>3, <3>4 DEF Alone, Keeps
  <2>. QED  BY <2>1, <2>2
<1>. QED  BY <1>1, <1>2 DEF FlowInv

LEMMA ChooseWordFlows ==
    ASSUME IInv, FlowInv, NEW n \in Nodes, NEW p \in Players, ChooseWord(n, p)
    PROVE  FlowInv'
<1>1. SameStage /\ timers' = timers /\ Choosing /\ HasPen /\ Offered
  BY DEF ChooseWord, SameStage, Choosing, FlowInv, PenAndWord, Chosen, Offered
<1>2. PICK h : h = [Handler(n, "select") EXCEPT !.player = p, !.turn = secret.turn]
  OBVIOUS
<1>3. h.at = "select" /\ h.turn = turn
  BY <1>1, <1>2 DEF Handler, NoTask, Offered
<1>4. Spawn(h)
  BY <1>2 DEF ChooseWord, ReadChoices
<1>5. PICK s \in Slots : Idle(s) /\ tasks'[s] = h /\ \A x \in Slots \ {s} : Keeps(x)
  BY <1>4, Spawned, FlowTypes
<1>6. Timely(s)'
  BY <1>1, <1>3, <1>5, StageStays DEF Timely, SameStage
<1>7. ASSUME NEW x \in Slots PROVE tasks[x].at \notin Solo
  <2>1. Timely(x)
    BY DEF FlowInv
  <2>2. room.drawing # {}
    BY <1>1 DEF HasPen
  <2>. QED  BY <1>1, <2>1, <2>2 DEF Timely, Solo, Choosing, Over, Offered
<1>8. ASSUME NEW t \in timers' PROVE Runs(t)'
  <2>1. Runs(t)
    BY <1>1 DEF FlowInv
  <2>. QED  BY <1>1, <1>3, <1>5, <2>1, StageStays DEF Runs, Keeps, SameStage, Idle, Choosing, Drawing, Over
<1>. QED  BY <1>1, <1>3, <1>5, <1>6, <1>7, <1>8, Arrival DEF Stragglers

-----------------------------------------------------------------------------
LEMMA SelectTimeoutFlows ==
    ASSUME IInv, FlowInv, NEW t \in timers, SelectTimeout(t)
    PROVE  FlowInv'
<1>1. SameStage /\ timers' \subseteq timers /\ Choosing /\ HasPen /\ Offered
  BY DEF SelectTimeout, SameStage, FlowInv, Runs
<1>2. CASE UNCHANGED tasks
  BY <1>1, <1>2, NothingNew DEF Keeps
<1>3. CASE ~UNCHANGED tasks
  <2>1. PICK h : h = [Handler(t.node, "select") EXCEPT !.player = t.drawer, !.turn = secret.turn]
    OBVIOUS
  <2>2. h.at = "select" /\ h.turn = turn
    BY <1>1, <2>1 DEF Handler, NoTask, Offered
  <2>3. Spawn(h)
    BY <1>3, <2>1 DEF SelectTimeout, ReadChoices
  <2>4. PICK s \in Slots : Idle(s) /\ tasks'[s] = h /\ \A x \in Slots \ {s} : Keeps(x)
    BY <2>3, Spawned, FlowTypes
  <2>5. Timely(s)'
    BY <1>1, <2>2, <2>4, StageStays DEF Timely, SameStage
  <2>6. \A x \in Slots : tasks[x].at \notin Solo
    BY DEF FlowInv, Alone
  <2>7. ASSUME NEW u \in timers' PROVE Runs(u)'
    <3>1. Runs(u)
      BY <1>1 DEF FlowInv
    <3>. QED  BY <1>1, <2>2, <2>4, <3>1, StageStays DEF Runs, Keeps, SameStage, Idle, Choosing, Drawing, Over
  <2>. QED  BY <1>1, <2>2, <2>4, <2>5, <2>6, <2>7, Arrival DEF Stragglers
<1>. QED  BY <1>2, <1>3

LEMMA HintTickFlows ==
    ASSUME IInv, FlowInv, NEW t \in timers, HintTick(t)
    PROVE  FlowInv'
<1>1. SameStage /\ timers' = timers /\ Drawing /\ Chosen
  BY DEF HintTick, SameStage, FlowInv, Runs
<1>2. PICK h : h = [Handler(t.node, "hint") EXCEPT !.turn = secret.turn, !.chosen = secret.chosen]
  OBVIOUS
<1>3. h.at = "hint" /\ h.turn = turn /\ h.chosen = TRUE
  BY <1>1, <1>2, FlowTypes DEF Handler, NoTask, Chosen, Secret
<1>4. Spawn(h)
  BY <1>2 DEF HintTick
<1>5. PICK s \in Slots : Idle(s) /\ tasks'[s] = h /\ \A x \in Slots \ {s} : Keeps(x)
  BY <1>4, Spawned, FlowTypes
<1>6. Timely(s)'
  BY <1>1, <1>3, <1>5, StageStays DEF Timely, SameStage
<1>7. \A x \in Slots : tasks[x].at \notin Solo \cup {"setWord", "arm"}
  BY DEF FlowInv, Alone
<1>8. ASSUME NEW u \in timers' PROVE Runs(u)'
  <2>1. Runs(u)
    BY <1>1 DEF FlowInv
  <2>. QED  BY <1>1, <1>3, <1>5, <2>1, StageStays DEF Runs, Keeps, SameStage, Idle, Choosing, Drawing, Over
<1>. QED  BY <1>1, <1>3, <1>5, <1>6, <1>7, <1>8, Arrival DEF Stragglers

LEMMA GuessFlows ==
    ASSUME OneCalmNode, IInv, FlowInv, NEW n \in Nodes, NEW p \in Players, Guess(n, p)
    PROVE  FlowInv'
<1>1. SameStage /\ timers' = timers /\ Drawing /\ Chosen
  BY DEF Guess, SameStage, FlowInv, PenAndWord, Drawing, Chosen
<1>2. PICK h : h = [Handler(n, "guess") EXCEPT !.player = p, !.turn = secret.turn,
                                               !.drawer = CurrentDrawer]
  OBVIOUS
<1>3. h.at = "guess" /\ h.turn = turn
  BY <1>1, <1>2 DEF Handler, NoTask, Chosen
<1>4. Spawn(h)
  BY <1>2 DEF Guess
<1>5. PICK s \in Slots : Idle(s) /\ tasks'[s] = h /\ \A x \in Slots \ {s} : Keeps(x)
  BY <1>4, Spawned, FlowTypes
<1>6. Timely(s)'
  BY <1>1, <1>3, <1>5, StageStays DEF Timely, SameStage
<1>7. ASSUME NEW x \in Slots PROVE tasks[x].at \notin Solo \cup {"setWord", "arm"}
  <2>1. Timely(x)
    BY DEF FlowInv
  <2>2. tasks[x].at \notin {"setWord", "arm"}
    BY DEF Guess, Unannounced, OneCalmNode
  <2>. QED  BY <1>1, <2>1, <2>2 DEF Timely, Solo, Choosing, Drawing, Over
<1>8. ASSUME NEW u \in timers' PROVE Runs(u)'
  <2>1. Runs(u)
    BY <1>1 DEF FlowInv
  <2>. QED  BY <1>1, <1>3, <1>5, <2>1, StageStays DEF Runs, Keeps, SameStage, Idle, Choosing, Drawing, Over
<1>. QED  BY <1>1, <1>3, <1>5, <1>6, <1>7, <1>8, Arrival DEF Stragglers

\* On one node there is one timer of each kind, and clearing reaches it.
LEMMA ClearedAll ==
    ASSUME OneCalmNode, IInv, NEW n \in Nodes, NEW kinds
    PROVE  Cleared(n, kinds) = {t \in timers : t.kind \notin kinds}
BY FlowTypes DEF OneCalmNode, Cleared, Timer

LEMMA DrawTimeoutFlows ==
    ASSUME OneCalmNode, IInv, FlowInv, NEW t \in timers, DrawTimeout(t)
    PROVE  FlowInv'
<1>1. SameStage /\ Drawing /\ Chosen
  BY DEF DrawTimeout, SameStage, FlowInv, Runs
<1>2. t.node \in Nodes
  BY FlowTypes DEF Timer
<1>3. timers' = {u \in timers : u.kind \notin {"draw", "hint"}}
  BY <1>2, ClearedAll DEF DrawTimeout
<1>4. PICK h : h = Handler(t.node, "endTurn") /\ h.at = "endTurn"
  BY HandlerFields
<1>5. PICK s \in Slots : Idle(s) /\ tasks'[s] = h /\ \A x \in Slots \ {s} : Keeps(x)
  BY <1>4, Spawned, FlowTypes DEF DrawTimeout
<1>6. Timely(s)'
  BY <1>1, <1>4, <1>5, StageStays DEF Timely, SameStage
<1>7. \A x \in Slots : tasks[x].at \notin Solo \cup {"setWord", "arm"}
  BY DEF FlowInv, Alone
<1>8. ASSUME NEW u \in timers' PROVE Runs(u)'
  <2>1. Runs(u) /\ u.kind \notin {"draw", "hint"}
    BY <1>3 DEF FlowInv
  <2>. QED  BY <1>1, <2>1, StageStays DEF Runs, Choosing, Drawing, Over
<1>. QED  BY <1>1, <1>3, <1>4, <1>5, <1>6, <1>7, <1>8, Arrival DEF Stragglers

-----------------------------------------------------------------------------
\* What the guess of the last guesser brings is a straggler as well.
LEMMA CreditFlows ==
    ASSUME OneCalmNode, IInv, Whole, FlowInv, NEW s \in Slots, CreditGuess(s)
    PROVE  FlowInv'
<1>1. tasks[s].at = "guess" /\ Timely(s) /\ Alone(s) /\ tasks[s].node \in Nodes
  BY FlowTypes DEF CreditGuess, At, FlowInv, Idle
<1>2. SameStage
  BY FlowTypes, NothingWritten DEF CreditGuess, SameStage, Room
<1>3. CASE Finish(s) /\ UNCHANGED timers
  BY <1>2, <1>3, EndsFlow
<1>4. CASE Enter(s, "endTurn") /\ timers' = Cleared(tasks[s].node, {"draw", "hint"})
  <2>1. timers' = {t \in timers : t.kind \notin {"draw", "hint"}}
    BY <1>1, <1>4, ClearedAll
  <2>2. Becomes(s, "endTurn") /\ tasks'[s].delays = tasks[s].delays
    BY <1>4, Entered, FlowTypes
  <2>3. Timely(s)'
    BY <1>1, <1>2, <2>2, StageStays DEF Timely, Becomes
  <2>4. ASSUME NEW x \in Slots \ {s} PROVE tasks[x].at \notin Solo \cup {"setWord", "arm"}
    <3>1. Alone(x) /\ tasks[s].at \in {tasks[y].at : y \in Slots \ {x}}
      BY DEF FlowInv
    <3>. QED  BY <1>1, <3>1 DEF Alone
  <2>5. ASSUME NEW u \in timers' PROVE Runs(u)'
    <3>1. Runs(u) /\ u.kind \notin {"draw", "hint"} /\ timers' \subseteq timers
      BY <2>1 DEF FlowInv
    <3>. QED  BY <1>1, <1>2, <2>2, <3>1, StageStays
              DEF Runs, Keeps, Becomes, SameStage, Idle, Choosing, Drawing, Over
  <2>. QED  BY <1>2, <2>1, <2>2, <2>3, <2>4, <2>5, Arrival DEF Stragglers, Becomes
<1>. QED  BY <1>3, <1>4 DEF CreditGuess

\* A hint tick writes back what is there, or what nobody will look at.
LEMMA HintWritesBack ==
    ASSUME IInv, FlowInv, NEW s \in Slots, NEW last \in BOOLEAN, RevealHint(s, last)
    PROVE  /\ Drawing => secret' = secret
           /\ Drawing \/ Over
           /\ secret'.turn = turn
<1>1. Timely(s) /\ tasks[s].at = "hint" /\ secret' = [turn |-> tasks[s].turn, chosen |-> tasks[s].chosen]
  BY DEF FlowInv, RevealHint
<1>2. tasks[s].chosen \in BOOLEAN /\ secret = [turn |-> secret.turn, chosen |-> secret.chosen]
      /\ secret.chosen \in BOOLEAN
  BY FlowTypes DEF Task, Secret
<1>. QED  BY <1>1, <1>2 DEF Timely, Chosen, Drawing, Over

LEMMA RevealFlows ==
    ASSUME IInv, FlowInv, NEW s \in Slots, NEW last \in BOOLEAN, RevealHint(s, last)
    PROVE  FlowInv'
<1>1. Finish(s) /\ timers' \subseteq timers /\ UNCHANGED <<room, turn>>
  BY DEF RevealHint, Cleared
<1>2. CASE Drawing
  <2>1. SameStage
    BY <1>1, <1>2, HintWritesBack DEF SameStage
  <2>. QED  BY <1>1, <2>1, EndsFlow
<1>3. CASE Over
  <2>1. CurrentDrawer' = CurrentDrawer /\ secret'.turn <= turn'
    BY <1>1, HintWritesBack, FlowTypes DEF CurrentDrawer
  <2>2. Becomes(s, "idle")
    BY <1>1, Finished, FlowTypes
  <2>3. ~Choosing' /\ ~Drawing' /\ Over'
    BY <1>1, <1>3 DEF Choosing, Drawing, Over
  <2>4. PenAndWord'
    BY <1>1, <2>1, <2>3 DEF FlowInv, PenAndWord, Choosing, Drawing
  <2>5. ASSUME NEW x \in Slots PROVE Timely(x)' /\ Alone(x)'
    <3>1. Timely(x) /\ Alone(x) /\ (Keeps(x) \/ tasks'[x].at = "idle")
      BY <2>2 DEF FlowInv, Becomes
    <3>2. Timely(x)'
      <4>1. tasks[x].at \notin {"deal", "setWord", "arm"}
        BY <1>3, <3>1 DEF Timely, Choosing, Drawing, Over
      <4>. QED  BY <1>1, <2>3, <3>1, <4>1 DEF Timely, Keeps
    <3>3. Alone(x)'
      BY <1>1, <2>2, <3>1, AloneStays DEF Becomes
    <3>. QED  BY <3>2, <3>3
  <2>6. ASSUME NEW t \in timers' PROVE Runs(t)'
    <3>1. Runs(t)
      BY <1>1 DEF FlowInv
    <3>. QED  BY <1>1, <1>3, <2>2, <2>3, <3>1 DEF Runs, Keeps, Becomes, Idle, Choosing, Drawing, Over
  <2>. QED  BY <2>4, <2>5, <2>6 DEF FlowInv
<1>. QED  BY <1>2, <1>3, HintWritesBack

\* A handler that is alone.
LEMMA OnItsOwn ==
    ASSUME IInv, FlowInv, NEW s \in Slots, tasks[s].at \in Solo
    PROVE  timers = {} /\ \A x \in Slots \ {s} : Idle(x)
<1>1. Alone(s)
  BY DEF FlowInv
<1>. QED  BY <1>1 DEF Alone, Idle

\* What it takes to go on alone.
LEMMA AloneFlows ==
    ASSUME NEW s \in Slots, NEW label, tasks'[s].at = label, timers' = {},
           \A x \in Slots \ {s} : tasks'[x].at = "idle", Timely(s)', PenAndWord'
    PROVE  FlowInv'
<1>1. ASSUME NEW x \in Slots \ {s} PROVE Timely(x)' /\ Alone(x)'
  BY DEF Timely, Alone, Solo
<1>2. Alone(s)'
  BY DEF Alone
<1>. QED  BY <1>1, <1>2 DEF FlowInv

-----------------------------------------------------------------------------
\* In a lobby nothing is in flight but a start, and no timer is pending.
LEMMA LobbyIsQuiet ==
    ASSUME IInv, FlowInv, room.phase = "LOBBY"
    PROVE  timers = {} /\ \A x \in Slots : tasks[x].at \in {"idle", "start"}
<1>1. ASSUME NEW x \in Slots PROVE tasks[x].at \in {"idle", "start"}
  <2>1. Timely(x) /\ tasks[x].at \in Labels
    BY FlowTypes DEF FlowInv, Task
  <2>. QED  BY <2>1 DEF Timely, Labels, Choosing, Drawing, Over
<1>2. ASSUME NEW t \in timers PROVE FALSE
  <2>1. Runs(t) /\ t.kind \in TimerKinds
    BY FlowTypes DEF FlowInv, Timer
  <2>. QED  BY <2>1 DEF Runs, TimerKinds, Choosing, Drawing, Over
<1>. QED  BY <1>1, <1>2

LEMMA RequestStartFlows ==
    ASSUME OneCalmNode, IInv, FlowInv, NEW n \in Nodes, RequestStart(n)
    PROVE  FlowInv'
<1>1. SameStage /\ timers' = timers /\ room.phase = "LOBBY"
  BY DEF RequestStart, SameStage
<1>2. Starting = {}
  <2>1. IsFiniteSet(Starting)
    <3>1. IsFiniteSet(Slots) /\ Starting \subseteq Slots
      BY FS_Interval, GameFlowAssumption DEF Slots, Starting
    <3>. QED  BY <3>1, FS_Subset
  <2>2. Cardinality(Starting) \in Nat /\ Cardinality(Starting) < 1
    BY <2>1, FS_CardinalityType, GameFlowAssumption DEF RequestStart, OneCalmNode
  <2>. QED  BY <2>1, <2>2, FS_EmptySet
<1>3. PICK h : h = [Handler(n, "start") EXCEPT !.gameId = db.games + 1]
  OBVIOUS
<1>4. h.at = "start"
  BY <1>3 DEF Handler, NoTask
<1>5. Spawn(h)
  BY <1>3 DEF RequestStart
<1>6. PICK s \in Slots : Idle(s) /\ tasks'[s] = h /\ \A x \in Slots \ {s} : Keeps(x)
  BY <1>5, Spawned, FlowTypes
<1>7. timers' = {} /\ \A x \in Slots \ {s} : tasks'[x].at = "idle"
  BY <1>1, <1>2, <1>6, LobbyIsQuiet DEF Keeps, Starting
<1>8. Timely(s)' /\ PenAndWord'
  BY <1>1, <1>4, <1>6, StageStays DEF Timely, SameStage
<1>. QED  BY <1>4, <1>6, <1>7, <1>8, AloneFlows

LEMMA StartGameFlows ==
    ASSUME IInv, FlowInv, NEW s \in Slots, StartGame(s)
    PROVE  FlowInv'
<1>1. tasks[s].at \in Solo /\ UNCHANGED <<timers, secret, turn>>
  BY DEF StartGame, At, Solo
<1>2. timers = {} /\ \A x \in Slots \ {s} : Idle(x)
  BY <1>1, OnItsOwn
<1>3. Becomes(s, "begin")
  BY Entered, FlowTypes DEF StartGame
<1>4. room'.phase = "WORD_SELECTION" /\ room'.drawing = {}
  BY FlowTypes DEF StartGame, Room
<1>5. PenAndWord'
  BY <1>1, <1>4 DEF FlowInv, PenAndWord, Choosing, Drawing
<1>6. Timely(s)'
  BY <1>3, <1>4 DEF Timely, Becomes, Choosing
<1>. QED  BY <1>1, <1>2, <1>3, <1>5, <1>6, AloneFlows DEF Becomes, Keeps, Idle

\* On the way to a turn nobody is removed, so the order points at a player.
LEMMA DrawerIsThere ==
    ASSUME IInv, Whole, CurrentDrawer # Nobody
    PROVE  CurrentDrawer \in room.players
<1>1. SoundFor(room.drawOrder, room.players) /\ room.turnPointer \in Nat
  BY RoomFields DEF Room, Whole
<1>2. room.turnPointer < Len(room.drawOrder)
  BY DEF CurrentDrawer
<1>3. room.drawOrder \in Seq(room.players)
  BY <1>1 DEF SoundFor
<1>. QED  BY <1>1, <1>2, <1>3 DEF CurrentDrawer

LEMMA BeginTurnDoes ==
    ASSUME IInv, Whole, NEW s \in Slots, BeginTurn(s)
    PROVE  /\ room'.phase = "WORD_SELECTION" /\ room'.drawing = {CurrentDrawer}
           /\ room'.drawOrder = room.drawOrder /\ room'.turnPointer = room.turnPointer
           /\ room'.connected = room.connected /\ room'.currentRound = room.currentRound
           /\ turn' = turn + 1 /\ drew' = drew \cup {CurrentDrawer}
           /\ Becomes(s, "deal") /\ tasks'[s].turn = turn'
<1>1. CurrentDrawer \in room.players
  BY DrawerIsThere DEF BeginTurn
<1>2. PICK t : t = [tasks[s] EXCEPT !.at = "deal", !.drawer = CurrentDrawer, !.turn = turn + 1]
  OBVIOUS
<1>3. t.at = "deal" /\ t.turn = turn + 1
  BY <1>2, FlowTypes DEF Task
<1>4. tasks' = [tasks EXCEPT ![s] = t]
  BY <1>1, <1>2, FlowTypes DEF BeginTurn, TasksOK
<1>5. tasks'[s] = t /\ \A x \in Slots \ {s} : Keeps(x)
  BY <1>4, Replaced, FlowTypes
<1>6. turn' = turn + 1 /\ drew' = drew \cup {CurrentDrawer}
  BY <1>1 DEF BeginTurn
<1>7. /\ room'.phase = "WORD_SELECTION" /\ room'.drawing = {CurrentDrawer}
      /\ room'.drawOrder = room.drawOrder /\ room'.turnPointer = room.turnPointer
      /\ room'.connected = room.connected /\ room'.currentRound = room.currentRound
  BY <1>1, FlowTypes DEF BeginTurn, Room
<1>. QED  BY <1>3, <1>5, <1>6, <1>7 DEF Becomes

LEMMA BeginTurnFlows ==
    ASSUME IInv, Whole, FlowInv, NEW s \in Slots, BeginTurn(s)
    PROVE  FlowInv'
<1>1. tasks[s].at \in Solo /\ UNCHANGED <<timers, secret>>
  BY DEF BeginTurn, At, Solo
<1>2. timers = {} /\ \A x \in Slots \ {s} : Idle(x)
  BY <1>1, OnItsOwn
<1>3. Choosing' /\ HasPen'
  BY BeginTurnDoes DEF Choosing, HasPen, CurrentDrawer
<1>4. secret'.turn <= turn' /\ secret'.turn # turn'
  BY <1>1, BeginTurnDoes, FlowTypes DEF FlowInv, PenAndWord, Secret
<1>5. PenAndWord'
  BY <1>3, <1>4, BeginTurnDoes DEF PenAndWord, Choosing, Drawing, Chosen
<1>6. Timely(s)'
  BY <1>3, <1>4, BeginTurnDoes DEF Timely, Becomes
<1>. QED  BY <1>1, <1>2, <1>5, <1>6, BeginTurnDoes, AloneFlows DEF Becomes, Keeps, Idle

-----------------------------------------------------------------------------
LEMMA DealFlows ==
    ASSUME IInv, FlowInv, NEW s \in Slots, Deal(s)
    PROVE  FlowInv'
<1>1. tasks[s].at \in Solo /\ tasks[s].at = "deal" /\ Timely(s) /\ UNCHANGED <<room, turn>>
  BY DEF Deal, Solo, FlowInv
<1>2. timers = {} /\ \A x \in Slots \ {s} : Idle(x)
  BY <1>1, OnItsOwn
<1>3. Becomes(s, "idle")
  BY HasSet, FlowTypes DEF Deal
<1>4. \A x \in Slots : tasks'[x].at = "idle"
  BY <1>2, <1>3 DEF Becomes, Keeps, Idle
<1>5. secret' = [turn |-> turn, chosen |-> FALSE]
  BY <1>1 DEF Deal, Timely
<1>6. Choosing' /\ HasPen' /\ Offered'
  BY <1>1, <1>5 DEF Timely, Choosing, HasPen, CurrentDrawer, Offered
<1>7. PenAndWord'
  BY <1>1, <1>5, <1>6, FlowTypes DEF PenAndWord, Choosing, Drawing, Offered, Chosen
<1>8. \A t \in timers' : t.kind = "select"
  BY <1>2 DEF Deal, Armed, Cleared
<1>9. ASSUME NEW t \in timers' PROVE Runs(t)'
  BY <1>6, <1>8 DEF Runs
<1>10. ASSUME NEW x \in Slots PROVE Timely(x)' /\ Alone(x)'
  BY <1>4 DEF Timely, Alone, Solo
<1>. QED  BY <1>7, <1>9, <1>10 DEF FlowInv

LEMMA SelectWordFlows ==
    ASSUME OneCalmNode, IInv, Whole, FlowInv, NEW s \in Slots, SelectWord(s)
    PROVE  FlowInv'
<1>1. tasks[s].at = "select" /\ Timely(s) /\ UNCHANGED <<turn, secret>> /\ tasks[s].node \in Nodes
  BY FlowTypes DEF SelectWord, At, FlowInv, Idle
<1>2. CASE Finish(s) /\ UNCHANGED <<room, timers>>
  BY <1>1, <1>2, EndsFlow DEF SameStage
<1>3. CASE /\ Choosing
           /\ room' = [room EXCEPT !.phase = "DRAWING"]
           /\ timers' = Cleared(tasks[s].node, {"select"})
           /\ tasks' = [tasks EXCEPT ![s] = [@ EXCEPT !.at = "setWord", !.player = Nobody]]
  <2>1. PICK t : t = [tasks[s] EXCEPT !.at = "setWord", !.player = Nobody]
    OBVIOUS
  <2>2. t.at = "setWord" /\ t.turn = tasks[s].turn
    BY <2>1, FlowTypes DEF Task
  <2>3. tasks' = [tasks EXCEPT ![s] = t]
    BY <1>3, <2>1, FlowTypes DEF TasksOK
  <2>4. tasks'[s] = t /\ \A x \in Slots \ {s} : Keeps(x)
    BY <2>3, Replaced, FlowTypes
  <2>5. timers' = {}
    <3>1. timers' = {u \in timers : u.kind \notin {"select"}}
      BY <1>1, <1>3, ClearedAll
    <3>2. ASSUME NEW u \in timers, u.kind # "select" PROVE FALSE
      <4>1. Runs(u) /\ u.kind \in TimerKinds
        BY FlowTypes DEF FlowInv, Timer
      <4>. QED  BY <1>3, <3>2, <4>1 DEF Runs, TimerKinds, Choosing, Drawing, Over
    <3>. QED  BY <3>1, <3>2
  <2>6. ASSUME NEW x \in Slots \ {s} PROVE Idle(x) \/ (tasks[x].at = "select" /\ tasks[x].turn = turn)
    <3>1. Timely(x) /\ Alone(x) /\ tasks[x].at \in Labels
      BY FlowTypes DEF FlowInv, Task
    <3>2. tasks[s].at \in {tasks[y].at : y \in Slots \ {x}}
      OBVIOUS
    <3>3. tasks[x].at \notin Solo
      BY <1>1, <3>1, <3>2 DEF Alone
    <3>. QED  BY <1>3, <3>1, <3>3 DEF Timely, Labels, Solo, Choosing, Drawing, Over, Idle
  <2>7. room'.phase = "DRAWING" /\ room'.drawing = room.drawing
        /\ room'.drawOrder = room.drawOrder /\ room'.turnPointer = room.turnPointer
    BY <1>3, FlowTypes DEF Room
  <2>8. HasPen /\ Offered /\ tasks[s].turn = turn
    BY <1>1, <1>3 DEF Timely, Choosing, Drawing, Over
  <2>9. Drawing' /\ HasPen' /\ Offered' /\ ~Choosing'
    BY <1>1, <2>7, <2>8 DEF Drawing, HasPen, CurrentDrawer, Offered, Choosing
  <2>10. PenAndWord'
    BY <1>1, <2>7, <2>9, FlowTypes DEF PenAndWord, Drawing, Choosing, Offered
  <2>11. ASSUME NEW x \in Slots PROVE Timely(x)'
    <3>1. CASE x = s
      BY <1>1, <2>2, <2>4, <2>8, <2>9, <3>1 DEF Timely
    <3>2. CASE x # s
      <4>1. Keeps(x)
        BY <2>4, <3>2
      <4>2. tasks'[x].at = "idle" \/ (tasks'[x].at = "select" /\ tasks'[x].turn = turn')
        BY <1>1, <2>6, <3>2, <4>1 DEF Keeps, Idle
      <4>. QED  BY <2>9, <4>2 DEF Timely
    <3>. QED  BY <3>1, <3>2
  <2>12. ASSUME NEW x \in Slots PROVE Alone(x)'
    <3>1. \A y \in Slots \ {s} : tasks'[y].at \in {"idle", "select"}
      BY <2>4, <2>6 DEF Keeps, Idle
    <3>. QED  BY <2>2, <2>4, <2>5, <3>1 DEF Alone, Solo
  <2>. QED  BY <2>5, <2>10, <2>11, <2>12 DEF FlowInv
<1>. QED  BY <1>2, <1>3, NothingWritten DEF SelectWord, Choosing

\* The handler that begins the drawing shares it with late choices only.
LEMMA Beginning ==
    ASSUME IInv, FlowInv, NEW s \in Slots, tasks[s].at \in {"setWord", "arm"}
    PROVE  /\ Drawing /\ timers = {}
           /\ \A x \in Slots \ {s} : Idle(x) \/ (tasks[x].at = "select" /\ tasks[x].turn = turn)
<1>1. Drawing /\ timers = {}
  BY DEF FlowInv, Timely, Alone
<1>2. ASSUME NEW x \in Slots \ {s} PROVE Idle(x) \/ (tasks[x].at = "select" /\ tasks[x].turn = turn)
  <2>1. Alone(s) /\ Timely(x) /\ tasks[x].at \in {tasks[y].at : y \in Slots \ {s}}
    BY DEF FlowInv
  <2>. QED  BY <2>1 DEF Alone, Timely, Idle
<1>. QED  BY <1>1, <1>2

LEMMA SetWordFlows ==
    ASSUME IInv, FlowInv, NEW s \in Slots, SetWord(s)
    PROVE  FlowInv'
<1>1. tasks[s].at = "setWord" /\ Timely(s) /\ UNCHANGED <<room, turn, timers>>
  BY DEF SetWord, At, FlowInv
<1>2. Becomes(s, "arm")
  BY WentOn, FlowTypes DEF SetWord
<1>3. secret' = [turn |-> turn, chosen |-> TRUE]
  BY <1>1 DEF SetWord, Timely
<1>4. Drawing' /\ HasPen' /\ Chosen' /\ ~Choosing' /\ secret'.turn = turn'
  BY <1>1, <1>3, Beginning DEF FlowInv, PenAndWord, Drawing, HasPen, CurrentDrawer, Chosen, Choosing
<1>5. PenAndWord'
  BY <1>1, <1>4, FlowTypes DEF PenAndWord, Drawing, Choosing
<1>6. \A x \in Slots \ {s} : tasks'[x].at = "idle" \/ (tasks'[x].at = "select" /\ tasks'[x].turn = turn')
  BY <1>1, <1>2, Beginning DEF Becomes, Keeps, Idle
<1>7. ASSUME NEW x \in Slots PROVE Timely(x)'
  BY <1>2, <1>4, <1>6 DEF Timely, Becomes
<1>8. ASSUME NEW x \in Slots PROVE Alone(x)'
  BY <1>1, <1>2, <1>6, Beginning DEF Alone, Solo, Becomes
<1>. QED  BY <1>1, <1>5, <1>7, <1>8, Beginning DEF FlowInv

LEMMA ArmFlows ==
    ASSUME IInv, FlowInv, NEW s \in Slots, Arm(s)
    PROVE  FlowInv'
<1>1. tasks[s].at = "arm" /\ Timely(s) /\ SameStage
  BY DEF Arm, FlowInv, SameStage
<1>2. Becomes(s, "idle")
  BY HasSet, FlowTypes DEF Arm
<1>3. \A x \in Slots : tasks'[x].at = "idle" \/ (tasks'[x].at = "select" /\ tasks'[x].turn = turn')
  BY <1>1, <1>2, Beginning DEF Becomes, Keeps, Idle, SameStage
<1>4. \A t \in timers' : t.kind \in {"draw", "hint"}
  BY <1>1, Beginning DEF Arm, Armed, Cleared
<1>5. Drawing' /\ Chosen' /\ PenAndWord'
  BY <1>1, Beginning, StageStays DEF Timely
<1>6. ASSUME NEW x \in Slots PROVE Timely(x)' /\ Alone(x)'
  BY <1>3, <1>5 DEF Timely, Alone, Solo
<1>7. ASSUME NEW t \in timers' PROVE Runs(t)'
  BY <1>3, <1>4, <1>5 DEF Runs
<1>. QED  BY <1>5, <1>6, <1>7 DEF FlowInv

-----------------------------------------------------------------------------
\* In the pause no timer is pending but that of the pause; while a turn is ended, none.
LEMMA EndTurnFlows ==
    ASSUME IInv, Whole, FlowInv, NEW s \in Slots, EndTurn(s)
    PROVE  FlowInv'
<1>1. tasks[s].at = "endTurn" /\ Timely(s) /\ UNCHANGED <<turn, secret, timers>>
  BY DEF EndTurn, At, FlowInv
<1>2. CASE Finish(s) /\ UNCHANGED room
  BY <1>1, <1>2, EndsFlow DEF SameStage
<1>3. CASE /\ ~(Finish(s) /\ UNCHANGED room)
  <2>1. /\ Drawing /\ Chosen /\ Enter(s, "turnEnded")
        /\ room' = [room EXCEPT !.phase = "ROUND_END", !.drawing = @ \ {CurrentDrawer}]
    BY <1>1, <1>3, NothingWritten DEF EndTurn, Timely, Over, Drawing
  <2>2. Becomes(s, "turnEnded")
    BY <2>1, Entered, FlowTypes
  <2>3. HasPen
    BY <2>1 DEF FlowInv, PenAndWord
  <2>4. room'.phase = "ROUND_END" /\ room'.drawing = {}
    BY <2>1, <2>3, FlowTypes DEF Room, HasPen
  <2>5. Over' /\ ~Choosing' /\ ~Drawing'
    BY <2>4 DEF Over, Choosing, Drawing
  <2>6. PenAndWord'
    BY <1>1, <2>4, <2>5 DEF FlowInv, PenAndWord
  <2>7. timers = {}
    <3>1. ASSUME NEW t \in timers PROVE FALSE
      <4>1. Runs(t) /\ t.kind \in TimerKinds
        BY FlowTypes DEF FlowInv, Timer
      <4>. QED  BY <1>1, <2>1, <4>1 DEF Runs, TimerKinds, Choosing, Drawing, Over
    <3>. QED  BY <3>1
  <2>8. ASSUME NEW x \in Slots \ {s} PROVE tasks[x].at \in {"idle"} \cup Stragglers /\ Timely(x)
    <3>1. Timely(x) /\ Alone(x) /\ tasks[x].at \in Labels
      BY FlowTypes DEF FlowInv, Task
    <3>2. tasks[s].at \in {tasks[y].at : y \in Slots \ {x}}
      OBVIOUS
    <3>3. tasks[x].at \notin Solo \cup {"setWord", "arm"}
      BY <1>1, <3>1, <3>2 DEF Alone
    <3>4. tasks[x].at \notin {"turnEnded", "gone", "delete"}
      BY <2>1, <3>1 DEF Timely, Drawing, Over
    <3>. QED  BY <3>1, <3>3, <3>4 DEF Labels, Solo, Stragglers
  <2>9. ASSUME NEW x \in Slots \ {s} PROVE Timely(x)' /\ tasks'[x].at \in {"idle"} \cup Stragglers
    <3>1. Keeps(x) /\ Timely(x) /\ tasks[x].at \in {"idle"} \cup Stragglers
      BY <2>2, <2>8 DEF Becomes
    <3>. QED  BY <1>1, <2>5, <3>1 DEF Timely, Keeps, Stragglers
  <2>10. Timely(s)'
    BY <2>2, <2>5 DEF Timely, Becomes
  <2>11. ASSUME NEW x \in Slots PROVE Alone(x)'
    BY <1>1, <2>2, <2>7, <2>9 DEF Alone, Solo, Stragglers, Becomes
  <2>. QED  BY <1>1, <2>6, <2>7, <2>9, <2>10, <2>11 DEF FlowInv
<1>. QED  BY <1>2, <1>3

LEMMA TurnEndedFlows ==
    ASSUME OneCalmNode, IInv, FlowInv, NEW s \in Slots, TurnEnded(s)
    PROVE  FlowInv'
<1>1. tasks[s].at = "turnEnded" /\ Timely(s) /\ Alone(s) /\ UNCHANGED <<room, turn>>
  BY DEF TurnEnded, FlowInv
<1>2. /\ Becomes(s, "idle")
      /\ \A x \in Slots : \/ tasks'[x].at = "idle"
                          \/ {tasks[s].node} \X {"roundEnd"} \subseteq tasks'[x].delays
  BY HasSet, FlowTypes DEF TurnEnded, OneCalmNode
<1>3. Over /\ timers = {} /\ Over' /\ ~Choosing' /\ ~Drawing'
  BY <1>1 DEF Timely, Alone, Over, Choosing, Drawing
<1>4. timers' = {[node |-> tasks[s].node, kind |-> "roundEnd", drawer |-> Nobody]}
  BY <1>3 DEF TurnEnded, Armed, Cleared
<1>5. secret'.turn = 0 /\ turn' \in Nat
  BY <1>1, FlowTypes DEF TurnEnded, NoSecret
<1>6. PenAndWord'
  BY <1>1, <1>3, <1>5 DEF FlowInv, PenAndWord
<1>7. ASSUME NEW x \in Slots PROVE tasks[x].at \in {"idle", "turnEnded"} \cup Stragglers /\ Timely(x)
  BY <1>1 DEF FlowInv, Alone
<1>8. ASSUME NEW x \in Slots PROVE tasks'[x].at \in {"idle"} \cup Stragglers /\ Timely(x)'
  <2>1. CASE x = s
    BY <1>2, <2>1 DEF Becomes, Timely
  <2>2. CASE x # s
    <3>1. Keeps(x) /\ Timely(x) /\ tasks[x].at \in {"idle"} \cup Stragglers
      <4>1. tasks[x].at \in {tasks[y].at : y \in Slots \ {s}}
        BY <2>2
      <4>. QED  BY <1>1, <1>2, <1>7, <2>2, <4>1 DEF Becomes, Alone
    <3>. QED  BY <1>1, <1>3, <3>1 DEF Timely, Keeps, Stragglers
  <2>. QED  BY <2>1, <2>2
<1>9. ASSUME NEW x \in Slots PROVE Alone(x)'
  BY <1>8 DEF Alone, Solo, Stragglers
<1>10. ASSUME NEW t \in timers' PROVE Runs(t)'
  <2>1. t.kind = "roundEnd" /\ t.node = tasks[s].node /\ timers' = {t}
    BY <1>4
  <2>2. \A x \in Slots : tasks'[x].at = "idle" \/ <<t.node, "roundEnd">> \in tasks'[x].delays
    BY <1>2, <2>1
  <2>. QED  BY <1>3, <2>1, <2>2 DEF Runs, Idle
<1>. QED  BY <1>6, <1>8, <1>9, <1>10 DEF FlowInv

\* A timer that fires when nothing else is in flight.
LEMMA TimerFlows ==
    ASSUME OneCalmNode, IInv, FlowInv, NEW t \in timers, RoundEndTimeout(t) \/ GameEndTimeout(t)
    PROVE  FlowInv'
<1>1. SameStage /\ Due(t) /\ timers' = timers \ {t}
  BY DEF RoundEndTimeout, GameEndTimeout, SameStage
<1>2. /\ Runs(t) /\ timers = {t} /\ \A x \in Slots : Idle(x)
      /\ IF t.kind = "roundEnd" THEN Over ELSE room.phase = "GAME_END"
  <2>1. Runs(t) /\ t.kind \in {"roundEnd", "gameEnd"}
    BY DEF FlowInv, RoundEndTimeout, GameEndTimeout
  <2>2. \A x \in Slots : <<t.node, t.kind>> \notin tasks[x].delays
    BY <1>1 DEF Due, OneCalmNode
  <2>. QED  BY <2>1, <2>2 DEF Runs
<1>3. PICK h : h = Handler(t.node, IF t.kind = "roundEnd" THEN "advance" ELSE "reset")
  OBVIOUS
<1>4. h.at = (IF t.kind = "roundEnd" THEN "advance" ELSE "reset")
  BY <1>3, HandlerFields
<1>5. Spawn(h)
  BY <1>3 DEF RoundEndTimeout, GameEndTimeout
<1>6. PICK s \in Slots : Idle(s) /\ tasks'[s] = h /\ \A x \in Slots \ {s} : Keeps(x)
  BY <1>5, Spawned, FlowTypes
<1>7. timers' = {} /\ \A x \in Slots \ {s} : tasks'[x].at = "idle"
  BY <1>1, <1>2, <1>6 DEF Keeps, Idle
<1>8. PenAndWord' /\ Timely(s)'
  BY <1>1, <1>2, <1>4, <1>6, StageStays DEF Timely, SameStage
<1>. QED  BY <1>4, <1>6, <1>7, <1>8, AloneFlows

LEMMA AdvanceFlows ==
    ASSUME IInv, FlowInv, NEW s \in Slots, AdvanceTurn(s)
    PROVE  FlowInv'
<1>1. tasks[s].at \in Solo /\ tasks[s].at = "advance" /\ Timely(s) /\ UNCHANGED <<turn, secret>>
  BY DEF AdvanceTurn, At, Solo, FlowInv
<1>2. timers = {} /\ \A x \in Slots \ {s} : Idle(x)
  BY <1>1, OnItsOwn
<1>3. timers' = {}
  BY <1>2 DEF AdvanceTurn, Cleared
<1>4. PICK label \in {"endGame", "begin"} : Becomes(s, label)
  BY Entered, FlowTypes DEF AdvanceTurn
<1>5. room'.phase = room.phase /\ room'.drawing = room.drawing
  BY FlowTypes DEF AdvanceTurn, NextTurn, NextRound, LastRoundOver, Room
<1>6. Over /\ Over' /\ room.drawing = {} /\ ~Choosing' /\ ~Drawing'
  BY <1>1, <1>5 DEF Timely, FlowInv, PenAndWord, Over, Choosing, Drawing
<1>7. PenAndWord' /\ Timely(s)'
  BY <1>1, <1>4, <1>5, <1>6 DEF FlowInv, PenAndWord, Timely, Becomes
<1>. QED  BY <1>2, <1>3, <1>4, <1>7, AloneFlows DEF Becomes, Keeps, Idle

LEMMA EndGameDoes ==
    ASSUME IInv, NEW s \in Slots, EndGame(s)
    PROVE  Becomes(s, "persist")
<1>1. PICK t : t = [tasks[s] EXCEPT !.at = "persist", !.gameId = room.gameId, !.ranked = room.players]
  OBVIOUS
<1>2. t.at = "persist"
  BY <1>1, FlowTypes DEF Task
<1>3. tasks' = [tasks EXCEPT ![s] = t]
  BY <1>1, FlowTypes DEF EndGame, TasksOK
<1>. QED  BY <1>2, <1>3, Replaced, FlowTypes DEF Becomes

LEMMA EndGameFlows ==
    ASSUME IInv, FlowInv, NEW s \in Slots, EndGame(s)
    PROVE  FlowInv'
<1>1. tasks[s].at \in Solo /\ UNCHANGED <<turn, secret, timers>>
  BY DEF EndGame, At, Solo
<1>2. timers = {} /\ \A x \in Slots \ {s} : Idle(x)
  BY <1>1, OnItsOwn
<1>3. room'.phase = "GAME_END" /\ room'.drawing = {}
  BY FlowTypes DEF EndGame, Room
<1>4. PenAndWord' /\ Timely(s)'
  BY <1>1, <1>3, EndGameDoes DEF FlowInv, PenAndWord, Timely, Becomes, Choosing, Drawing
<1>. QED  BY <1>1, <1>2, <1>4, EndGameDoes, AloneFlows DEF Becomes, Keeps, Idle

\* The results are saved, shown, and forgotten.
LEMMA ShowFlows ==
    ASSUME IInv, FlowInv, NEW s \in Slots, tasks[s].at \in {"persist", "stats"},
           ShowResults(s), UNCHANGED <<room, turn, secret>>
    PROVE  FlowInv'
<1>1. tasks[s].at \in Solo /\ Timely(s) /\ SameStage
  BY DEF Solo, FlowInv, SameStage
<1>2. timers = {} /\ \A x \in Slots \ {s} : Idle(x)
  BY <1>1, OnItsOwn
<1>3. Becomes(s, "idle")
  BY HasSet, FlowTypes DEF ShowResults
<1>4. \A x \in Slots : tasks'[x].at = "idle"
  BY <1>2, <1>3 DEF Becomes, Keeps, Idle
<1>5. timers' = {[node |-> tasks[s].node, kind |-> "gameEnd", drawer |-> Nobody]}
  BY <1>2 DEF ShowResults, Armed, Cleared
<1>6. room'.phase = "GAME_END" /\ PenAndWord'
  BY <1>1, StageStays DEF Timely, SameStage
<1>7. ASSUME NEW t \in timers' PROVE Runs(t)'
  <2>1. t.kind = "gameEnd" /\ timers' = {t}
    BY <1>5
  <2>. QED  BY <1>4, <1>6, <2>1 DEF Runs, Idle
<1>8. ASSUME NEW x \in Slots PROVE Timely(x)' /\ Alone(x)'
  BY <1>4 DEF Timely, Alone, Solo
<1>. QED  BY <1>6, <1>7, <1>8 DEF FlowInv

LEMMA SaveFlows ==
    ASSUME IInv, FlowInv, NEW s \in Slots, SaveScores(s) \/ SaveStats(s) \/ PersistFails(s)
    PROVE  FlowInv'
<1>1. CASE ShowResults(s)
  BY <1>1, ShowFlows DEF SaveScores, SaveStats, PersistFails
<1>2. CASE SaveScores(s) /\ Goto(s, "stats") /\ UNCHANGED timers
  <2>1. tasks[s].at \in Solo /\ tasks[s].at = "persist" /\ Timely(s) /\ SameStage
    BY <1>2 DEF SaveScores, Solo, FlowInv, SameStage
  <2>2. timers = {} /\ \A x \in Slots \ {s} : Idle(x)
    BY <2>1, OnItsOwn
  <2>3. Becomes(s, "stats")
    BY <1>2, WentOn, FlowTypes
  <2>4. PenAndWord' /\ Timely(s)'
    BY <2>1, <2>3, StageStays DEF Timely, SameStage, Becomes
  <2>. QED  BY <1>2, <2>2, <2>3, <2>4, AloneFlows DEF Becomes, Keeps, Idle
<1>. QED  BY <1>1, <1>2 DEF SaveScores, SaveStats, PersistFails

LEMMA ResetFlows ==
    ASSUME IInv, FlowInv, NEW s \in Slots, ResetToLobby(s)
    PROVE  FlowInv'
<1>1. tasks[s].at \in Solo /\ UNCHANGED <<turn, secret, timers>> /\ Finish(s)
  BY DEF ResetToLobby, At, Solo
<1>2. timers = {} /\ \A x \in Slots \ {s} : Idle(x)
  BY <1>1, OnItsOwn
<1>3. Becomes(s, "idle")
  BY <1>1, Finished, FlowTypes
<1>4. room'.phase = "LOBBY" /\ room'.drawing = {}
  BY FlowTypes DEF ResetToLobby, Room
<1>5. PenAndWord' /\ Timely(s)'
  BY <1>1, <1>3, <1>4 DEF FlowInv, PenAndWord, Timely, Becomes, Choosing, Drawing
<1>. QED  BY <1>1, <1>2, <1>3, <1>5, AloneFlows DEF Becomes, Keeps, Idle

-----------------------------------------------------------------------------
LEMMA FlowInit == Init => FlowInv
<1>. SUFFICES ASSUME Init PROVE FlowInv
  OBVIOUS
<1>1. \A s \in Slots : tasks[s].at = "idle"
  BY DEF Init, NoTask
<1>2. /\ room.phase = "LOBBY" /\ room.drawing = {} /\ turn = 0 /\ secret.turn = 0
      /\ timers = {}
  BY DEF Init, NoSecret
<1>. QED
  BY <1>1, <1>2 DEF FlowInv, PenAndWord, Timely, Alone, Solo, Choosing, Drawing

LEMMA FlowStep == OneCalmNode /\ IInv /\ Whole /\ FlowInv /\ [Next]_vars => FlowInv'
<1>. SUFFICES ASSUME OneCalmNode, IInv, Whole, FlowInv, [Next]_vars PROVE FlowInv'
  OBVIOUS
<1>1. CASE UNCHANGED vars
  BY <1>1, NothingNew DEF vars, SameStage, Keeps
<1>2. ASSUME NEW p \in Players, Join(p) \/ Disconnect(p) PROVE FlowInv'
  BY <1>2, ConnectionFlows
<1>3. ASSUME NEW n \in Nodes, RequestStart(n) \/ Crash(n) PROVE FlowInv'
  BY <1>3, RequestStartFlows, CrashFlows
<1>4. ASSUME NEW n \in Nodes, NEW p \in Players,
             Leave(n, p) \/ Kick(n, p) \/ ChooseWord(n, p) \/ Guess(n, p)
      PROVE  FlowInv'
  BY <1>4, ChooseWordFlows, GuessFlows DEF Leave, Kick, Remove, OneCalmNode
<1>5. ASSUME NEW t \in timers, Timeout(t) \/ HintTick(t) PROVE FlowInv'
  BY <1>5, SelectTimeoutFlows, DrawTimeoutFlows, TimerFlows, HintTickFlows DEF Timeout
<1>6. ASSUME NEW s \in Slots, PersistFails(s) \/ HandlerFails(s) PROVE FlowInv'
  BY <1>6, SaveFlows, EndsFlow, NothingWritten DEF HandlerFails, SameStage
<1>7. ASSUME NEW s \in Slots, Resume(s) PROVE FlowInv'
  <2>1. ~PlayerGone(s) /\ ~Delete(s)
    BY DEF PlayerGone, Delete, FlowInv, Timely
  <2>2. CASE NoRoom(s) \/ BeginNothing(s)
    BY <2>2, EndsFlow, NothingWritten DEF NoRoom, BeginNothing, SameStage
  <2>3. ASSUME NEW last \in BOOLEAN, RevealHint(s, last) PROVE FlowInv'
    BY <2>3, RevealFlows
  <2>4. CASE StartGame(s) \/ BeginTurn(s) \/ Deal(s) \/ SelectWord(s) \/ SetWord(s) \/ Arm(s)
    BY <2>4, StartGameFlows, BeginTurnFlows, DealFlows, SelectWordFlows, SetWordFlows, ArmFlows
  <2>5. CASE CreditGuess(s) \/ EndTurn(s) \/ TurnEnded(s) \/ AdvanceTurn(s)
             \/ EndGame(s) \/ SaveScores(s) \/ SaveStats(s) \/ ResetToLobby(s)
    BY <2>5, CreditFlows, EndTurnFlows, TurnEndedFlows, AdvanceFlows, EndGameFlows, SaveFlows,
       ResetFlows
  <2>. QED  BY <1>7, <2>1, <2>2, <2>3, <2>4, <2>5 DEF Resume
<1>8. ~OtherMutation
  BY GameFlowAssumption DEF Whole, OtherMutation, Others
<1>. QED  BY <1>1, <1>2, <1>3, <1>4, <1>5, <1>6, <1>7, <1>8 DEF Next

LEMMA Flow == ASSUME OneCalmNode PROVE Spec => [](IInv /\ Whole /\ FlowInv)
<1>1. Init => IInv /\ Whole /\ FlowInv
  BY InitInv, InitWhole, FlowInit
<1>2. IInv /\ Whole /\ FlowInv /\ [Next]_vars => IInv' /\ Whole' /\ FlowInv'
  BY StepInv, WholeStep, FlowStep DEF OneCalmNode
<1>. QED  BY <1>1, <1>2, PTL DEF Spec

\* The pen is where the order points, through any number of games on one node
\* (game.service.ts:111-126, 255-269, 345-355).
THEOREM PenFollowsEveryOrder ==
    ASSUME OneCalmNode
    PROVE  Spec => []DrawerHasPen
<1>1. IInv /\ FlowInv => DrawerHasPen
  BY DEF FlowInv, PenAndWord, DrawerHasPen, Drawing, HasPen
<1>. QED  BY <1>1, Flow, PTL

\* A guess that is credited was matched with the word of the turn that goes on: what is in
\* flight when a turn ends is over before the next one begins (game.service.ts:255-337).
THEOREM GuessesCountInTime ==
    ASSUME OneCalmNode
    PROVE  Spec => CreditInItsTurn
<1>1. IInv /\ FlowInv => \A s \in Slots : tasks[s].at = "guess" => tasks[s].turn = turn
  BY DEF FlowInv, Timely
<1>2. IInv /\ FlowInv /\ [Next]_vars =>
        [\A s \in Slots : tasks[s].at = "guess" /\ room'.guessed # room.guessed
                              /\ tasks'[s].at # "guess" => tasks[s].turn = turn]_vars
  BY <1>1
<1>. QED  BY <1>2, Flow, PTL DEF Spec, CreditInItsTurn

LEMMA WordStays ==
    ASSUME IInv, Whole, FlowInv, Next, secret.chosen, Drawing, room'.phase = "DRAWING", ~Leaves
    PROVE  secret' = secret
<1>. USE DEF Drawing
<1>1. ASSUME NEW p \in Players, Join(p) \/ Disconnect(p) PROVE secret' = secret
  BY <1>1 DEF Join, Disconnect
<1>2. ASSUME NEW n \in Nodes, RequestStart(n) \/ Crash(n) PROVE secret' = secret
  BY <1>2 DEF RequestStart, Crash
<1>3. ASSUME NEW n \in Nodes, NEW p \in Players,
             Leave(n, p) \/ Kick(n, p) \/ ChooseWord(n, p) \/ Guess(n, p)
      PROVE  secret' = secret
  BY <1>3 DEF Leave, Kick, Remove, ChooseWord, Guess
<1>4. ASSUME NEW t \in timers, Timeout(t) \/ HintTick(t) PROVE secret' = secret
  BY <1>4 DEF Timeout, SelectTimeout, DrawTimeout, RoundEndTimeout, GameEndTimeout, HintTick
<1>5. ASSUME NEW s \in Slots, Resume(s) \/ PersistFails(s) \/ HandlerFails(s)
      PROVE  secret' = secret
  <2>1. Timely(s)
    BY DEF FlowInv
  <2>2. ~Deal(s) /\ ~SetWord(s) /\ ~TurnEnded(s) /\ ~Delete(s)
    BY <2>1 DEF Timely, Deal, SetWord, TurnEnded, Delete, Choosing, Over, Offered, At
  <2>3. ASSUME NEW last \in BOOLEAN, RevealHint(s, last) PROVE secret' = secret
    BY <2>3, HintWritesBack
  <2>. QED  BY <1>5, <2>2, <2>3 DEF Resume, NoRoom, PlayerGone, StartGame, BeginTurn, BeginNothing,
            SelectWord, Arm, CreditGuess, EndTurn, AdvanceTurn, EndGame, SaveScores, SaveStats,
            ResetToLobby, PersistFails, HandlerFails
<1>6. CASE OtherMutation
  BY <1>6 DEF OtherMutation
<1>. QED  BY <1>1, <1>2, <1>3, <1>4, <1>5, <1>6 DEF Next

\* The word of a turn stays what was chosen while it is drawn: a hint tick writes back what it
\* read in the same turn, after the word was set (room.store.ts:124-133,
\* game.service.ts:222-247).
THEOREM WordIsKept ==
    ASSUME OneCalmNode
    PROVE  Spec => WordStaysSet
<1>1. IInv /\ Whole /\ FlowInv /\ [Next]_vars =>
        [secret.chosen /\ room.phase = "DRAWING" /\ room'.phase = "DRAWING" => secret' = secret]_vars
  BY WordStays DEF OneCalmNode, Drawing
<1>. QED  BY <1>1, Flow, PTL DEF Spec, WordStaysSet

-----------------------------------------------------------------------------
(***************************************************************************)
(* The rules of the game.  Who has drawn in a round is who stands in the   *)
(* order up to the pointer; a game ends when nobody is left and no round   *)
(* is to come.                                                             *)
(***************************************************************************)
First(o, k) == {o[i] : i \in {j \in DOMAIN o : j <= k}}
All(o) == {o[i] : i \in DOMAIN o}

LEMMA FirstOfOrder ==
    ASSUME NEW o \in Seq(Players)
    PROVE  /\ First(o, 0) = {}
           /\ \A k \in Nat : k < Len(o) => First(o, k + 1) = First(o, k) \cup {o[k + 1]}
           /\ \A k \in Nat : k >= Len(o) => First(o, k) = All(o)
<1>1. PICK n \in Nat : n = Len(o) /\ DOMAIN o = 1..n
  OBVIOUS
<1>2. First(o, 0) = {}
  BY <1>1 DEF First
<1>3. ASSUME NEW k \in Nat, k < n PROVE First(o, k + 1) = First(o, k) \cup {o[k + 1]}
  <2>1. \A j \in 1..n : j <= k + 1 <=> j <= k \/ j = k + 1
    BY <1>3
  <2>2. k + 1 \in 1..n
    BY <1>3
  <2>. QED  BY <1>1, <2>1, <2>2 DEF First
<1>4. ASSUME NEW k \in Nat, k >= n PROVE First(o, k) = All(o)
  BY <1>1, <1>4 DEF First, All
<1>. QED  BY <1>1, <1>2, <1>3, <1>4

\* A shuffled order names everybody it was made of.
LEMMA OrderNames ==
    ASSUME NEW S \in SUBSET Players, NEW o \in Orders(S)
    PROVE  All(o) = S /\ o \in Seq(S) /\ Len(o) = Cardinality(S)
<1>1. IsFiniteSet(S) /\ Cardinality(S) \in Nat
  BY GameFlowAssumption, FS_Subset, FS_CardinalityType
<1>2. PICK n \in Nat : n = Cardinality(S)
  BY <1>1
<1>3. o \in [1..n -> S] /\ \A i, j \in 1..n : i # j => o[i] # o[j]
  BY <1>2 DEF Orders
<1>4. o \in Injection(1..n, S)
  BY <1>3 DEF Injection, IsInjective
<1>5. IsFiniteSet(1..n) /\ Cardinality(1..n) = n
  BY FS_Interval
<1>6. o \in Surjection(1..n, S)
  BY <1>1, <1>2, <1>4, <1>5, FS_Injection
<1>7. All(o) = S
  BY <1>3, <1>6 DEF Surjection, All
<1>. QED  BY <1>2, <1>3, <1>7

LEMMA NotFirstNames ==
    ASSUME NEW o \in Seq(Players), NEW p
    PROVE  All(NotFirst(p, o)) = All(o) /\ Len(NotFirst(p, o)) = Len(o)
<1>1. CASE ~(Len(o) > 1 /\ o[1] = p)
  BY <1>1 DEF NotFirst
<1>2. CASE Len(o) > 1 /\ o[1] = p
  <2>1. PICK n \in Nat : n = Len(o) /\ DOMAIN o = 1..n /\ n > 1
    BY <1>2
  <2>2. PICK w : w = Swapped(o)
    OBVIOUS
  <2>3. DOMAIN w = 1..n /\ \A i \in 1..n : w[i] = IF i = 1 THEN o[2] ELSE IF i = 2 THEN o[1] ELSE o[i]
    BY <2>1, <2>2 DEF Swapped
  <2>4. \A i \in 1..n : o[i] \in Players
    BY <2>1
  <2>5. w \in [1..n -> Players]
    BY <2>1, <2>2, <2>3, <2>4 DEF Swapped
  <2>6. Len(w) = n
    BY <2>5
  <2>7. All(w) = All(o)
    <3>1. All(w) \subseteq All(o)
      BY <2>1, <2>3 DEF All
    <3>2. ASSUME NEW i \in 1..n PROVE o[i] \in All(w)
      <4>1. CASE i = 1
        BY <2>1, <2>3, <4>1 DEF All
      <4>2. CASE i = 2
        BY <2>1, <2>3, <4>2 DEF All
      <4>3. CASE i \notin {1, 2}
        BY <2>3, <4>3 DEF All
      <4>. QED  BY <4>1, <4>2, <4>3
    <3>. QED  BY <2>1, <3>1, <3>2 DEF All
  <2>. QED  BY <1>2, <2>1, <2>2, <2>6, <2>7 DEF NotFirst
<1>. QED  BY <1>1, <1>2

-----------------------------------------------------------------------------
Counted == room.currentRound <= Rounds /\ drew = First(room.drawOrder, room.turnPointer + 1)

OrderInv ==
    /\ room.exists /\ room.connected # {}
    /\ room.phase = "LOBBY" => room.drawOrder = << >>
    /\ room.drawing # {} => Counted
    /\ \A x \in Slots :
          /\ tasks[x].at \in {"turnEnded", "advance"} => Counted
          /\ tasks[x].at = "begin" => /\ room.currentRound <= Rounds
                                      /\ drew = First(room.drawOrder, room.turnPointer)
          /\ tasks[x].at = "endGame" => /\ room.currentRound >= Rounds
                                        /\ All(room.drawOrder) \subseteq drew
    /\ \A t \in timers : t.kind = "roundEnd" => Counted
    /\ room.phase = "GAME_END" => All(room.drawOrder) \subseteq drew

SameOrders == /\ room'.drawOrder = room.drawOrder /\ room'.turnPointer = room.turnPointer
              /\ room'.currentRound = room.currentRound /\ drew' = drew /\ room'.exists = room.exists

LEMMA OrderFields ==
    ASSUME IInv
    PROVE  /\ room.drawOrder \in Seq(Players) /\ room.turnPointer \in Nat /\ room.currentRound \in Nat
           /\ Len(room.drawOrder) \in Nat /\ Rounds \in Nat /\ Rounds > 0
           /\ room.connected \in SUBSET Players
BY FlowTypes, GameFlowAssumption DEF Room

\* Most steps leave the order alone and bring nothing that relies on it.
LEMMA OrderStays ==
    ASSUME OrderInv, SameOrders, room'.connected # {},
           room'.phase \in {room.phase, "WORD_SELECTION", "DRAWING"},
           room'.drawing = room.drawing,
           \A t \in timers' : t.kind = "roundEnd" => t \in timers,
           \A x \in Slots : \/ tasks'[x].at = tasks[x].at
                            \/ tasks'[x].at \notin {"turnEnded", "advance", "begin", "endGame"}
    PROVE  OrderInv'
BY DEF OrderInv, SameOrders, Counted

\* One handler goes on to a label that relies on nothing.
LEMMA OrderMoves ==
    ASSUME OrderInv, SameOrders, room'.connected = room.connected,
           room'.phase \in {room.phase, "WORD_SELECTION", "DRAWING"},
           room'.drawing = room.drawing,
           \A t \in timers' : t.kind = "roundEnd" => t \in timers,
           NEW s \in Slots, NEW label, label \notin {"turnEnded", "advance", "begin", "endGame"},
           Moves(s, label)
    PROVE  OrderInv'
BY OrderStays DEF Moves, OrderInv

LEMMA OrderSpawns ==
    ASSUME IInv, OrderInv, UNCHANGED <<room, drew>>, timers' \subseteq timers, NEW t, Spawn(t),
           t.at \notin {"turnEnded", "advance", "begin", "endGame"}
    PROVE  OrderInv'
<1>1. PICK s \in Slots : Moves(s, t.at)
  BY SpawnMoves, FlowTypes
<1>. QED  BY <1>1, OrderMoves DEF SameOrders

-----------------------------------------------------------------------------
\* What the steps of a turn do to the record.
LEMMA StartGameDoes ==
    ASSUME IInv, FlowInv, NEW s \in Slots, StartGame(s)
    PROVE  /\ room.phase = "LOBBY" /\ room.drawing = {}
           /\ room'.phase = "WORD_SELECTION" /\ room'.drawing = {} /\ room'.connected = room.connected
           /\ room'.exists = room.exists /\ room'.currentRound = 1 /\ room'.turnPointer = 0
           /\ All(room'.drawOrder) = room.connected /\ room'.drawOrder \in Seq(Players)
           /\ drew' = {} /\ UNCHANGED timers /\ Becomes(s, "begin")
<1>1. PICK order \in Orders(room.connected) :
          room' = [room EXCEPT !.gameId = tasks[s].gameId, !.currentRound = 1,
                               !.turnPointer = 0, !.drawOrder = order,
                               !.drawing = {}, !.guessed = {},
                               !.phase = "WORD_SELECTION"]
  BY DEF StartGame
<1>2. All(order) = room.connected /\ order \in Seq(Players)
  BY OrderNames, OrderFields
<1>3. /\ room'.phase = "WORD_SELECTION" /\ room'.drawing = {} /\ room'.connected = room.connected
      /\ room'.exists = room.exists /\ room'.currentRound = 1 /\ room'.turnPointer = 0
      /\ room'.drawOrder = order
  BY <1>1, FlowTypes DEF Room
<1>4. Timely(s) /\ tasks[s].at = "start" /\ PenAndWord
  BY DEF StartGame, At, FlowInv
<1>5. Becomes(s, "begin") /\ drew' = {} /\ UNCHANGED timers
  BY Entered, FlowTypes DEF StartGame
<1>. QED  BY <1>2, <1>3, <1>4, <1>5 DEF Timely, PenAndWord

LEMMA SelectWordDoes ==
    ASSUME IInv, Whole, FlowInv, NEW s \in Slots, SelectWord(s)
    PROVE  /\ UNCHANGED <<drew, turn>> /\ timers' \subseteq timers
           /\ \/ Finish(s) /\ UNCHANGED room
              \/ /\ Choosing /\ HasPen /\ room'.phase = "DRAWING" /\ room'.drawing = room.drawing
                 /\ room'.connected = room.connected /\ SameOrders
                 /\ Moves(s, "setWord")
<1>1. Timely(s) /\ tasks[s].at = "select" /\ UNCHANGED <<drew, turn>> /\ timers' \subseteq timers
  BY DEF SelectWord, At, FlowInv, Cleared
<1>2. CASE Finish(s) /\ UNCHANGED room
  BY <1>1, <1>2
<1>3. CASE /\ Choosing
           /\ room' = [room EXCEPT !.phase = "DRAWING"]
           /\ tasks' = [tasks EXCEPT ![s] = [@ EXCEPT !.at = "setWord", !.player = Nobody]]
  <2>1. PICK t : t = [tasks[s] EXCEPT !.at = "setWord", !.player = Nobody]
    OBVIOUS
  <2>2. t.at = "setWord"
    BY <2>1, FlowTypes DEF Task
  <2>3. tasks' = [tasks EXCEPT ![s] = t]
    BY <1>3, <2>1, FlowTypes DEF TasksOK
  <2>4. Moves(s, "setWord")
    BY <2>2, <2>3, ReplaceMoves, FlowTypes
  <2>5. /\ room'.phase = "DRAWING" /\ room'.drawing = room.drawing
        /\ room'.connected = room.connected /\ SameOrders
    BY <1>1, <1>3, FlowTypes DEF Room, SameOrders
  <2>6. HasPen
    BY <1>1, <1>3 DEF Timely, Choosing, Drawing, Over
  <2>. QED  BY <1>1, <1>3, <2>4, <2>5, <2>6
<1>. QED  BY <1>2, <1>3, NothingWritten DEF SelectWord, Choosing

LEMMA EndTurnDoes ==
    ASSUME IInv, Whole, FlowInv, NEW s \in Slots, EndTurn(s)
    PROVE  /\ UNCHANGED <<timers, drew>>
           /\ \/ Finish(s) /\ UNCHANGED room
              \/ /\ Drawing /\ HasPen /\ room'.phase = "ROUND_END" /\ room'.drawing = {}
                 /\ room'.connected = room.connected /\ SameOrders
                 /\ Moves(s, "turnEnded")
<1>1. tasks[s].at = "endTurn" /\ Timely(s) /\ UNCHANGED <<timers, drew>>
  BY DEF EndTurn, At, FlowInv
<1>2. CASE Finish(s) /\ UNCHANGED room
  BY <1>1, <1>2
<1>3. CASE ~(Finish(s) /\ UNCHANGED room)
  <2>1. /\ Drawing /\ Enter(s, "turnEnded")
        /\ room' = [room EXCEPT !.phase = "ROUND_END", !.drawing = @ \ {CurrentDrawer}]
    BY <1>1, <1>3, NothingWritten DEF EndTurn, Timely, Over, Drawing
  <2>2. HasPen
    BY <2>1 DEF FlowInv, PenAndWord
  <2>3. /\ room'.phase = "ROUND_END" /\ room'.drawing = {}
        /\ room'.connected = room.connected /\ SameOrders
    BY <1>1, <2>1, <2>2, FlowTypes DEF Room, HasPen, SameOrders
  <2>. QED  BY <1>1, <2>1, <2>2, <2>3, EnterMoves, FlowTypes
<1>. QED  BY <1>2, <1>3

\* The last but one turn of an order, the end of a round, or of the game.
LEMMA AdvanceDoes ==
    ASSUME IInv, OrderInv, NEW s \in Slots, AdvanceTurn(s)
    PROVE  /\ Counted /\ tasks[s].at = "advance"
           /\ room'.phase = room.phase /\ room'.drawing = room.drawing
           /\ room'.connected = room.connected /\ room'.exists = room.exists
           /\ timers' \subseteq timers
           /\ \/ /\ room'.drawOrder = room.drawOrder /\ room'.currentRound = room.currentRound
                 /\ drew' = drew /\ room'.turnPointer = room.turnPointer + 1
                 /\ Moves(s, "begin")
              \/ /\ All(room.drawOrder) \subseteq drew /\ room.currentRound + 1 <= Rounds
                 /\ room'.currentRound = room.currentRound + 1 /\ room'.turnPointer = 0
                 /\ drew' = {} /\ room'.drawOrder \in Seq(Players)
                 /\ All(room'.drawOrder) = room.connected
                 /\ Moves(s, "begin")
              \/ /\ All(room.drawOrder) \subseteq drew /\ room.currentRound + 1 > Rounds
                 /\ room'.currentRound = room.currentRound + 1
                 /\ room'.drawOrder = room.drawOrder /\ drew' = drew
                 /\ Moves(s, "endGame")
<1>1. Counted /\ tasks[s].at = "advance" /\ room.connected # {}
  BY DEF AdvanceTurn, At, OrderInv
<1>2. timers' \subseteq timers
  BY DEF AdvanceTurn, Cleared
<1>3. PICK n \in Nat : n = Len(room.drawOrder)
  BY OrderFields
<1>4. CASE room.turnPointer + 1 < n
  <2>1. room' = NextTurn /\ UNCHANGED drew
    BY <1>3, <1>4 DEF AdvanceTurn
  <2>2. /\ room'.phase = room.phase /\ room'.drawing = room.drawing
        /\ room'.connected = room.connected /\ room'.exists = room.exists
        /\ room'.drawOrder = room.drawOrder /\ room'.currentRound = room.currentRound
        /\ room'.turnPointer = room.turnPointer + 1
    BY <2>1, FlowTypes DEF NextTurn, Room
  <2>3. Enter(s, "begin")
    BY <1>1, <1>3, <1>4, <2>2, OrderFields DEF AdvanceTurn, Counted
  <2>. QED  BY <1>1, <1>2, <2>1, <2>2, <2>3, EnterMoves, FlowTypes
<1>5. CASE ~(room.turnPointer + 1 < n)
  <2>1. All(room.drawOrder) \subseteq drew
    BY <1>1, <1>3, <1>5, FirstOfOrder, OrderFields DEF Counted
  <2>2. CASE room.currentRound + 1 <= Rounds
    <3>1. PICK order \in Orders(room.connected) : room' = NextRound(order) /\ drew' = {}
      BY <1>3, <1>5, <2>2 DEF AdvanceTurn
    <3>2. PICK o : o = NotFirst(CurrentDrawer, order)
      OBVIOUS
    <3>3. /\ room'.phase = room.phase /\ room'.drawing = room.drawing
          /\ room'.connected = room.connected /\ room'.exists = room.exists
          /\ room'.drawOrder = o /\ room'.currentRound = room.currentRound + 1
          /\ room'.turnPointer = 0
      BY <3>1, <3>2, FlowTypes DEF NextRound, Room
    <3>4. order \in Seq(Players) /\ All(order) = room.connected
          /\ Len(order) = Cardinality(room.connected)
      BY OrderNames, OrderFields
    <3>5. All(o) = room.connected /\ Len(o) = Cardinality(room.connected)
      BY <3>2, <3>4, NotFirstNames
    <3>6. o \in Seq(Players)
      <4>1. SoundFor(order, room.connected)
        BY OrdersSound, OrderFields
      <4>2. SoundFor(o, room.connected)
        BY <3>2, <4>1, NotFirstSound, OrderFields
      <4>. QED  BY <4>2, OrderFields DEF SoundFor
    <3>7. Cardinality(room.connected) >= 1
      <4>1. IsFiniteSet(room.connected)
        BY OrderFields, FS_Subset, GameFlowAssumption
      <4>2. Cardinality(room.connected) \in Nat /\ Cardinality(room.connected) # 0
        BY <1>1, <4>1, FS_CardinalityType, FS_EmptySet
      <4>. QED  BY <4>2
    <3>8. Enter(s, "begin")
      <4>1. ~(room'.currentRound > Rounds)
        BY <2>2, <3>3, OrderFields
      <4>2. ~(Len(room'.drawOrder) < 1)
        BY <3>3, <3>5, <3>6, <3>7
      <4>. QED  BY <4>1, <4>2 DEF AdvanceTurn
    <3>. QED  BY <1>1, <1>2, <2>1, <2>2, <3>1, <3>3, <3>5, <3>6, <3>8, EnterMoves, FlowTypes
  <2>3. CASE ~(room.currentRound + 1 <= Rounds)
    <3>1. room' = LastRoundOver /\ UNCHANGED drew
      BY <1>3, <1>5, <2>3 DEF AdvanceTurn
    <3>2. /\ room'.phase = room.phase /\ room'.drawing = room.drawing
          /\ room'.connected = room.connected /\ room'.exists = room.exists
          /\ room'.drawOrder = room.drawOrder /\ room'.currentRound = room.currentRound + 1
      BY <3>1, FlowTypes DEF LastRoundOver, Room
    <3>3. Enter(s, "endGame")
      <4>1. room'.currentRound > Rounds
        BY <2>3, <3>2, OrderFields
      <4>. QED  BY <4>1 DEF AdvanceTurn
    <3>4. room.currentRound + 1 > Rounds
      BY <2>3, OrderFields
    <3>. QED  BY <1>1, <1>2, <2>1, <3>1, <3>2, <3>3, <3>4, EnterMoves, FlowTypes
  <2>. QED  BY <2>2, <2>3
<1>. QED  BY <1>4, <1>5

LEMMA EndGameWrites ==
    ASSUME IInv, NEW s \in Slots, EndGame(s)
    PROVE  /\ room'.phase = "GAME_END" /\ room'.drawing = {} /\ room'.connected = room.connected
           /\ SameOrders /\ UNCHANGED timers /\ Moves(s, "persist")
<1>1. /\ room'.phase = "GAME_END" /\ room'.drawing = {} /\ room'.connected = room.connected
      /\ SameOrders /\ UNCHANGED timers
  BY FlowTypes DEF EndGame, Room, SameOrders
<1>2. Becomes(s, "persist")
  BY EndGameDoes
<1>. QED  BY <1>1, <1>2 DEF Becomes, Keeps, Moves

LEMMA ResetDoes ==
    ASSUME IInv, NEW s \in Slots, ResetToLobby(s)
    PROVE  /\ room'.phase = "LOBBY" /\ room'.drawing = {} /\ room'.connected = room.connected
           /\ room'.drawOrder = << >> /\ room'.exists = room.exists /\ room'.currentRound = 0
           /\ UNCHANGED <<timers, drew>> /\ Moves(s, "idle")
<1>1. /\ room'.phase = "LOBBY" /\ room'.drawing = {} /\ room'.connected = room.connected
      /\ room'.drawOrder = << >> /\ room'.exists = room.exists /\ room'.currentRound = 0
      /\ UNCHANGED <<timers, drew>> /\ Finish(s)
  BY FlowTypes DEF ResetToLobby, Room
<1>. QED  BY <1>1, FinishMoves, FlowTypes

-----------------------------------------------------------------------------
LEMMA OrderInit == Init => OrderInv
<1>. SUFFICES ASSUME Init PROVE OrderInv
  OBVIOUS
<1>1. \A s \in Slots : tasks[s].at = "idle"
  BY DEF Init, NoTask
<1>2. /\ room.phase = "LOBBY" /\ room.drawing = {} /\ room.exists /\ room.connected # {}
      /\ room.drawOrder = << >> /\ timers = {}
  BY DEF Init
<1>. QED  BY <1>1, <1>2 DEF OrderInv

LEMMA StartGameOrders ==
    ASSUME IInv, FlowInv, OrderInv, NEW s \in Slots, StartGame(s)
    PROVE  OrderInv'
<1>1. drew' = First(room'.drawOrder, room'.turnPointer)
  BY StartGameDoes, OrderFields DEF First
<1>2. timers' = {} /\ \A x \in Slots \ {s} : tasks'[x].at = "idle"
  <2>1. tasks[s].at \in Solo
    BY DEF StartGame, At, Solo
  <2>. QED  BY <2>1, OnItsOwn, StartGameDoes DEF Becomes, Keeps, Idle
<1>3. room'.currentRound <= Rounds
  BY StartGameDoes, OrderFields
<1>. QED  BY <1>1, <1>2, <1>3, StartGameDoes DEF OrderInv, Becomes

LEMMA BeginTurnOrders ==
    ASSUME IInv, Whole, FlowInv, OrderInv, NEW s \in Slots, BeginTurn(s)
    PROVE  OrderInv' /\ room.drawing = {} /\ CurrentDrawer \in All(room.drawOrder) \ drew
<1>1. tasks[s].at = "begin" /\ tasks[s].at \in Solo /\ Timely(s) /\ UNCHANGED timers
  BY DEF BeginTurn, At, Solo, FlowInv
<1>2. drew = First(room.drawOrder, room.turnPointer) /\ room.currentRound <= Rounds
  BY <1>1 DEF OrderInv
<1>3. /\ room.turnPointer < Len(room.drawOrder)
      /\ CurrentDrawer = room.drawOrder[room.turnPointer + 1]
  BY DEF BeginTurn, CurrentDrawer
<1>4. Counted'
  BY <1>2, <1>3, BeginTurnDoes, FirstOfOrder, OrderFields DEF Counted
<1>5. timers' = {} /\ \A x \in Slots \ {s} : tasks'[x].at = "idle"
  BY <1>1, OnItsOwn, BeginTurnDoes DEF Becomes, Keeps, Idle
<1>6. room'.exists
  BY FlowTypes DEF BeginTurn, At, Unlocked, Room
<1>7. OrderInv'
  BY <1>4, <1>5, <1>6, BeginTurnDoes DEF OrderInv, Becomes
<1>8. CurrentDrawer \in All(room.drawOrder) \ drew
  <2>1. PICK n \in Nat : n = Len(room.drawOrder) /\ DOMAIN room.drawOrder = 1..n
    BY OrderFields
  <2>2. room.turnPointer + 1 \in 1..n
    BY <1>3, <2>1, OrderFields
  <2>3. \A i, j \in 1..n : room.drawOrder[i] = room.drawOrder[j] => i = j
    BY <2>1 DEF IInv, RoomOK, DrawOrderSound
  <2>4. ASSUME NEW i \in 1..n, i <= room.turnPointer
        PROVE  room.drawOrder[i] # room.drawOrder[room.turnPointer + 1]
    BY <2>2, <2>3, <2>4, OrderFields
  <2>. QED  BY <1>2, <1>3, <2>1, <2>2, <2>4 DEF All, First
<1>. QED  BY <1>1, <1>7, <1>8 DEF Timely

LEMMA SelectWordOrders ==
    ASSUME IInv, Whole, FlowInv, OrderInv, NEW s \in Slots, SelectWord(s)
    PROVE  OrderInv'
<1>1. CASE Finish(s) /\ UNCHANGED room
  BY <1>1, SelectWordDoes, FinishMoves, FlowTypes, OrderMoves DEF SameOrders
<1>2. CASE ~(Finish(s) /\ UNCHANGED room)
  BY <1>2, SelectWordDoes, OrderMoves
<1>. QED  BY <1>1, <1>2

LEMMA EndTurnOrders ==
    ASSUME IInv, Whole, FlowInv, OrderInv, NEW s \in Slots, EndTurn(s)
    PROVE  OrderInv'
<1>1. CASE Finish(s) /\ UNCHANGED room
  BY <1>1, EndTurnDoes, FinishMoves, FlowTypes, OrderMoves DEF SameOrders
<1>2. CASE ~(Finish(s) /\ UNCHANGED room)
  <2>1. Counted
    BY <1>2, EndTurnDoes DEF HasPen, OrderInv
  <2>2. Counted'
    BY <1>2, <2>1, EndTurnDoes DEF Counted, SameOrders
  <2>. QED  BY <1>2, <2>2, EndTurnDoes DEF OrderInv, Moves, SameOrders, Counted
<1>. QED  BY <1>1, <1>2

LEMMA TurnEndedOrders ==
    ASSUME IInv, OrderInv, NEW s \in Slots, TurnEnded(s)
    PROVE  OrderInv'
<1>1. Counted /\ UNCHANGED <<room, drew>>
  BY DEF TurnEnded, OrderInv
<1>2. Moves(s, "idle")
  BY SettingMoves, FlowTypes DEF TurnEnded
<1>. QED  BY <1>1, <1>2 DEF OrderInv, Counted, Moves

LEMMA PauseOrders ==
    ASSUME IInv, OrderInv, NEW t \in timers, RoundEndTimeout(t)
    PROVE  OrderInv'
<1>1. Counted /\ UNCHANGED <<room, drew>> /\ timers' \subseteq timers
  BY DEF RoundEndTimeout, OrderInv
<1>2. PICK s \in Slots : Moves(s, "advance")
  BY SpawnMoves, HandlerFields, FlowTypes DEF RoundEndTimeout
<1>. QED  BY <1>1, <1>2 DEF OrderInv, Counted, Moves

LEMMA AdvanceOrders ==
    ASSUME IInv, FlowInv, OrderInv, NEW s \in Slots, AdvanceTurn(s)
    PROVE  OrderInv'
<1>1. Over /\ room.drawing = {} /\ tasks[s].at \in Solo
  BY AdvanceDoes DEF FlowInv, Timely, PenAndWord, Over, Solo
<1>2. timers' = {} /\ \A x \in Slots \ {s} : tasks'[x].at = "idle"
  BY <1>1, OnItsOwn, AdvanceDoes DEF Moves, Idle
<1>3. /\ room'.phase = "ROUND_END" /\ room'.drawing = {}
      /\ room'.exists /\ room'.connected # {}
  BY <1>1, AdvanceDoes DEF OrderInv, Over
<1>4. CASE Moves(s, "begin") /\ room'.drawOrder = room.drawOrder
           /\ room'.currentRound = room.currentRound /\ drew' = drew
           /\ room'.turnPointer = room.turnPointer + 1
  BY <1>2, <1>3, <1>4, AdvanceDoes DEF OrderInv, Moves, Counted
<1>5. CASE Moves(s, "begin") /\ room.currentRound + 1 <= Rounds
           /\ room'.currentRound = room.currentRound + 1 /\ room'.turnPointer = 0
           /\ drew' = {} /\ room'.drawOrder \in Seq(Players)
  <2>1. drew' = First(room'.drawOrder, room'.turnPointer)
    BY <1>5, FirstOfOrder
  <2>. QED  BY <1>2, <1>3, <1>5, <2>1 DEF OrderInv, Moves
<1>6. CASE Moves(s, "endGame") /\ All(room.drawOrder) \subseteq drew
           /\ room.currentRound + 1 > Rounds /\ room'.currentRound = room.currentRound + 1
           /\ room'.drawOrder = room.drawOrder /\ drew' = drew
  <2>1. room'.currentRound >= Rounds /\ All(room'.drawOrder) \subseteq drew'
    BY <1>6, OrderFields
  <2>. QED  BY <1>2, <1>3, <1>6, <2>1 DEF OrderInv, Moves
<1>. QED  BY <1>4, <1>5, <1>6, AdvanceDoes

LEMMA EndGameOrders ==
    ASSUME IInv, FlowInv, OrderInv, NEW s \in Slots, EndGame(s)
    PROVE  OrderInv' /\ Over /\ room.currentRound >= Rounds /\ All(room.drawOrder) \subseteq drew
<1>1. tasks[s].at = "endGame" /\ tasks[s].at \in Solo /\ Timely(s)
  BY DEF EndGame, At, Solo, FlowInv
<1>2. All(room.drawOrder) \subseteq drew /\ room.currentRound >= Rounds
  BY <1>1 DEF OrderInv
<1>3. timers' = {} /\ \A x \in Slots : tasks'[x].at \in {"idle", "persist"}
  BY <1>1, OnItsOwn, EndGameWrites DEF Moves, Idle
<1>4. All(room'.drawOrder) \subseteq drew'
  BY <1>2, EndGameWrites DEF SameOrders
<1>. QED  BY <1>1, <1>2, <1>3, <1>4, EndGameWrites DEF OrderInv, SameOrders, Timely

LEMMA ResetOrders ==
    ASSUME IInv, FlowInv, OrderInv, NEW s \in Slots, ResetToLobby(s)
    PROVE  OrderInv' /\ room.phase = "GAME_END" /\ All(room.drawOrder) \subseteq drew
<1>1. tasks[s].at \in Solo /\ Timely(s) /\ tasks[s].at = "reset"
  BY DEF ResetToLobby, At, Solo, FlowInv
<1>2. timers' = {} /\ \A x \in Slots : tasks'[x].at = "idle"
  BY <1>1, OnItsOwn, ResetDoes DEF Moves, Idle
<1>3. room.phase = "GAME_END"
  BY <1>1 DEF Timely
<1>. QED  BY <1>2, <1>3, ResetDoes DEF OrderInv

-----------------------------------------------------------------------------
\* Steps that neither the order nor the rules are about.
Unseen == /\ SameOrders /\ room'.connected = room.connected
          /\ room'.phase = room.phase /\ room'.drawing = room.drawing

LEMMA UnseenStutters == ASSUME Unseen PROVE UNCHANGED Documented!vars
BY DEF Unseen, SameOrders, Documented!vars

LEMMA UnseenOrders ==
    ASSUME OrderInv, Unseen, \A t \in timers' : t.kind = "roundEnd" => t \in timers,
           NEW s \in Slots, NEW label, label \notin {"turnEnded", "advance", "begin", "endGame"},
           Moves(s, label)
    PROVE  OrderInv'
BY OrderMoves DEF Unseen

LEMMA UnseenSteps ==
    ASSUME OneCalmNode, IInv, Whole, FlowInv, OrderInv,
           \/ UNCHANGED vars
           \/ \E n \in Nodes : RequestStart(n) \/ Crash(n)
           \/ \E n \in Nodes, p \in Players : ChooseWord(n, p) \/ Guess(n, p)
           \/ \E t \in timers : SelectTimeout(t) \/ DrawTimeout(t) \/ GameEndTimeout(t) \/ HintTick(t)
           \/ \E s \in Slots : \/ NoRoom(s) \/ BeginNothing(s) \/ Deal(s) \/ SetWord(s) \/ Arm(s)
                               \/ \E last \in BOOLEAN : RevealHint(s, last)
                               \/ CreditGuess(s) \/ SaveScores(s) \/ SaveStats(s)
                               \/ PersistFails(s) \/ HandlerFails(s)
    PROVE  OrderInv' /\ UNCHANGED Documented!vars
<1>1. ASSUME UNCHANGED <<room, drew>>, timers' \subseteq timers,
             \A x \in Slots : tasks'[x].at \in {tasks[x].at, "idle"}
      PROVE  OrderInv' /\ UNCHANGED Documented!vars
  <2>1. SameOrders /\ Unseen
    BY <1>1 DEF SameOrders, Unseen
  <2>2. OrderInv'
    BY <1>1, <2>1, OrderStays DEF OrderInv
  <2>. QED  BY <2>1, <2>2, UnseenStutters
<1>2. ASSUME UNCHANGED <<room, drew>>, timers' \subseteq timers, NEW t, Spawn(t),
             t.at \notin {"turnEnded", "advance", "begin", "endGame"}
      PROVE  OrderInv' /\ UNCHANGED Documented!vars
  <2>1. Unseen
    BY <1>2 DEF SameOrders, Unseen
  <2>. QED  BY <1>2, <2>1, OrderSpawns, UnseenStutters
<1>3. ASSUME NEW s \in Slots, Unseen, \A t \in timers' : t.kind = "roundEnd" => t \in timers,
             NEW label, label \notin {"turnEnded", "advance", "begin", "endGame"}, Moves(s, label)
      PROVE  OrderInv' /\ UNCHANGED Documented!vars
  BY <1>3, UnseenOrders, UnseenStutters
<1>4. CASE UNCHANGED vars
  BY <1>1, <1>4 DEF vars
<1>5. ASSUME NEW n \in Nodes, RequestStart(n) PROVE OrderInv' /\ UNCHANGED Documented!vars
  <2>1. PICK h : h = [Handler(n, "start") EXCEPT !.gameId = db.games + 1]
    OBVIOUS
  <2>2. h.at = "start"
    BY <2>1 DEF Handler, NoTask
  <2>. QED  BY <1>2, <1>5, <2>1, <2>2 DEF RequestStart
<1>6. ASSUME NEW n \in Nodes, Crash(n) PROVE OrderInv' /\ UNCHANGED Documented!vars
  <2>1. NoTask.at = "idle"
    BY DEF NoTask
  <2>2. holder \notin Slots
    BY GameFlowAssumption DEF Whole, Slots
  <2>. QED  BY <1>1, <1>6, <2>1, <2>2 DEF Crash
<1>7. ASSUME NEW n \in Nodes, NEW p \in Players, ChooseWord(n, p)
      PROVE  OrderInv' /\ UNCHANGED Documented!vars
  <2>1. PICK h : h = [Handler(n, "select") EXCEPT !.player = p, !.turn = secret.turn]
    OBVIOUS
  <2>2. h.at = "select"
    BY <2>1 DEF Handler, NoTask
  <2>. QED  BY <1>2, <1>7, <2>1, <2>2 DEF ChooseWord, ReadChoices
<1>8. ASSUME NEW n \in Nodes, NEW p \in Players, Guess(n, p)
      PROVE  OrderInv' /\ UNCHANGED Documented!vars
  <2>1. PICK h : h = [Handler(n, "guess") EXCEPT !.player = p, !.turn = secret.turn,
                                                 !.drawer = CurrentDrawer]
    OBVIOUS
  <2>2. h.at = "guess"
    BY <2>1 DEF Handler, NoTask
  <2>. QED  BY <1>2, <1>8, <2>1, <2>2 DEF Guess
<1>9. ASSUME NEW t \in timers, SelectTimeout(t) PROVE OrderInv' /\ UNCHANGED Documented!vars
  <2>1. CASE UNCHANGED tasks
    BY <1>1, <1>9, <2>1 DEF SelectTimeout
  <2>2. CASE ~UNCHANGED tasks
    <3>1. PICK h : h = [Handler(t.node, "select") EXCEPT !.player = t.drawer, !.turn = secret.turn]
      OBVIOUS
    <3>2. h.at = "select"
      BY <3>1 DEF Handler, NoTask
    <3>. QED  BY <1>2, <1>9, <2>2, <3>1, <3>2 DEF SelectTimeout, ReadChoices
  <2>. QED  BY <2>1, <2>2
<1>10. ASSUME NEW t \in timers, HintTick(t) PROVE OrderInv' /\ UNCHANGED Documented!vars
  <2>1. PICK h : h = [Handler(t.node, "hint") EXCEPT !.turn = secret.turn, !.chosen = secret.chosen]
    OBVIOUS
  <2>2. h.at = "hint"
    BY <2>1 DEF Handler, NoTask
  <2>. QED  BY <1>2, <1>10, <2>1, <2>2 DEF HintTick
<1>11. ASSUME NEW t \in timers, DrawTimeout(t) \/ GameEndTimeout(t)
       PROVE  OrderInv' /\ UNCHANGED Documented!vars
  BY <1>2, <1>11, HandlerFields DEF DrawTimeout, GameEndTimeout, Cleared
<1>12. ASSUME NEW s \in Slots, NoRoom(s) \/ BeginNothing(s) \/ HandlerFails(s)
       PROVE  OrderInv' /\ UNCHANGED Documented!vars
  <2>1. Moves(s, "idle")
    BY <1>12, FinishMoves, FlowTypes DEF NoRoom, BeginNothing, HandlerFails
  <2>2. UNCHANGED <<room, drew, timers>>
    BY <1>12, NothingWritten DEF NoRoom, BeginNothing, HandlerFails
  <2>. QED  BY <1>1, <2>1, <2>2 DEF Moves
<1>13. ASSUME NEW s \in Slots, NEW last \in BOOLEAN, RevealHint(s, last)
       PROVE  OrderInv' /\ UNCHANGED Documented!vars
  BY <1>1, <1>13, FinishMoves, FlowTypes DEF RevealHint, Cleared, Moves
<1>14. ASSUME NEW s \in Slots, Deal(s) \/ Arm(s) PROVE OrderInv' /\ UNCHANGED Documented!vars
  <2>1. Moves(s, "idle")
    BY <1>14, SettingMoves, FlowTypes DEF Deal, Arm
  <2>2. \A t \in timers' : t.kind = "roundEnd" => t \in timers
    BY <1>14 DEF Deal, Arm, Armed, Cleared
  <2>. QED  BY <1>3, <1>14, <2>1, <2>2 DEF Deal, Arm, Unseen, SameOrders
<1>15. ASSUME NEW s \in Slots, SetWord(s) PROVE OrderInv' /\ UNCHANGED Documented!vars
  BY <1>3, <1>15, GotoMoves, FlowTypes DEF SetWord, Unseen, SameOrders
<1>16. ASSUME NEW s \in Slots, CreditGuess(s) PROVE OrderInv' /\ UNCHANGED Documented!vars
  <2>1. Unseen
    BY <1>16, NothingWritten, FlowTypes DEF CreditGuess, Unseen, SameOrders, Room
  <2>2. \E label \in {"idle", "endTurn"} : Moves(s, label)
    BY <1>16, FinishMoves, EnterMoves, FlowTypes DEF CreditGuess
  <2>3. timers' \subseteq timers
    BY <1>16 DEF CreditGuess, Cleared
  <2>. QED  BY <1>3, <2>1, <2>2, <2>3
<1>17. ASSUME NEW s \in Slots, SaveScores(s) \/ SaveStats(s) \/ PersistFails(s)
       PROVE  OrderInv' /\ UNCHANGED Documented!vars
  <2>1. Unseen
    BY <1>17 DEF SaveScores, SaveStats, PersistFails, Unseen, SameOrders
  <2>2. \E label \in {"idle", "stats"} : Moves(s, label)
    BY <1>17, SettingMoves, GotoMoves, FlowTypes DEF SaveScores, SaveStats, PersistFails, ShowResults
  <2>3. \A t \in timers' : t.kind = "roundEnd" => t \in timers
    BY <1>17 DEF SaveScores, SaveStats, PersistFails, ShowResults, Armed, Cleared
  <2>. QED  BY <1>3, <2>1, <2>2, <2>3
<1>. QED  BY <1>4, <1>5, <1>6, <1>7, <1>8, <1>9, <1>10, <1>11, <1>12, <1>13, <1>14, <1>15, <1>16, <1>17

-----------------------------------------------------------------------------
\* A start in flight finds two players: nobody disconnects who would be missed.
Paired == \A x \in Slots : tasks[x].at = "start" => Cardinality(room.connected) >= 2

LEMMA PairedInit == Init => Paired
BY DEF Init, Paired, NoTask

LEMMA ConnectedStay ==
    ASSUME ~Leaves, IInv, Whole, Next
    PROVE  room'.connected = room.connected \/ \E p \in Players : Join(p) \/ Disconnect(p)
<1>. USE FlowTypes, NothingWritten DEF Room
<1>1. ASSUME NEW s \in Slots, Resume(s) PROVE room'.connected = room.connected
  <2>1. ~Delete(s)
    BY DEF Delete, Whole, Departing
  <2>2. CASE \/ NoRoom(s) \/ PlayerGone(s) \/ BeginNothing(s) \/ Deal(s) \/ SetWord(s) \/ Arm(s)
             \/ TurnEnded(s) \/ SaveScores(s) \/ SaveStats(s)
             \/ \E last \in BOOLEAN : RevealHint(s, last)
    BY <2>2 DEF NoRoom, PlayerGone, BeginNothing, Deal, SetWord, Arm, RevealHint, TurnEnded,
                SaveScores, SaveStats
  <2>3. CASE SelectWord(s) \/ CreditGuess(s) \/ EndTurn(s)
    BY <2>3 DEF SelectWord, CreditGuess, EndTurn
  <2>4. CASE StartGame(s) \/ BeginTurn(s) \/ EndGame(s) \/ ResetToLobby(s)
    BY <2>4 DEF StartGame, BeginTurn, EndGame, ResetToLobby
  <2>5. CASE AdvanceTurn(s)
    BY <2>5 DEF AdvanceTurn, NextTurn, NextRound, LastRoundOver
  <2>. QED  BY <1>1, <2>1, <2>2, <2>3, <2>4, <2>5 DEF Resume
<1>2. ASSUME NEW s \in Slots, PersistFails(s) \/ HandlerFails(s) PROVE UNCHANGED room
  BY <1>2 DEF PersistFails, HandlerFails
<1>3. ASSUME NEW t \in timers, Timeout(t) \/ HintTick(t) PROVE UNCHANGED room
  BY <1>3 DEF Timeout, SelectTimeout, DrawTimeout, RoundEndTimeout, GameEndTimeout, HintTick
<1>4. 0 \notin Slots /\ Others # 0
  BY GameFlowAssumption DEF Slots, Others
<1>5. ASSUME NEW n \in Nodes, RequestStart(n) \/ Crash(n) PROVE UNCHANGED room
  BY <1>4, <1>5 DEF RequestStart, Crash, Whole
<1>6. ASSUME NEW n \in Nodes, NEW p \in Players,
             Leave(n, p) \/ Kick(n, p) \/ ChooseWord(n, p) \/ Guess(n, p)
      PROVE  UNCHANGED room
  BY <1>6 DEF Leave, Kick, Remove, ChooseWord, Guess
<1>7. ~OtherMutation
  BY <1>4 DEF OtherMutation, Whole
<1>. QED  BY <1>1, <1>2, <1>3, <1>5, <1>6, <1>7 DEF Next

LEMMA PairedStep ==
    ASSUME ~Leaves, ~Lone, IInv, Whole, Paired, [Next]_vars
    PROVE  Paired'
<1>1. CASE UNCHANGED vars
  BY <1>1 DEF Paired, vars
<1>2. CASE Next
  <2>1. ASSUME NEW x \in Slots, tasks'[x].at = "start"
        PROVE  tasks[x].at = "start" \/ Cardinality(room.connected) >= 2
    <3>1. CASE Follows(x)
      BY <2>1, <3>1 DEF Follows
    <3>2. ASSUME NEW s \in Slots, SaveScores(s), tasks'[s].at = "stats"
          PROVE  tasks[x].at = "start"
      BY <2>1, <3>2, ScoresStep
    <3>. QED  BY <1>2, <3>1, <3>2, OtherSteps, RefusedFollows, StatsStep DEF Unscored
  <2>2. IsFiniteSet(room.connected) /\ Cardinality(room.connected) \in Nat
    BY FlowTypes, FS_Subset, FS_CardinalityType, GameFlowAssumption DEF Room
  <2>3. CASE room'.connected = room.connected
    BY <2>1, <2>3 DEF Paired
  <2>4. ASSUME NEW p \in Players, Join(p) PROVE Paired'
    <3>1. room'.connected = room.connected \cup {p} /\ UNCHANGED tasks /\ p \notin room.connected
      BY <2>4, FlowTypes DEF Join, Room
    <3>2. Cardinality(room'.connected) = Cardinality(room.connected) + 1
      BY <2>2, <3>1, FS_AddElement
    <3>. QED  BY <2>2, <3>1, <3>2 DEF Paired
  <2>5. ASSUME NEW p \in Players, Disconnect(p) PROVE Paired'
    <3>1. room'.connected = room.connected \ {p} /\ UNCHANGED tasks /\ p \in room.connected
      BY <2>5, FlowTypes DEF Disconnect, Room
    <3>2. Cardinality(room'.connected) = Cardinality(room.connected) - 1
      BY <2>2, <3>1, FS_RemoveElement
    <3>3. Starting = {} \/ Cardinality(room.connected) > 2
      BY <2>5 DEF Disconnect
    <3>. QED  BY <2>2, <3>1, <3>2, <3>3 DEF Paired, Starting
  <2>. QED  BY <1>2, <2>3, <2>4, <2>5, ConnectedStay
<1>. QED  BY <1>1, <1>2

-----------------------------------------------------------------------------
\* Every other step is one of the rules, or nothing that they speak of.
LEMMA PresenceFollows ==
    ASSUME IInv, OrderInv, ~Deserts, NEW p \in Players, Join(p) \/ Disconnect(p)
    PROVE  OrderInv' /\ Documented!Presence
<1>1. /\ SameOrders /\ room'.phase = room.phase /\ room'.drawing = room.drawing
      /\ room'.connected \in SUBSET Players /\ room'.connected # {} /\ UNCHANGED <<timers, tasks>>
  <2>1. CASE Join(p)
    <3>1. room'.connected = room.connected \cup {p} /\ room'.exists = room.exists
      BY <2>1, FlowTypes DEF Join, Room
    <3>2. /\ room'.phase = room.phase /\ room'.drawing = room.drawing
          /\ room'.drawOrder = room.drawOrder /\ room'.turnPointer = room.turnPointer
          /\ room'.currentRound = room.currentRound /\ UNCHANGED <<timers, tasks, drew>>
      BY <2>1, FlowTypes DEF Join, Room
    <3>. QED  BY <3>1, <3>2, OrderFields DEF SameOrders
  <2>2. CASE Disconnect(p)
    <3>1. room'.connected = room.connected \ {p} /\ room'.exists = room.exists
      BY <2>2, FlowTypes DEF Disconnect, Room
    <3>2. /\ room'.phase = room.phase /\ room'.drawing = room.drawing
          /\ room'.drawOrder = room.drawOrder /\ room'.turnPointer = room.turnPointer
          /\ room'.currentRound = room.currentRound /\ UNCHANGED <<timers, tasks, drew>>
      BY <2>2, FlowTypes DEF Disconnect, Room
    <3>3. room.connected # {p} /\ room.connected # {}
      BY <2>2 DEF Disconnect
    <3>. QED  BY <3>1, <3>2, <3>3, OrderFields DEF SameOrders
  <2>. QED  BY <2>1, <2>2
<1>2. OrderInv'
  BY <1>1, OrderStays
<1>. QED  BY <1>1, <1>2 DEF Documented!Presence, SameOrders

LEMMA StartGameFollows ==
    ASSUME IInv, FlowInv, OrderInv, Paired, NEW s \in Slots, StartGame(s)
    PROVE  Documented!Start
<1>1. /\ room.phase = "LOBBY" /\ room.drawing = {} /\ room'.phase = "WORD_SELECTION"
      /\ room'.drawing = {} /\ room'.connected = room.connected /\ room'.currentRound = 1
      /\ All(room'.drawOrder) = room.connected /\ drew' = {}
  BY StartGameDoes
<1>2. All(room'.drawOrder) \ drew' = room.connected
  BY <1>1
<1>3. Cardinality(room.connected) >= 2
  <2>1. tasks[s].at = "start"
    BY DEF StartGame, At
  <2>. QED  BY <2>1 DEF Paired
<1>4. \E p, q \in room.connected : p # q
  <2>1. room.connected # {}
    BY <1>3, FS_EmptySet
  <2>2. PICK p \in room.connected : TRUE
    BY <2>1
  <2>3. Cardinality({p}) = 1
    BY FS_Singleton
  <2>4. room.connected # {p}
    BY <1>3, <2>3
  <2>. QED  BY <2>2, <2>4
<1>. QED  BY <1>1, <1>2, <1>4, OrderFields DEF Documented!Start, All

LEMMA BeginTurnFollows ==
    ASSUME IInv, Whole, FlowInv, OrderInv, NEW s \in Slots, BeginTurn(s)
    PROVE  Documented!TurnBegins
<1>1. /\ room'.phase = "WORD_SELECTION" /\ room'.drawing = {CurrentDrawer}
      /\ room'.drawOrder = room.drawOrder /\ room'.connected = room.connected
      /\ room'.currentRound = room.currentRound /\ drew' = drew \cup {CurrentDrawer}
  BY BeginTurnDoes
<1>2. room.drawing = {} /\ CurrentDrawer \in All(room.drawOrder) \ drew
  BY BeginTurnOrders
<1>3. room.phase \in {"WORD_SELECTION", "ROUND_END"}
  BY DEF BeginTurn, At, FlowInv, Timely, Choosing, Over
<1>4. All(room'.drawOrder) \ drew' = (All(room.drawOrder) \ drew) \ {CurrentDrawer}
  BY <1>1
<1>. QED  BY <1>1, <1>2, <1>3, <1>4 DEF Documented!TurnBegins, All

LEMMA SelectWordFollows ==
    ASSUME IInv, Whole, FlowInv, OrderInv, NEW s \in Slots, SelectWord(s)
    PROVE  [Documented!WordChosen]_(Documented!vars)
<1>1. CASE Finish(s) /\ UNCHANGED room
  BY <1>1, SelectWordDoes DEF Documented!vars
<1>2. CASE ~(Finish(s) /\ UNCHANGED room)
  <2>1. room.drawing # {}
    BY <1>2, SelectWordDoes DEF HasPen
  <2>. QED  BY <1>2, <2>1, SelectWordDoes DEF Documented!WordChosen, SameOrders, Choosing
<1>. QED  BY <1>1, <1>2

LEMMA EndTurnFollows ==
    ASSUME IInv, Whole, FlowInv, OrderInv, NEW s \in Slots, EndTurn(s)
    PROVE  [Documented!TurnEnds]_(Documented!vars)
<1>1. CASE Finish(s) /\ UNCHANGED room
  BY <1>1, EndTurnDoes DEF Documented!vars
<1>2. CASE ~(Finish(s) /\ UNCHANGED room)
  BY <1>2, EndTurnDoes DEF Documented!TurnEnds, SameOrders, Drawing
<1>. QED  BY <1>1, <1>2

LEMMA AdvanceFollows ==
    ASSUME IInv, FlowInv, OrderInv, NEW s \in Slots, AdvanceTurn(s)
    PROVE  [Documented!RoundEnds]_(Documented!vars)
<1>1. room.phase = "ROUND_END"
  BY AdvanceDoes DEF FlowInv, Timely, Over
<1>2. CASE /\ room'.drawOrder = room.drawOrder /\ room'.currentRound = room.currentRound
           /\ drew' = drew
  BY <1>2, AdvanceDoes DEF Documented!vars
<1>3. CASE /\ All(room.drawOrder) \subseteq drew /\ room.currentRound + 1 <= Rounds
           /\ room'.currentRound = room.currentRound + 1
           /\ drew' = {} /\ All(room'.drawOrder) = room.connected
  <2>1. All(room.drawOrder) \ drew = {} /\ All(room'.drawOrder) \ drew' = room.connected
    BY <1>3
  <2>2. room.currentRound < Rounds /\ room.currentRound <= Rounds /\ room'.currentRound <= Rounds
    BY <1>3, OrderFields
  <2>. QED  BY <1>1, <1>3, <2>1, <2>2, AdvanceDoes DEF Documented!RoundEnds, All
<1>4. CASE /\ room.currentRound + 1 > Rounds /\ room'.currentRound = room.currentRound + 1
           /\ room'.drawOrder = room.drawOrder /\ drew' = drew
  <2>1. room.currentRound <= Rounds
    BY AdvanceDoes DEF Counted
  <2>2. room.currentRound = Rounds /\ ~(room'.currentRound <= Rounds)
    BY <1>4, <2>1, OrderFields
  <2>. QED  BY <1>4, <2>2, AdvanceDoes DEF Documented!vars
<1>. QED  BY <1>2, <1>3, <1>4, AdvanceDoes

LEMMA EndGameFollows ==
    ASSUME IInv, FlowInv, OrderInv, NEW s \in Slots, EndGame(s)
    PROVE  Documented!GameEnds
<1>1. /\ room.phase = "ROUND_END" /\ room.drawing = {} /\ room.currentRound >= Rounds
      /\ All(room.drawOrder) \ drew = {}
  BY EndGameOrders DEF Over, FlowInv, PenAndWord
<1>2. (IF room.currentRound <= Rounds THEN room.currentRound ELSE Rounds) = Rounds
  BY <1>1, OrderFields
<1>. QED  BY <1>1, <1>2, EndGameWrites DEF Documented!GameEnds, SameOrders, All

LEMMA ResetFollows ==
    ASSUME IInv, FlowInv, OrderInv, NEW s \in Slots, ResetToLobby(s)
    PROVE  Documented!BackToLobby
<1>1. /\ room.phase = "GAME_END" /\ room.drawing = {} /\ All(room.drawOrder) \ drew = {}
  BY ResetOrders DEF FlowInv, PenAndWord
<1>2. All(room'.drawOrder) \ drew' = {}
  BY ResetDoes DEF All
<1>. QED  BY <1>1, <1>2, ResetDoes, OrderFields DEF Documented!BackToLobby, All

-----------------------------------------------------------------------------
LEMMA RulesInit == Init => Documented!Init
<1>. SUFFICES ASSUME Init PROVE Documented!Init
  OBVIOUS
<1>1. PICK host \in Players :
        room = [exists |-> TRUE, phase |-> "LOBBY", players |-> {host},
                connected |-> {host}, drawOrder |-> << >>, turnPointer |-> 0,
                currentRound |-> 0, drawing |-> {}, guessed |-> {}, gameId |-> 0]
  BY DEF Init
<1>2. /\ room.phase = "LOBBY" /\ room.connected \subseteq Players /\ room.currentRound = 0
      /\ room.drawing = {} /\ room.drawOrder = << >>
  BY <1>1
<1>3. drew = {}
  BY DEF Init
<1>4. {room.drawOrder[i] : i \in DOMAIN room.drawOrder} \ drew = {}
  BY <1>2
<1>. QED  BY <1>2, <1>4, GameFlowAssumption DEF Documented!Init

\* Each step is the rule its lemma names, or one the rules do not speak of.
LEMMA RulesStep ==
    OneCalmNode /\ ~Deserts /\ IInv /\ Whole /\ FlowInv /\ OrderInv /\ Paired /\ [Next]_vars
      => OrderInv' /\ [Documented!Next]_(Documented!vars)
<1>. SUFFICES ASSUME OneCalmNode, ~Deserts, IInv, Whole, FlowInv, OrderInv, Paired, [Next]_vars
              PROVE  OrderInv' /\ [Documented!Next]_(Documented!vars)
  OBVIOUS
<1>. USE DEF Documented!Next
<1>1. CASE UNCHANGED vars
  BY <1>1, UnseenSteps
<1>2. ASSUME NEW p \in Players, Join(p) \/ Disconnect(p)
      PROVE  OrderInv' /\ [Documented!Next]_(Documented!vars)
  BY <1>2, PresenceFollows
<1>3. ASSUME NEW n \in Nodes, RequestStart(n) \/ Crash(n)
      PROVE  OrderInv' /\ [Documented!Next]_(Documented!vars)
  BY <1>3, UnseenSteps
<1>4. ASSUME NEW n \in Nodes, NEW p \in Players,
             Leave(n, p) \/ Kick(n, p) \/ ChooseWord(n, p) \/ Guess(n, p)
      PROVE  OrderInv' /\ [Documented!Next]_(Documented!vars)
  BY <1>4, UnseenSteps DEF Leave, Kick, Remove, OneCalmNode
<1>5. ASSUME NEW t \in timers, Timeout(t) \/ HintTick(t)
      PROVE  OrderInv' /\ [Documented!Next]_(Documented!vars)
  <2>1. CASE RoundEndTimeout(t)
    <3>1. UNCHANGED Documented!vars
      BY <2>1 DEF RoundEndTimeout, Documented!vars
    <3>. QED  BY <2>1, <3>1, PauseOrders
  <2>2. CASE ~RoundEndTimeout(t)
    BY <1>5, <2>2, UnseenSteps DEF Timeout
  <2>. QED  BY <2>1, <2>2
<1>6. ASSUME NEW s \in Slots, PersistFails(s) \/ HandlerFails(s)
      PROVE  OrderInv' /\ [Documented!Next]_(Documented!vars)
  BY <1>6, UnseenSteps
<1>7. ASSUME NEW s \in Slots, Resume(s)
      PROVE  OrderInv' /\ [Documented!Next]_(Documented!vars)
  <2>1. ~PlayerGone(s) /\ ~Delete(s)
    BY DEF PlayerGone, Delete, FlowInv, Timely
  <2>2. CASE NoRoom(s) \/ BeginNothing(s) \/ Deal(s) \/ SetWord(s) \/ Arm(s) \/ CreditGuess(s)
             \/ SaveScores(s) \/ SaveStats(s) \/ \E last \in BOOLEAN : RevealHint(s, last)
    BY <2>2, UnseenSteps
  <2>3. CASE StartGame(s)
    BY <2>3, StartGameOrders, StartGameFollows
  <2>4. CASE BeginTurn(s)
    BY <2>4, BeginTurnOrders, BeginTurnFollows
  <2>5. CASE SelectWord(s)
    BY <2>5, SelectWordOrders, SelectWordFollows
  <2>6. CASE EndTurn(s)
    BY <2>6, EndTurnOrders, EndTurnFollows
  <2>7. CASE TurnEnded(s)
    <3>1. UNCHANGED Documented!vars
      BY <2>7 DEF TurnEnded, Documented!vars
    <3>. QED  BY <2>7, <3>1, TurnEndedOrders
  <2>8. CASE AdvanceTurn(s)
    BY <2>8, AdvanceOrders, AdvanceFollows
  <2>9. CASE EndGame(s)
    BY <2>9, EndGameOrders, EndGameFollows
  <2>10. CASE ResetToLobby(s)
    BY <2>10, ResetOrders, ResetFollows
  <2>. QED  BY <1>7, <2>1, <2>2, <2>3, <2>4, <2>5, <2>6, <2>7, <2>8, <2>9, <2>10 DEF Resume
<1>8. ~OtherMutation
  BY GameFlowAssumption DEF Whole, OtherMutation, Others
<1>. QED  BY <1>1, <1>2, <1>3, <1>4, <1>5, <1>6, <1>7, <1>8 DEF Next

\* While nobody is removed, somebody stays connected and no start in flight is left with
\* one connected player, what one node does are the documented rules, whatever the
\* interleaving and whether or not handlers fail and the node restarts: a game starts with
\* two players, everybody named in the order draws once a round, rounds follow each other up
\* to the last, and the game ends then and not before (ARCHITECTURE.md:64-89 and 251,
\* game.service.ts:64-67, 94-132, 180-197, 345-362, 386-476).
THEOREM RulesAreFollowed ==
    ASSUME OneCalmNode, ~Deserts, ~Lone
    PROVE  Spec => FollowsTheRules
<1>1. Init => IInv /\ Whole /\ FlowInv /\ OrderInv /\ Paired /\ Documented!Init
  BY InitInv, InitWhole, FlowInit, OrderInit, PairedInit, RulesInit
<1>2. IInv /\ Whole /\ FlowInv /\ OrderInv /\ Paired /\ [Next]_vars
        => /\ IInv' /\ Whole' /\ FlowInv' /\ OrderInv' /\ Paired'
           /\ [Documented!Next]_(Documented!vars)
  BY StepInv, WholeStep, FlowStep, PairedStep, RulesStep DEF OneCalmNode
<1>. QED  BY <1>1, <1>2, PTL DEF Spec, FollowsTheRules, Documented!Spec
=============================================================================
