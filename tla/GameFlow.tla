------------------------------ MODULE GameFlow ------------------------------
(***************************************************************************)
(* The game of one room: GameService (apps/backend/src/game/               *)
(* game.service.ts) with the player arrivals and departures that           *)
(* RoomService and GameGateway feed it, on one or more backend nodes.      *)
(*                                                                         *)
(* A handler is an async function; it runs from one await to the next      *)
(* without interruption, and other handlers run in between.  A handler in  *)
(* flight is a task: a slot of `tasks` whose label says where it resumes.  *)
(* One action is one stretch between two awaits: the Redis command it      *)
(* awaited and the code that follows up to the next one.  RoomStore.mutate *)
(* is one such command, at its write (RoomLock), but for deleteRoom, which *)
(* takes no lock and may fall between its read and its write: `holder` is  *)
(* then the mutate() in flight that will write the deleted record again.   *)
(*                                                                         *)
(* Words, scores and texts are left out; a turn's word is represented by   *)
(* the number of the turn it was dealt in.  Who is host, the code and the  *)
(* public list are left to Membership and RoomDirectory.                   *)
(***************************************************************************)
EXTENDS PlayerOrder, FiniteSets

CONSTANTS Players,   \* identities that may be in the room
          Nobody,    \* undefined, in place of a player
          Nodes,     \* backend processes
          MaxTasks,  \* bound: handlers in flight at once
          MaxGames,  \* bound: games started in the room's life
          MaxStarts, \* bound: game:start requests in flight at once
          MaxDepartures, \* bound: disconnections, leaves and kicks in all
          Rounds,    \* settings.rounds
          Hints,     \* settings.hintsEnabled
          Deserts,   \* may the last connected player disconnect?
          Lone,      \* may a start in flight be left with fewer than two connected?
          Leaves,    \* may players leave, be kicked, or lose their slot?
          Failures,  \* may a handler die of an error ('Room is busy', Redis)?
          Crashes,   \* may a node crash and restart?
          Prompt     \* do handlers finish before timers set meanwhile fire?

ASSUME GameFlowAssumption ==
    /\ IsFiniteSet(Players)
    /\ Nobody \notin Players
    /\ MaxTasks \in Nat /\ MaxGames \in Nat /\ MaxStarts \in Nat
    /\ MaxDepartures \in Nat
    /\ Rounds \in Nat \ {0}
    /\ {Hints, Deserts, Lone, Leaves, Failures, Crashes, Prompt} \subseteq BOOLEAN

Slots == 1..MaxTasks

\* The one that another request holds: a join, a departure, setReady and the like.
Others == MaxTasks + 1

VARIABLES room,    \* the LiveRoom record in Redis, or as its holder has read it
          holder,  \* the mutate() in flight that outlives the deletion; 0: none
          emptied, \* history: has the room been without players under this order?
          secret,  \* the turn secret in Redis, a key of its own
          timers,  \* GameTimers of every node
          tasks,   \* the handlers in flight
          db,      \* the rows of PostgreSQL that outlive the room
          turn,    \* history: how many turns have been dealt
          drew,    \* history: who has been dealt a turn in this round
          departures \* history: how many disconnections, leaves and kicks

record == <<room, holder, emptied>>
vars == <<record, secret, timers, tasks, db, turn, drew, departures>>

-----------------------------------------------------------------------------
(***************************************************************************)
(* Data.                                                                   *)
(***************************************************************************)
Phases == {"LOBBY", "WORD_SELECTION", "DRAWING", "ROUND_END", "GAME_END"}
TimerKinds == {"select", "draw", "hint", "roundEnd", "gameEnd"}
Labels == {"idle", "start", "begin", "deal", "select", "setWord", "arm", "guess",
           "hint", "endTurn", "turnEnded", "advance", "endGame", "persist", "stats",
           "reset", "gone", "delete"}

\* Where a handler awaits a mutate().
Mutating == {"start", "begin", "select", "guess", "endTurn", "advance", "endGame", "reset"}

Room == [exists       : BOOLEAN,
         phase        : Phases,
         players      : SUBSET Players,
         connected    : SUBSET Players,   \* players with connected = true
         drawOrder    : Seq(Players),
         turnPointer  : Nat,
         currentRound : Nat,
         drawing      : SUBSET Players,   \* players with isDrawing = true
         guessed      : SUBSET Players,   \* players with hasGuessed = true
         gameId       : Nat]              \* 0 is null

Absent == [exists |-> FALSE, phase |-> "LOBBY", players |-> {}, connected |-> {},
           drawOrder |-> << >>, turnPointer |-> 0, currentRound |-> 0, drawing |-> {},
           guessed |-> {}, gameId |-> 0]

\* turn = 0 is the absent key; chosen is false while the word is ''.
Secret == [turn : Nat, chosen : BOOLEAN]
NoSecret == [turn |-> 0, chosen |-> FALSE]

Timer == [node : Nodes, kind : TimerKinds, drawer : Players \cup {Nobody}]

\* What a handler keeps across an await.  delays names the timers set while it
\* has been in flight.
Task == [at : Labels, node : Nodes \cup {Nobody}, player : Players \cup {Nobody},
         drawer : Players \cup {Nobody}, turn : Nat, chosen : BOOLEAN, gameId : Nat,
         ranked : SUBSET Players, delays : SUBSET (Nodes \X TimerKinds)]

NoTask == [at |-> "idle", node |-> Nobody, player |-> Nobody, drawer |-> Nobody,
           turn |-> 0, chosen |-> FALSE, gameId |-> 0, ranked |-> {}, delays |-> {}]

Database == [games  : Nat,                  \* Game rows
             scores : SUBSET (Nat \X Players),  \* Score rows: unique (gameId, playerId)
             played : [Players -> Nat]]     \* the gamesPlayed statistic

\* What is stored is well formed, whatever fails, restarts or leaves in between: the
\* pointer and the round never leave Nat (game.service.ts, types in game.types.ts).
TypeOK == /\ room \in Room /\ holder \in 0..Others /\ emptied \in BOOLEAN
          /\ secret \in Secret
          /\ timers \subseteq Timer
          /\ tasks \in [Slots -> Task]
          /\ db \in Database
          /\ turn \in Nat
          /\ drew \subseteq Players
          /\ departures \in 0..MaxDepartures

\* drawOrder[turnPointer], counted from 0 in the code.
CurrentDrawer == IF room.turnPointer < Len(room.drawOrder)
                 THEN room.drawOrder[room.turnPointer + 1]
                 ELSE Nobody

\* shuffle(): any order of the members of S.
Orders(S) == {o \in [1..Cardinality(S) -> S] :
                \A i, j \in DOMAIN o : i # j => o[i] # o[j]}

\* The swap that keeps the previous drawer from going first (401-403).
Swapped(o) == [i \in DOMAIN o |-> IF i = 1 THEN o[2] ELSE IF i = 2 THEN o[1] ELSE o[i]]
NotFirst(p, o) == IF Len(o) > 1 /\ o[1] = p THEN Swapped(o) ELSE o

-----------------------------------------------------------------------------
(***************************************************************************)
(* The record.  getRoom finds none while its holder has yet to write it,   *)
(* and every other mutate() waits for the lock that the holder has.        *)
(***************************************************************************)
Stored == room.exists /\ holder = 0
Unlocked(h) == room.exists /\ holder \in {0, h}

Write(next) == room' = next /\ holder' = 0 /\ UNCHANGED emptied

\* A write with a turn order made of the players there are.
Reorder(next) == room' = next /\ holder' = 0 /\ emptied' = FALSE

Erase == room' = Absent /\ holder' = 0 /\ emptied' = FALSE

\* mutate() ends without a write: what was deleted meanwhile stays deleted.
NoWrite(h) == IF holder = h THEN Erase ELSE UNCHANGED record

-----------------------------------------------------------------------------
(***************************************************************************)
(* Timers and handlers.                                                    *)
(***************************************************************************)
\* GameTimers.clear and clearRoom: they reach the timers of their own node.
Cleared(n, kinds) == {t \in timers : t.node # n \/ t.kind \notin kinds}

\* GameTimers.set replaces the timer of the same kind; d is what the callback
\* of a select timer has captured.
Armed(n, kinds, d) ==
    Cleared(n, kinds) \cup {[node |-> n, kind |-> k, drawer |-> d] : k \in kinds}

\* A timer may fire at any time after it was set.  Prompt adds what the
\* delays guarantee.  Handlers take milliseconds and the shortest timer takes
\* 6 s, so a timer does not overtake a handler in flight when it was set.  A
\* draw timer takes 30 s or more, so it does not overtake the pause (6 s) and
\* the word choice (15 s) that its own node goes through with it pending.
ShortWait(n) ==
    \/ \E t \in timers : t.node = n /\ t.kind \in {"roundEnd", "select", "gameEnd"}
    \/ \E s \in Slots : /\ tasks[s].node = n
                         /\ tasks[s].at \in {"turnEnded", "advance", "begin", "deal",
                                             "select", "setWord", "arm"}

Due(t) == /\ t \in timers
          /\ Prompt => /\ \A s \in Slots : <<t.node, t.kind>> \notin tasks[s].delays
                       /\ t.kind = "draw" => ~ShortWait(t.node)

\* selectWord has written the new phase and has not told the players yet.  Prompt
\* leaves out the guess that is right by luck before the turn is announced.
Unannounced == \E s \in Slots : tasks[s].at \in {"setWord", "arm"}

Free == {s \in Slots : tasks[s].at = "idle"}

Handler(n, label) == [NoTask EXCEPT !.at = label, !.node = n]

Spawn(task) == /\ Free # {}
               /\ LET s == CHOOSE s \in Free : TRUE
                  IN  tasks' = [tasks EXCEPT ![s] = task]

\* The handler awaits the command named by `label`, keeping what it captured...
Goto(s, label) == tasks' = [tasks EXCEPT ![s].at = label]

\* ... or has no more use for it.
Enter(s, label) ==
    tasks' = [tasks EXCEPT ![s] = [Handler(@.node, label) EXCEPT !.delays = tasks[s].delays]]

Finish(s) == tasks' = [tasks EXCEPT ![s] = NoTask]

\* The handler ends by setting timers, which the others in flight delay.
FinishSetting(s, kinds) ==
    tasks' = [x \in Slots |->
                IF x = s THEN NoTask
                ELSE IF tasks[x].at = "idle" \/ ~Prompt THEN tasks[x]
                ELSE [tasks[x] EXCEPT !.delays = @ \cup ({tasks[s].node} \X kinds)]]

\* The handler in slot s resumes at `label`, has the lock and finds the room.
\* Commands on the turn secret, the timers and the database do not look for it.
At(s, label) == tasks[s].at = label /\ Unlocked(s)

\* mutate() or getRoom found no room: every handler returns.
NoRoom(s) == /\ \/ tasks[s].at \in Mutating /\ ~room.exists
                \/ tasks[s].at = "gone" /\ ~Stored
             /\ Finish(s)
             /\ UNCHANGED <<record, secret, timers, db, turn, drew, departures>>

-----------------------------------------------------------------------------
(***************************************************************************)
(* Faulty variants of steps defined below.                                 *)
(***************************************************************************)
\* A removal that leaves the turn order alone.
RemovalKeepsOrder(p) ==
    [room EXCEPT !.players = @ \ {p}, !.connected = @ \ {p},
                 !.drawing = @ \ {p}, !.guessed = @ \ {p}]

\* A removal that moves the pointer back, wherever the player stood.
RemovalMovesPointer(p) ==
    [room EXCEPT !.players = @ \ {p}, !.connected = @ \ {p},
                 !.drawing = @ \ {p}, !.guessed = @ \ {p},
                 !.drawOrder = IF room.players = {p} THEN @ ELSE Without(@, p),
                 !.turnPointer = IF room.players = {p} THEN @ ELSE @ - 1]

\* Choices are dealt without the 15 s timer.
DealWithoutTimer(s) == /\ tasks[s].at = "deal"
                       /\ secret' = [turn |-> tasks[s].turn, chosen |-> FALSE]
                       /\ Finish(s)
                       /\ UNCHANGED <<record, timers, db, turn, drew, departures>>

\* selectWord without the test of the phase.
SelectWordAnyPhase(s) ==
    /\ At(s, "select")
    /\ IF CurrentDrawer = tasks[s].player
       THEN /\ Write([room EXCEPT !.phase = "DRAWING"])
            /\ timers' = Cleared(tasks[s].node, {"select"})
            /\ tasks' = [tasks EXCEPT ![s] = [@ EXCEPT !.at = "setWord", !.player = Nobody]]
       ELSE Finish(s) /\ NoWrite(s) /\ UNCHANGED timers
    /\ UNCHANGED <<secret, db, turn, drew, departures>>

\* The drawing time is over, and the hints go on.
DrawTimeoutKeepsHints(t) == /\ Due(t)
                            /\ t.kind = "draw"
                            /\ timers' = Cleared(t.node, {"draw"})
                            /\ Spawn([NoTask EXCEPT !.at = "endTurn", !.node = t.node])
                            /\ UNCHANGED <<record, secret, db, turn, drew, departures>>

\* endTurn goes straight on to the next turn.
TurnEndedWithoutPause(s) ==
    /\ tasks[s].at = "turnEnded"
    /\ secret' = NoSecret
    /\ Goto(s, "advance")
    /\ UNCHANGED <<record, timers, db, turn, drew, departures>>

\* advanceTurn takes the last but one of the order for the last.
AdvanceSkipsLast(s) ==
    /\ At(s, "advance")
    /\ IF room.turnPointer + 2 < Len(room.drawOrder)
       THEN Write([room EXCEPT !.turnPointer = @ + 1]) /\ UNCHANGED drew
       ELSE IF room.currentRound + 1 <= Rounds
       THEN /\ drew' = {}
            /\ \E order \in Orders(room.connected) :
                  Reorder([room EXCEPT !.turnPointer = 0, !.currentRound = @ + 1,
                                       !.drawOrder = order])
       ELSE /\ Write([room EXCEPT !.turnPointer = 0, !.currentRound = @ + 1])
            /\ UNCHANGED drew
    /\ IF room'.currentRound > Rounds \/ Len(room'.drawOrder) < 1
       THEN Enter(s, "endGame") /\ timers' = Cleared(tasks[s].node, TimerKinds)
       ELSE Enter(s, "begin") /\ UNCHANGED timers
    /\ UNCHANGED <<secret, db, turn, departures>>

\* endGame leaves the pen where it is.
EndGameKeepsPen(s) ==
    /\ At(s, "endGame")
    /\ Write([room EXCEPT !.phase = "GAME_END"])
    /\ tasks' = [tasks EXCEPT ![s] = [@ EXCEPT !.at = "persist", !.gameId = room.gameId,
                                               !.ranked = room.players]]
    /\ UNCHANGED <<secret, timers, db, turn, drew, departures>>

\* The results screen without a timer to leave it.
ResultsForever(s) == Finish(s) /\ UNCHANGED timers

\* applyGameResults follows even a transaction the database refused.
StatsRegardless(s) ==
    LET rows == {tasks[s].gameId} \X tasks[s].ranked
    IN /\ tasks[s].at = "persist"
       /\ db' = IF rows \cap db.scores = {} THEN [db EXCEPT !.scores = @ \cup rows] ELSE db
       /\ Goto(s, "stats")
       /\ UNCHANGED <<record, secret, timers, turn, drew, departures>>

-----------------------------------------------------------------------------
(***************************************************************************)
(* Players come and go (RoomService).                                      *)
(***************************************************************************)
\* join(): a new player, or a known one reconnecting.
Join(p) == /\ Unlocked(Others)
           /\ p \notin room.connected
           /\ Write([room EXCEPT !.players = @ \cup {p}, !.connected = @ \cup {p}])
           /\ UNCHANGED <<secret, timers, tasks, db, turn, drew, departures>>

CountDeparture == departures < MaxDepartures /\ departures' = departures + 1

Starting == {s \in Slots : tasks[s].at = "start"}

\* markDisconnected(): the slot is kept for the grace window.
Disconnect(p) == /\ Unlocked(Others)
                 /\ p \in room.connected
                 /\ Deserts \/ room.connected # {p}
                 /\ Lone \/ Starting = {} \/ Cardinality(room.connected) > 2
                 /\ Write([room EXCEPT !.connected = @ \ {p}])
                 /\ CountDeparture
                 /\ UNCHANGED <<secret, timers, tasks, db, turn, drew>>

\* What removePlayer() writes: it filters the order of a room that is not empty now.
RoomWithout(p) ==
    [room EXCEPT !.players = @ \ {p}, !.connected = @ \ {p},
                 !.drawing = @ \ {p}, !.guessed = @ \ {p},
                 !.drawOrder = IF room.players = {p} THEN @ ELSE Without(@, p)]

\* removePlayer(): the mutation, and what its caller awaits then, with a room left
\* (`onward`) or with one to delete.
Remove(n, p, onward) ==
    /\ Leaves
    /\ Unlocked(Others)
    /\ p \in room.players
    /\ room' = RoomWithout(p) /\ holder' = 0
    /\ emptied' = (emptied \/ room.players = {p})
    /\ IF room.players = {p} THEN Spawn(Handler(n, "delete")) ELSE onward
    /\ CountDeparture
    /\ UNCHANGED <<secret, timers, db, turn, drew>>

\* room:leave, or the grace window ran out: the game is told (onPlayerGone).
Leave(n, p) == Remove(n, p, Spawn([Handler(n, "gone") EXCEPT !.player = p]))

\* room:kick by another player: the game is not told.
Kick(n, p) == Remove(n, p, UNCHANGED tasks)

\* deleteRoom, which takes no lock: the record and the secret go, and a mutate()
\* that has read the record may write it afterwards.
Delete(s) ==
    /\ tasks[s].at = "delete"
    /\ IF Stored
       THEN \/ Erase
            \/ \E h \in {x \in Slots : tasks[x].at \in Mutating} \cup {Others} :
                  holder' = h /\ UNCHANGED <<room, emptied>>
       ELSE UNCHANGED record
    /\ secret' = NoSecret
    /\ Finish(s)
    /\ UNCHANGED <<timers, db, turn, drew, departures>>

\* Another request that holds the record writes it as it was (setReady, a second
\* removal), or has nothing to write, or fails.
OtherMutation == /\ holder = Others
                 /\ Write(room) \/ Erase
                 /\ UNCHANGED <<secret, timers, tasks, db, turn, drew, departures>>

\* onPlayerGone, up to the next await of what it calls.
PlayerGone(s) ==
    LET t == tasks[s]
    IN /\ t.at = "gone" /\ Stored
       /\ IF room.phase \in {"LOBBY", "GAME_END"}
          THEN Finish(s) /\ UNCHANGED timers
          ELSE IF Cardinality(room.connected) < 2
          THEN Enter(s, "endGame") /\ timers' = Cleared(t.node, TimerKinds)
          ELSE IF t.player = CurrentDrawer /\ room.phase = "DRAWING"
          THEN Enter(s, "endTurn") /\ timers' = Cleared(t.node, {"draw", "hint"})
          ELSE Finish(s) /\ UNCHANGED timers
       /\ UNCHANGED <<record, secret, db, turn, drew, departures>>

-----------------------------------------------------------------------------
(***************************************************************************)
(* Starting a game and dealing a turn.                                     *)
(***************************************************************************)
\* startGame: the checks on the room as read, and the Room and Game rows.  Prompt
\* leaves out the host who leaves, comes back and starts before deleteRoom is done.
RequestStart(n) ==
    /\ Stored
    /\ Prompt => \A s \in Slots : tasks[s].at # "delete"
    /\ room.phase = "LOBBY"
    /\ Cardinality(room.connected) >= 2
    /\ db.games < MaxGames
    /\ Cardinality(Starting) < MaxStarts
    /\ db' = [db EXCEPT !.games = @ + 1]
    /\ Spawn([Handler(n, "start") EXCEPT !.gameId = db.games + 1])
    /\ UNCHANGED <<record, secret, timers, turn, drew, departures>>

\* startGame: the mutation, which does not look at the phase again.
StartGame(s) ==
    /\ At(s, "start")
    /\ \E order \in Orders(room.connected) :
          Reorder([room EXCEPT !.gameId = tasks[s].gameId, !.currentRound = 1,
                               !.turnPointer = 0, !.drawOrder = order,
                               !.drawing = {}, !.guessed = {},
                               !.phase = "WORD_SELECTION"])
    /\ drew' = {}
    /\ Enter(s, "begin")
    /\ UNCHANGED <<secret, timers, db, turn, departures>>

\* beginTurn: the mutation.
BeginTurn(s) ==
    /\ At(s, "begin")
    /\ CurrentDrawer # Nobody
    /\ Write([room EXCEPT !.phase = "WORD_SELECTION", !.guessed = {},
                          !.drawing = {CurrentDrawer} \cap room.players])
    /\ IF CurrentDrawer \in room.players
       THEN /\ turn' = turn + 1
            /\ drew' = drew \cup {CurrentDrawer}
            /\ tasks' = [tasks EXCEPT ![s] = [@ EXCEPT !.at = "deal", !.drawer = CurrentDrawer,
                                                       !.turn = turn + 1]]
       ELSE Enter(s, "advance") /\ UNCHANGED <<turn, drew>>
    /\ UNCHANGED <<secret, timers, db, departures>>

\* beginTurn: the pointer is past the end of the order; nothing is written.
BeginNothing(s) == /\ At(s, "begin")
                   /\ CurrentDrawer = Nobody
                   /\ Finish(s)
                   /\ NoWrite(s)
                   /\ UNCHANGED <<secret, timers, db, turn, drew, departures>>

\* beginTurn: the choices are stored and sent, the 15 s timer is set.
Deal(s) == /\ tasks[s].at = "deal"
           /\ secret' = [turn |-> tasks[s].turn, chosen |-> FALSE]
           /\ timers' = Armed(tasks[s].node, {"select"}, tasks[s].drawer)
           /\ FinishSetting(s, {"select"})
           /\ UNCHANGED <<record, db, turn, drew, departures>>

-----------------------------------------------------------------------------
(***************************************************************************)
(* Choosing the word.                                                      *)
(***************************************************************************)
\* selectWord reads the secret.
ReadChoices(n, p) ==
    Spawn([Handler(n, "select") EXCEPT !.player = p, !.turn = secret.turn])

\* word:select; the client offers it to the drawer while the phase lasts, once
\* the choices of this turn have come.
ChooseWord(n, p) == /\ room.phase = "WORD_SELECTION"
                    /\ p \in room.drawing \cap room.connected
                    /\ secret.turn = turn
                    /\ ReadChoices(n, p)
                    /\ UNCHANGED <<record, secret, timers, db, turn, drew, departures>>

\* The 15 s are over: a random choice for the drawer the timer was set for.
SelectTimeout(t) == /\ Due(t)
                    /\ t.kind = "select"
                    /\ timers' = timers \ {t}
                    /\ IF secret.turn = 0 THEN UNCHANGED tasks
                       ELSE ReadChoices(t.node, t.drawer)
                    /\ UNCHANGED <<record, secret, db, turn, drew, departures>>

\* selectWord: the mutation.
SelectWord(s) ==
    /\ At(s, "select")
    /\ IF room.phase = "WORD_SELECTION" /\ CurrentDrawer = tasks[s].player
       THEN /\ Write([room EXCEPT !.phase = "DRAWING"])
            /\ timers' = Cleared(tasks[s].node, {"select"})
            /\ tasks' = [tasks EXCEPT ![s] = [@ EXCEPT !.at = "setWord", !.player = Nobody]]
       ELSE Finish(s) /\ NoWrite(s) /\ UNCHANGED timers
    /\ UNCHANGED <<secret, db, turn, drew, departures>>

\* selectWord: the word goes into the secret.
SetWord(s) == /\ At(s, "setWord")
              /\ secret' = [turn |-> tasks[s].turn, chosen |-> TRUE]
              /\ Goto(s, "arm")
              /\ UNCHANGED <<record, timers, db, turn, drew, departures>>

\* selectWord: after clearDrawBuffer, the timers of the drawing phase.
Arm(s) ==
    LET kinds == IF Hints THEN {"draw", "hint"} ELSE {"draw"}
    IN /\ tasks[s].at = "arm"
       /\ timers' = Armed(tasks[s].node, kinds, Nobody)
       /\ FinishSetting(s, kinds)
       /\ UNCHANGED <<record, secret, db, turn, drew, departures>>

\* scheduleHints: a tick reads the secret; the interval goes on.
HintTick(t) == /\ Due(t)
               /\ t.kind = "hint"
               /\ secret.turn # 0
               /\ Spawn([Handler(t.node, "hint") EXCEPT !.turn = secret.turn,
                                                        !.chosen = secret.chosen])
               /\ UNCHANGED <<record, secret, timers, db, turn, drew, departures>>

\* updateTurnSecret writes back what it read, and the last hint stops the
\* interval of its node.
RevealHint(s, last) ==
    /\ tasks[s].at = "hint"
    /\ secret' = [turn |-> tasks[s].turn, chosen |-> tasks[s].chosen]
    /\ timers' = IF last THEN Cleared(tasks[s].node, {"hint"}) ELSE timers
    /\ Finish(s)
    /\ UNCHANGED <<record, db, turn, drew, departures>>

-----------------------------------------------------------------------------
(***************************************************************************)
(* Guessing and the end of a turn.                                         *)
(***************************************************************************)
\* handleGuess of the right word, up to the mutation.  Its two reads, of the room
\* and of the secret, are one step: what the first finds only makes it return.
Guess(n, p) == /\ Stored /\ room.phase = "DRAWING"
               /\ p \in room.connected \ room.guessed
               /\ p # CurrentDrawer
               /\ secret.chosen
               /\ Prompt => ~Unannounced
               /\ Spawn([Handler(n, "guess") EXCEPT !.player = p, !.turn = secret.turn,
                                                    !.drawer = CurrentDrawer])
               /\ UNCHANGED <<record, secret, timers, db, turn, drew, departures>>

\* handleGuess: the mutation, and endTurn's first lines when all have guessed.
CreditGuess(s) ==
    LET t == tasks[s]
        credited == room.guessed \cup {t.player}
        guessers == room.connected \ {t.drawer}
    IN /\ At(s, "guess")
       /\ IF t.player \in room.players \ room.guessed
          THEN /\ Write([room EXCEPT !.guessed = credited])
               /\ IF guessers # {} /\ guessers \subseteq credited
                  THEN Enter(s, "endTurn") /\ timers' = Cleared(t.node, {"draw", "hint"})
                  ELSE Finish(s) /\ UNCHANGED timers
          ELSE Finish(s) /\ NoWrite(s) /\ UNCHANGED timers
       /\ UNCHANGED <<secret, db, turn, drew, departures>>

\* The drawing time is over.
DrawTimeout(t) == /\ Due(t)
                  /\ t.kind = "draw"
                  /\ timers' = Cleared(t.node, {"draw", "hint"})
                  /\ Spawn(Handler(t.node, "endTurn"))
                  /\ UNCHANGED <<record, secret, db, turn, drew, departures>>

\* endTurn: the mutation.  The secret it reads first is for the results it sends.
EndTurn(s) ==
    /\ At(s, "endTurn")
    /\ IF room.phase \in {"DRAWING", "WORD_SELECTION"}
       THEN /\ Write([room EXCEPT !.phase = "ROUND_END", !.drawing = @ \ {CurrentDrawer}])
            /\ Enter(s, "turnEnded")
       ELSE Finish(s) /\ NoWrite(s)
    /\ UNCHANGED <<secret, timers, db, turn, drew, departures>>

\* endTurn: the secret is dropped and the 6 s pause begins.
TurnEnded(s) == /\ tasks[s].at = "turnEnded"
                /\ secret' = NoSecret
                /\ timers' = Armed(tasks[s].node, {"roundEnd"}, Nobody)
                /\ FinishSetting(s, {"roundEnd"})
                /\ UNCHANGED <<record, db, turn, drew, departures>>

RoundEndTimeout(t) == /\ Due(t)
                      /\ t.kind = "roundEnd"
                      /\ timers' = timers \ {t}
                      /\ Spawn(Handler(t.node, "advance"))
                      /\ UNCHANGED <<record, secret, db, turn, drew, departures>>

\* advanceTurn: the next turn of the round, or a new round, or the last one over.
NextTurn == [room EXCEPT !.turnPointer = @ + 1]
NextRound(order) == [room EXCEPT !.turnPointer = 0, !.currentRound = @ + 1,
                                 !.drawOrder = NotFirst(CurrentDrawer, order)]
LastRoundOver == [room EXCEPT !.turnPointer = 0, !.currentRound = @ + 1]

AdvanceTurn(s) ==
    /\ At(s, "advance")
    /\ IF room.turnPointer + 1 < Len(room.drawOrder)
       THEN Write(NextTurn) /\ UNCHANGED drew
       ELSE IF room.currentRound + 1 <= Rounds
       THEN drew' = {} /\ \E order \in Orders(room.connected) : Reorder(NextRound(order))
       ELSE Write(LastRoundOver) /\ UNCHANGED drew
    /\ IF room'.currentRound > Rounds \/ Len(room'.drawOrder) < 1
       THEN Enter(s, "endGame") /\ timers' = Cleared(tasks[s].node, TimerKinds)
       ELSE Enter(s, "begin") /\ UNCHANGED timers
    /\ UNCHANGED <<secret, db, turn, departures>>

-----------------------------------------------------------------------------
(***************************************************************************)
(* The end of a game.                                                      *)
(***************************************************************************)
\* endGame: the mutation.
EndGame(s) == /\ At(s, "endGame")
              /\ Write([room EXCEPT !.phase = "GAME_END", !.drawing = {}])
              /\ tasks' = [tasks EXCEPT ![s] = [@ EXCEPT !.at = "persist", !.gameId = room.gameId,
                                                         !.ranked = room.players]]
              /\ UNCHANGED <<secret, timers, db, turn, drew, departures>>

\* persistGameEnd is over, one way or the other: the 12 s of the results screen.
ShowResults(s) == /\ timers' = Armed(tasks[s].node, {"gameEnd"}, Nobody)
                  /\ FinishSetting(s, {"gameEnd"})

\* persistGameEnd: the transaction, which the unique key of Score rows may refuse.
SaveScores(s) ==
    LET rows == {tasks[s].gameId} \X tasks[s].ranked
    IN /\ tasks[s].at = "persist"
       /\ IF tasks[s].gameId # 0 /\ rows \cap db.scores = {}
          THEN /\ db' = [db EXCEPT !.scores = @ \cup rows]
               /\ Goto(s, "stats")
               /\ UNCHANGED timers
          ELSE ShowResults(s) /\ UNCHANGED db
       /\ UNCHANGED <<record, secret, turn, drew, departures>>

\* persistGameEnd: applyGameResults.
SaveStats(s) ==
    /\ tasks[s].at = "stats"
    /\ db' = [db EXCEPT !.played = [p \in Players |->
                                      IF p \in tasks[s].ranked THEN @[p] + 1 ELSE @[p]]]
    /\ ShowResults(s)
    /\ UNCHANGED <<record, secret, turn, drew, departures>>

\* A database error in persistGameEnd is caught and logged.
PersistFails(s) == /\ Failures
                   /\ tasks[s].at \in {"persist", "stats"}
                   /\ ShowResults(s)
                   /\ UNCHANGED <<record, secret, db, turn, drew, departures>>

GameEndTimeout(t) == /\ Due(t)
                     /\ t.kind = "gameEnd"
                     /\ timers' = timers \ {t}
                     /\ Spawn(Handler(t.node, "reset"))
                     /\ UNCHANGED <<record, secret, db, turn, drew, departures>>

ResetToLobby(s) ==
    /\ At(s, "reset")
    /\ Reorder([room EXCEPT !.phase = "LOBBY", !.currentRound = 0, !.turnPointer = 0,
                            !.drawOrder = <<>>, !.gameId = 0, !.guessed = {},
                            !.drawing = {}])
    /\ Finish(s)
    /\ UNCHANGED <<secret, timers, db, turn, drew, departures>>

-----------------------------------------------------------------------------
(***************************************************************************)
(* Failures.                                                               *)
(***************************************************************************)
\* 'Room is busy', or a Redis or database error, ends the handler.
HandlerFails(s) == /\ Failures
                   /\ tasks[s].at \notin {"idle", "persist", "stats"}
                   /\ Finish(s)
                   /\ NoWrite(s)
                   /\ UNCHANGED <<secret, timers, db, turn, drew, departures>>

\* The process restarts with no timers and no handlers.
Crash(n) == /\ Crashes
            /\ timers' = {t \in timers : t.node # n}
            /\ tasks' = [s \in Slots |-> IF tasks[s].node = n THEN NoTask ELSE tasks[s]]
            /\ <<timers', tasks'>> # <<timers, tasks>>
            /\ IF holder \in Slots /\ tasks[holder].node = n THEN Erase ELSE UNCHANGED record
            /\ UNCHANGED <<secret, db, turn, drew, departures>>

-----------------------------------------------------------------------------
Init == /\ \E host \in Players :
             room = [exists |-> TRUE, phase |-> "LOBBY", players |-> {host},
                     connected |-> {host}, drawOrder |-> <<>>, turnPointer |-> 0,
                     currentRound |-> 0, drawing |-> {}, guessed |-> {}, gameId |-> 0]
        /\ holder = 0 /\ emptied = FALSE
        /\ secret = NoSecret
        /\ timers = {}
        /\ tasks = [s \in Slots |-> NoTask]
        /\ db = [games |-> 0, scores |-> {}, played |-> [p \in Players |-> 0]]
        /\ turn = 0
        /\ drew = {}
        /\ departures = 0

Timeout(t) == SelectTimeout(t) \/ DrawTimeout(t) \/ RoundEndTimeout(t) \/ GameEndTimeout(t)

Resume(s) == \/ NoRoom(s) \/ PlayerGone(s) \/ Delete(s)
             \/ StartGame(s) \/ BeginTurn(s) \/ BeginNothing(s) \/ Deal(s)
             \/ SelectWord(s) \/ SetWord(s) \/ Arm(s)
             \/ \E last \in BOOLEAN : RevealHint(s, last)
             \/ CreditGuess(s) \/ EndTurn(s) \/ TurnEnded(s) \/ AdvanceTurn(s)
             \/ EndGame(s) \/ SaveScores(s) \/ SaveStats(s) \/ ResetToLobby(s)

Next == \/ \E p \in Players : Join(p) \/ Disconnect(p)
        \/ OtherMutation
        \/ \E n \in Nodes : RequestStart(n) \/ Crash(n)
        \/ \E n \in Nodes, p \in Players : Leave(n, p) \/ Kick(n, p)
                                            \/ ChooseWord(n, p) \/ Guess(n, p)
        \/ \E t \in timers : Timeout(t) \/ HintTick(t)
        \/ \E s \in Slots : Resume(s) \/ PersistFails(s) \/ HandlerFails(s)

Spec == Init /\ [][Next]_vars

(***************************************************************************)
(* Handlers run to their end, a mutate() under way included, and timers    *)
(* that are set fire: the event loop of a live node.  Nothing makes        *)
(* players act.                                                            *)
(***************************************************************************)
Fairness == /\ \A s \in Slots : WF_vars(Resume(s))
            /\ WF_vars(OtherMutation)
            /\ \A n \in Nodes, k \in TimerKinds :
                  WF_vars(\E t \in timers : t.node = n /\ t.kind = k /\ Timeout(t))

FairSpec == Spec /\ Fairness

-----------------------------------------------------------------------------
(***************************************************************************)
(* Properties.                                                             *)
(***************************************************************************)
\* The turn order names players of the room, each once, whoever joins, leaves
\* or is kicked between two steps of a game (room.service.ts:172-173).  Only a room
\* that has been without players since the order was made may name one who is gone,
\* and nobody else: its last player stays in the order (room.service.ts:163), and
\* someone may join before deleteRoom, or bring the record back after it.
DrawOrderSound ==
    /\ \A i, j \in DOMAIN room.drawOrder : room.drawOrder[i] = room.drawOrder[j] => i = j
    /\ IF emptied THEN Len(room.drawOrder) <= 1
       ELSE \A i \in DOMAIN room.drawOrder : room.drawOrder[i] \in room.players

\* Never two players with the pen, and nobody in the lobby or on the results screen.
\* Between two turns somebody may have it: endTurn takes it from the player the order
\* points at, who is not the drawer once a removal has shifted the order.
OneDrawer == /\ \A p, q \in room.drawing : p = q
             /\ room.phase \in {"LOBBY", "GAME_END"} => room.drawing = {}

\* While a turn is being drawn its word stays what the drawer chose, although the
\* secret is a key of its own that hint ticks read, change and write back without
\* a lock (room.store.ts:124-133).
WordStaysSet ==
    [][secret.chosen /\ room.phase = "DRAWING" /\ room'.phase = "DRAWING"
          => secret' = secret]_vars

\* A guess is credited in the turn whose word it matched, although handleGuess
\* matches it before the mutation.
CreditInItsTurn ==
    [][\A s \in Slots : tasks[s].at = "guess" /\ room'.guessed # room.guessed
                            /\ tasks'[s].at # "guess"
                          => tasks[s].turn = turn]_vars

\* The games-played statistic never runs ahead of the score rows: ending a game
\* twice does not count it twice (game.service.ts:557-590).
StatsBacked == \A p \in Players :
    db.played[p] <= Cardinality({g \in 1..MaxGames : <<g, p>> \in db.scores})

\* While no player is removed, the player the order points at is the one with
\* the pen, so guesses, strokes and the drawer's bonus concern the same player.
DrawerHasPen == room.phase = "DRAWING" => room.drawing = {CurrentDrawer}

\* The rules of the game: ARCHITECTURE.md:64-89.
Documented == INSTANCE DocumentedGame WITH
                 phase   <- room.phase,
                 present <- room.connected,
                 round   <- IF room.currentRound <= Rounds THEN room.currentRound ELSE Rounds,
                 waiting <- {room.drawOrder[i] : i \in DOMAIN room.drawOrder} \ drew,
                 drawing <- room.drawing

\* While no player is removed and no start in flight is left with one player
\* connected, what happens on one node follows the rules of the game, through any
\* interleaving of its handlers and timers, and whether or not handlers fail and
\* nodes restart.
FollowsTheRules == Documented!Spec

\* Once started, a game comes to its end and the room to its lobby.
GamesEnd == room.phase # "LOBBY" ~> room.phase = "LOBBY"

\* A word is chosen for every turn dealt, by the drawer or by the timeout.
WordGetsChosen == room.phase = "WORD_SELECTION" ~> room.phase # "WORD_SELECTION"
=============================================================================
