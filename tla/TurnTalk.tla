------------------------------ MODULE TurnTalk ------------------------------
(***************************************************************************)
(* Who learns the word, and when: the turns of a game as its players hear  *)
(* them.  GameGateway routes their guesses and chat lines (apps/backend/   *)
(* src/game/game.gateway.ts:212-250, 399-474), GameService picks the word, *)
(* judges the guesses and ends the turn (game.service.ts:111-414), and the *)
(* page of each player shows what it is sent (GameStore).                  *)
(*                                                                         *)
(* As in GameFlow, a handler in flight is a task, one action is one        *)
(* stretch between two awaits, and mutate() is one step.  All handlers run *)
(* on one node; what it sends reaches a page at once, for a page that      *)
(* reacts late is a request that is served late.  A chat line is its       *)
(* sender; of what it says only one thing matters: whether he knew the     *)
(* word.  Players talk when they like and through either event, for the    *)
(* page "only chooses which event to emit" and the server enforces the     *)
(* rest.  Rate limits, new players, rounds and the end of the game are     *)
(* left out; so, unless Luck, are right guesses in the moment between the  *)
(* write of the word and its announcement.                                 *)
(***************************************************************************)
EXTENDS Scoring, GameStore, PlayerOrder, FiniteSets

CONSTANTS Players,
          Nobody,       \* undefined, in place of a player
          FirstOrder,   \* the turn order of the round
          Words,        \* the words that may be dealt
          DifficultyOf, \* the difficulty of each
          Guesses,      \* what players may type as a guess
          Total,        \* settings.drawTimeSec, in ticks
          MaxTasks,     \* bound: handlers in flight at once
          MaxTurns,     \* bound: turns played
          MaxDepartures,    \* bound: connections lost and players removed in all
          Shifts,       \* may somebody be removed who draws before those still to draw?
          Overlap,      \* may arrivals and departures overlap other handlers?
          Luck          \* may a word be guessed before it is announced?

ASSUME TurnTalkAssumption ==
    /\ IsFiniteSet(Players) /\ Nobody \notin Players
    /\ SoundFor(FirstOrder, Players)
    /\ Words \cup Guesses \subseteq Seq(STRING) \ {<< >>}
    /\ \A w \in Words : \A i \in DOMAIN w : w[i] # Blank
    /\ Null \notin Words \cup {<< >>}
    /\ DifficultyOf \in [Words -> Difficulties]
    /\ Total \in Nat \ {0} /\ MaxTasks \in Nat /\ MaxTurns \in Nat \ {0}
    /\ MaxDepartures \in Nat
    /\ {Shifts, Overlap, Luck} \subseteq BOOLEAN

VARIABLES room,      \* the LiveRoom record in Redis
          secret,    \* the turn secret in Redis, a key of its own
          timers,    \* the timers that are set
          remaining, \* the time left until phaseEndsAt
          tasks,     \* the handlers in flight
          live,      \* the connection of each player, 0 if there is none
          bound,     \* the players whose connection is in the room
          view,      \* the page of each player
          turn,      \* history: how many turns have begun
          departures,    \* history: how many connections were lost and players removed
          back,      \* history: who has reconnected in this turn
          gone,      \* history: who has been removed in this turn
          overheard  \* history: the lines that the last step has shown to those still guessing

vars == <<room, secret, timers, remaining, tasks, live, bound, view, turn, departures,
          back, gone, overheard>>

-----------------------------------------------------------------------------
(***************************************************************************)
(* Data.                                                                   *)
(***************************************************************************)
Phases == {"WORD_SELECTION", "DRAWING", "ROUND_END"}
Word == Words \cup {<< >>}   \* << >> is the empty string
Turns == 0..MaxTurns
Sockets == 0..(MaxDepartures + 1)

Room == [phase       : Phases,
         players     : SUBSET Players,
         connected   : SUBSET Players,   \* players with connected = true
         drawOrder   : Seq(Players),
         turnPointer : Nat,
         drawing     : SUBSET Players,   \* players with isDrawing = true
         guessed     : Seq(Players),     \* players with hasGuessed = true, by guessedAt
         roundScore  : [Players -> Nat],
         usedWords   : Seq(Words),
         socket      : [Players -> Sockets]]  \* socketId

\* What toPublicRoom keeps of it for the pages (mappers.ts).
Snapshot == [phase : Phases, drawing : SUBSET Players]
NoSnapshot == [phase |-> "WORD_SELECTION", drawing |-> {}]
Public(r) == [phase |-> r.phase, drawing |-> r.drawing]

\* Without choices the key is absent; the word is empty until one is chosen.
Secret == [word : Word, choices : SUBSET Words, revealed : Nat]
NoSecret == [word |-> << >>, choices |-> {}, revealed |-> 0]

\* The callback of a select timer has captured the drawer, that of a hint the word.
TimerKinds == {"select", "draw", "hint", "roundEnd"}
Timer(kind, p, w) == [kind |-> kind, player |-> p, word |-> w]
Timers == [kind : TimerKinds, player : Players \cup {Nobody}, word : Word]
Cleared(kinds) == {t \in timers : t.kind \notin kinds}

CurrentDrawer == IF room.turnPointer < Len(room.drawOrder)
                 THEN room.drawOrder[room.turnPointer + 1]
                 ELSE Nobody

Used == {room.usedWords[i] : i \in DOMAIN room.usedWords}
CurrentWord == room.usedWords[Len(room.usedWords)]
Guessed == {room.guessed[i] : i \in DOMAIN room.guessed}

\* Who must not learn the word: the players in a turn who have no part in it yet.
StillGuessing == IF room.phase = "DRAWING" THEN room.players \ (room.drawing \cup Guessed)
                 ELSE {}
Insiders == IF room.phase = "DRAWING" THEN room.drawing \cup Guessed ELSE {}

-----------------------------------------------------------------------------
(***************************************************************************)
(* Handlers, and what they send.                                           *)
(***************************************************************************)
Labels == {"begin", "deal", "choose", "word", "announce", "guess", "match", "credit",
           "end", "close", "wipe", "advance", "chat", "left", "rejoin", "bind", "resume"}

\* A task: the label of its next step and what it has captured.  `knows` and `typed`
\* are history: the turn whose word the sender of a line knew when he typed it, and
\* the announced turn in which it was typed; 0 for none.
Task == [at : Labels, player : Players \cup {Nobody}, n : 0..MaxTasks, knows : Turns,
         typed : Turns, text : Guesses \cup {<< >>}, word : Word, choices : SUBSET Words,
         drawer : Players \cup {Nobody}, sock : Sockets, snap : Snapshot]

Handler(label, p) ==
    [at |-> label, player |-> p, n |-> 0, knows |-> 0, typed |-> 0, text |-> << >>,
     word |-> << >>, choices |-> {}, drawer |-> Nobody, sock |-> 0, snap |-> NoSnapshot]

Spawn(task) == /\ Cardinality(tasks) < MaxTasks
               /\ task \notin tasks
               /\ tasks' = tasks \cup {task}
Becomes(t, u) == tasks' = (tasks \ {t}) \cup {u}
Finish(t) == tasks' = tasks \ {t}

\* A handler has written the record, or read it, and has not told the pages yet.
Settled == \A t \in tasks : t.at \notin {"deal", "word", "announce", "left", "rejoin",
                                         "bind", "resume"}
InTurn == Overlap \/ Settled

\* Whom emitter.toRoom reaches, and emitter.toSocket.
Listening == {p \in bound : live[p] # 0}
Reaches(sock, p) == sock # 0 /\ live[p] = sock

\* room:updated, with a snapshot of the record.
RoomState(snap) ==
    [p \in Players |-> IF p \in Listening THEN SetRoom(view[p], snap, p) ELSE view[p]]

\* The line of task t is shown to `whom`.
Show(t, whom) == overheard' = IF whom \cap StillGuessing = {} THEN {}
                              ELSE {[knows |-> t.knows, typed |-> t.typed, text |-> t.text]}

Around == <<live, bound, turn, departures, back, gone>>

-----------------------------------------------------------------------------
(***************************************************************************)
(* Faulty variants of operators defined below.                             *)
(***************************************************************************)
\* A guess is counted whenever it is right.
CountsAgain(p) == p \in room.players

\* The place of a guess among those of the players who are still connected.
OrderAmongConnected == Cardinality((Guessed \cap room.connected) \ room.drawing)

\* The drawer does not belong to the post-guess channel.
ChannelOfGuessers == Guessed \cap room.players

\* word:assigned before round:started.
WordBeforeStart(t, p) ==
    LET assigned == IF p = t.player /\ Reaches(t.sock, p)
                    THEN SetMyWord(view[p], t.word) ELSE view[p]
    IN IF p \in Listening
       THEN StartTurn(SetRoom(assigned, t.snap, p), MaskWord(t.word, 0)) ELSE assigned

-----------------------------------------------------------------------------
(***************************************************************************)
(* A turn begins, and its word is chosen.                                  *)
(***************************************************************************)
\* beginTurn: the mutation.
BeginTurn(t) ==
    /\ t.at = "begin" /\ InTurn
    /\ IF CurrentDrawer = Nobody
       THEN Finish(t) /\ UNCHANGED <<room, turn, back, gone>>
       ELSE /\ room' = [room EXCEPT !.phase = "WORD_SELECTION", !.guessed = << >>,
                                    !.roundScore = [p \in Players |-> 0],
                                    !.drawing = {CurrentDrawer} \cap room.players]
            /\ turn' = turn + 1 /\ back' = {} /\ gone' = {}
            /\ Becomes(t, [t EXCEPT !.at = "deal", !.player = CurrentDrawer,
                                    !.sock = room.socket[CurrentDrawer],
                                    !.snap = Public(room')])
    /\ UNCHANGED <<secret, timers, remaining, live, bound, view, departures>>

\* beginTurn: the candidates are stored and offered to the drawer.
Deal(t) ==
    /\ t.at = "deal"
    /\ secret' = [NoSecret EXCEPT !.choices = Words \ Used]
    /\ view' = [p \in Players |->
                  IF p = t.player /\ Reaches(t.sock, p)
                  THEN SetWordChoices(RoomState(t.snap)[p])
                  ELSE RoomState(t.snap)[p]]
    /\ timers' = Cleared({"select"}) \cup {Timer("select", t.player, << >>)}
    /\ Finish(t)
    /\ UNCHANGED <<room, remaining, Around>>

\* word:select from a page that offers the choices; the handler has read them.
ChooseWord(p, w) ==
    /\ p \in Listening
    /\ OffersChoices(view[p])
    /\ w \in secret.choices
    /\ Spawn([Handler("choose", p) EXCEPT !.word = w, !.choices = secret.choices])
    /\ UNCHANGED <<room, secret, timers, remaining, view, Around>>

\* The drawer has taken too long.
SelectTimeout(s, w) ==
    /\ s \in timers /\ s.kind = "select"
    /\ w \in secret.choices
    /\ timers' = timers \ {s}
    /\ Spawn([Handler("choose", s.player) EXCEPT !.word = w, !.choices = secret.choices])
    /\ UNCHANGED <<room, secret, remaining, view, Around>>

\* selectWord: the mutation.
SelectWord(t) ==
    /\ t.at = "choose" /\ InTurn
    /\ IF room.phase = "WORD_SELECTION" /\ CurrentDrawer = t.player
       THEN /\ room' = [room EXCEPT !.phase = "DRAWING", !.usedWords = Append(@, t.word)]
            /\ remaining' = Total
            /\ timers' = Cleared({"select"})
            /\ Becomes(t, [t EXCEPT !.at = "word", !.sock = room.socket[t.player],
                                    !.snap = Public(room')])
       ELSE Finish(t) /\ UNCHANGED <<room, remaining, timers>>
    /\ UNCHANGED <<secret, view, Around>>

\* selectWord: the word is stored.
SetWord(t) == /\ t.at = "word"
              /\ secret' = [word |-> t.word, choices |-> t.choices, revealed |-> 0]
              /\ Becomes(t, [t EXCEPT !.at = "announce"])
              /\ UNCHANGED <<room, timers, remaining, view, Around>>

\* selectWord: round:started to the room, then word:assigned to the drawer.
Announced(t, p) ==
    LET started == IF p \in Listening
                   THEN StartTurn(SetRoom(view[p], t.snap, p), MaskWord(t.word, 0))
                   ELSE view[p]
    IN IF p = t.player /\ Reaches(t.sock, p)
       THEN SetMyWord(started, t.word) ELSE started

Announce(t) ==
    /\ t.at = "announce"
    /\ view' = [p \in Players |-> Announced(t, p)]
    /\ timers' = Cleared({"draw", "hint"}) \cup {Timer("draw", Nobody, << >>)}
                 \cup {x \in {Timer("hint", Nobody, t.word)} : TotalHints(Len(t.word)) > 0}
    /\ Finish(t)
    /\ UNCHANGED <<room, secret, remaining, Around>>

\* scheduleHints: a hint is due.  The hints of a turn are counted in its secret; that this
\* is read and written in two commands is GameFlow's concern.
Hint(h) ==
    /\ h \in timers /\ h.kind = "hint"
    /\ remaining < Total
    /\ secret.choices # {}
    /\ secret' = [secret EXCEPT !.revealed = @ + 1]
    /\ view' = [p \in Players |->
                  IF p \in Listening THEN SetMasked(view[p], MaskWord(h.word, secret'.revealed))
                  ELSE view[p]]
    /\ timers' = IF secret'.revealed >= TotalHints(Len(h.word)) THEN timers \ {h} ELSE timers
    /\ UNCHANGED <<room, remaining, tasks, Around>>

Tick == /\ room.phase = "DRAWING" /\ remaining > 0
        /\ remaining' = remaining - 1
        /\ UNCHANGED <<room, secret, timers, tasks, view, Around>>

-----------------------------------------------------------------------------
(***************************************************************************)
(* Guesses and chat.                                                       *)
(***************************************************************************)
\* Two lines of a player that wait are two handlers.
Unused(p) == CHOOSE n \in 1..MaxTasks : \A t \in tasks : t.player = p => t.n # n

Typed(label, p, text) ==
    [Handler(label, p) EXCEPT
        !.n = Unused(p), !.text = text,
        !.knows = IF p \in Insiders THEN turn ELSE 0,
        !.typed = IF label = "guess" /\ room.phase = "DRAWING" /\ secret.word # << >>
                  THEN turn ELSE 0]

\* guess:submit and chat:message, of whoever is in the room.
Say(label, p, text) == /\ Cardinality(tasks) < MaxTasks
                       /\ p \in Listening
                       /\ Spawn(Typed(label, p, text))
                       /\ UNCHANGED <<room, secret, timers, remaining, live, bound, view,
                                      turn, departures, back, gone>>

SubmitGuess(p, text) == InputIsGuess(view[p]) /\ Say("guess", p, text)
SendChat(p) == Say("chat", p, << >>)

\* handleGuess reads the room: nothing is to be guessed, or not by this player...
Guess(t) ==
    /\ t.at = "guess"
    /\ IF room.phase # "DRAWING"
       THEN Finish(t) /\ Show(t, Listening)
       ELSE /\ overheard' = {}
            /\ IF t.player = CurrentDrawer \/ t.player \notin room.players \ Guessed
               THEN Finish(t)
               ELSE Becomes(t, [t EXCEPT !.at = "match", !.drawer = CurrentDrawer,
                                         !.sock = room.socket[t.player]])
    /\ UNCHANGED <<room, secret, timers, remaining, view, Around>>

\* ... then the secret.  A wrong guess goes to everybody, a close one to nobody.
Match(t) ==
    /\ t.at = "match"
    /\ LET verdict == IF secret.word = << >> THEN "wrong"
                      ELSE ClassifyGuess(t.text, secret.word)
       IN /\ Luck \/ verdict # "correct" \/ \A u \in tasks : u.at # "announce"
          /\ CASE verdict = "correct" ->
                    Becomes(t, [t EXCEPT !.at = "credit", !.word = secret.word])
               [] OTHER -> Finish(t)
          /\ IF verdict = "wrong" THEN Show(t, Listening) ELSE overheard' = {}
    /\ UNCHANGED <<room, secret, timers, remaining, view, Around>>

\* A player's first right guess counts, and how many have come before it.
Counts(p) == p \in room.players \ Guessed
GuessOrder == Cardinality(Guessed \ room.drawing)

\* handleGuess: a right guess is counted, if it is the player's first, and announced.
\* The word goes to the guesser alone.
Credit(t) ==
    LET p == t.player
        points == ScoreGuess(remaining, Total, GuessOrder, DifficultyOf[t.word])
        guessers == room'.connected \ {t.drawer}
    IN /\ t.at = "credit"
       /\ IF Counts(p)
          THEN /\ room' = [room EXCEPT !.guessed = Append(@, p),
                                       !.roundScore =
                                           [@ EXCEPT ![p] = room.roundScore[p] + points]]
               /\ view' = [q \in Players |->
                             LET v == RoomState(Public(room'))[q]
                                 w == IF q = p /\ q \in Listening THEN MarkGuessed(v) ELSE v
                             IN IF q = p /\ Reaches(t.sock, q)
                                THEN SetMyWord(MarkGuessed(w), t.word) ELSE w]
               /\ IF guessers # {} /\ \A q \in guessers : q \in Guessed \cup {p}
                  THEN /\ timers' = Cleared({"draw", "hint"})
                       /\ Becomes(t, Handler("end", Nobody))
                  ELSE Finish(t) /\ UNCHANGED timers
          ELSE Finish(t) /\ UNCHANGED <<room, view, timers>>
       /\ UNCHANGED <<secret, remaining, Around>>

\* routeChat: in a turn, what an insider says is for the insiders.
Channel == (Guessed \cup {CurrentDrawer}) \cap room.players

RouteChat(t) ==
    /\ t.at = "chat"
    /\ IF room.phase = "DRAWING" /\ t.player \in Channel
       THEN Show(t, {p \in Channel : Reaches(room.socket[p], p)})
       ELSE Show(t, Listening)
    /\ Finish(t)
    /\ UNCHANGED <<room, secret, timers, remaining, view, Around>>

-----------------------------------------------------------------------------
(***************************************************************************)
(* The turn ends, and the next one begins.                                 *)
(***************************************************************************)
\* The drawing time is over: endTurn.
DrawTimeout(d) == /\ d \in timers /\ d.kind = "draw"
                  /\ remaining = 0
                  /\ timers' = Cleared({"draw", "hint"})
                  /\ Spawn(Handler("end", Nobody))
                  /\ UNCHANGED <<room, secret, remaining, view, Around>>

\* endTurn reads the word it will reveal.
EndTurn(t) == /\ t.at = "end"
              /\ Becomes(t, [t EXCEPT !.at = "close", !.word = secret.word])
              /\ UNCHANGED <<room, secret, timers, remaining, view, Around>>

\* endTurn: the mutation, and round:ended.
CloseTurn(t) ==
    /\ t.at = "close" /\ InTurn
    /\ IF room.phase \in {"DRAWING", "WORD_SELECTION"}
       THEN /\ room' = [room EXCEPT
                  !.phase = "ROUND_END", !.drawing = @ \ {CurrentDrawer},
                  !.roundScore = [p \in Players |->
                     IF p = CurrentDrawer
                     THEN @[p] + ScoreDrawer(Cardinality(Guessed \ {CurrentDrawer}))
                     ELSE @[p]]]
            /\ view' = [p \in Players |->
                          IF p \in Listening
                          THEN EndRound(RoomState(Public(room'))[p], t.word)
                          ELSE view[p]]
            /\ Becomes(t, [t EXCEPT !.at = "wipe"])
       ELSE Finish(t) /\ UNCHANGED <<room, view>>
    /\ UNCHANGED <<secret, timers, remaining, Around>>

\* endTurn: the secret is dropped, and the pause begins.
Wipe(t) == /\ t.at = "wipe"
           /\ secret' = NoSecret
           /\ timers' = Cleared({"roundEnd"}) \cup {Timer("roundEnd", Nobody, << >>)}
           /\ Finish(t)
           /\ UNCHANGED <<room, remaining, view, Around>>

\* The pause is over: advanceTurn.  It takes six seconds, which no handler does.
RoundEndTimeout(s) == /\ s \in timers /\ s.kind = "roundEnd"
                      /\ turn < MaxTurns
                      /\ tasks = {}
                      /\ timers' = timers \ {s}
                      /\ Spawn(Handler("advance", Nobody))
                      /\ UNCHANGED <<room, secret, remaining, view, Around>>

\* advanceTurn within the round.
AdvanceTurn(t) ==
    /\ t.at = "advance"
    /\ IF room.turnPointer + 1 < Len(room.drawOrder)
       THEN /\ room' = [room EXCEPT !.turnPointer = @ + 1]
            /\ Becomes(t, [t EXCEPT !.at = "begin"])
       ELSE Finish(t) /\ UNCHANGED room
    /\ UNCHANGED <<secret, timers, remaining, view, Around>>

-----------------------------------------------------------------------------
(***************************************************************************)
(* Connections are lost and come back, players are removed.                *)
(***************************************************************************)
\* The server notices a lost connection: markDisconnected.
Lose(p) == /\ departures < MaxDepartures
           /\ p \in Listening
           /\ InTurn
           /\ departures' = departures + 1
           /\ live' = [live EXCEPT ![p] = 0]
           /\ bound' = bound \ {p}
           /\ room' = [room EXCEPT !.connected = @ \ {p}]
           /\ view' = [RoomState(Public(room)) EXCEPT ![p] = view[p]]
           /\ UNCHANGED <<secret, timers, remaining, tasks, turn, back, gone>>

\* The page reconnects and sends session:resume.
Reconnect(p) == /\ live[p] = 0
                /\ InTurn
                /\ live' = [live EXCEPT ![p] = departures + 1]
                /\ back' = back \cup {p}
                /\ Spawn(Handler("rejoin", p))
                /\ UNCHANGED <<room, secret, timers, remaining, bound, view, turn,
                               departures, gone>>

\* join(): the mutation.
Rejoin(t) ==
    /\ t.at = "rejoin"
    /\ room' = [room EXCEPT !.players = @ \cup {t.player}, !.connected = @ \cup {t.player},
                            !.socket = [@ EXCEPT ![t.player] = live[t.player]]]
    /\ Becomes(t, [t EXCEPT !.at = "bind", !.snap = Public(room')])
    /\ UNCHANGED <<secret, timers, remaining, view, Around>>

\* bindToRoom.
Bind(t) == /\ t.at = "bind"
           /\ bound' = bound \cup {t.player}
           /\ Becomes(t, [t EXCEPT !.at = "resume"])
           /\ UNCHANGED <<room, secret, timers, remaining, live, view, turn, departures,
                          back, gone>>

\* currentTurnPublic, room:updated, and the answer to session:resume.
Resume(t) ==
    /\ t.at = "resume"
    /\ view' = [p \in Players |->
                  LET v == RoomState(t.snap)[p]
                  IN IF p = t.player /\ room.phase # "ROUND_END"
                     THEN StartTurn(v, MaskWord(secret.word, secret.revealed)) ELSE v]
    /\ Finish(t)
    /\ UNCHANGED <<room, secret, timers, remaining, Around>>

\* removePlayer, for room:leave or an expired grace window.  Two connected players
\* are left: with fewer the game ends.
Remove(p) ==
    /\ departures < MaxDepartures
    /\ p \in room.players /\ Cardinality(room.connected \ {p}) >= 2
    /\ \A t \in tasks : t.player = p => t.at \notin {"rejoin", "bind", "resume"}
    /\ Shifts \/ \A i \in 1..(room.turnPointer + 1) :
                    i \in DOMAIN room.drawOrder => room.drawOrder[i] # p
    /\ InTurn
    /\ Overlap \/ \A t \in tasks : t.player # p
    /\ room' = [room EXCEPT !.players = @ \ {p}, !.connected = @ \ {p},
                            !.drawOrder = Without(@, p), !.drawing = @ \ {p},
                            !.guessed = Without(@, p),
                            !.roundScore = [@ EXCEPT ![p] = 0]]
    /\ bound' = bound \ {p}
    /\ departures' = departures + 1
    /\ gone' = gone \cup {p}
    /\ Spawn([Handler("left", p) EXCEPT !.snap = Public(room')])
    /\ UNCHANGED <<secret, timers, remaining, live, view, turn, back>>

\* room:updated.  The one who is gone draws no more, so that onPlayerGone does nothing.
Left(t) == /\ t.at = "left"
           /\ view' = RoomState(t.snap)
           /\ Finish(t)
           /\ UNCHANGED <<room, secret, timers, remaining, Around>>

-----------------------------------------------------------------------------
\* startGame has written the room and told the pages: game:started.
Init ==
    /\ room = [phase |-> "WORD_SELECTION", players |-> Players, connected |-> Players,
               drawOrder |-> FirstOrder, turnPointer |-> 0, drawing |-> {},
               guessed |-> << >>, roundScore |-> [p \in Players |-> 0],
               usedWords |-> << >>, socket |-> [p \in Players |-> 1]]
    /\ secret = NoSecret
    /\ timers = {}
    /\ remaining = 0
    /\ tasks = {Handler("begin", Nobody)}
    /\ live = [p \in Players |-> 1]
    /\ bound = Players
    /\ view = [p \in Players |->
                 ResetTurn([phase |-> room.phase, pen |-> FALSE, mask |-> << >>,
                            myWord |-> Null, guessed |-> FALSE, choices |-> FALSE])]
    /\ turn = 0 /\ departures = 0
    /\ back = {} /\ gone = {} /\ overheard = {}

Speech(t) == Guess(t) \/ Match(t) \/ RouteChat(t)

Silent(t) == \/ BeginTurn(t) \/ Deal(t) \/ SelectWord(t) \/ SetWord(t) \/ Announce(t)
             \/ Credit(t) \/ EndTurn(t) \/ CloseTurn(t) \/ Wipe(t) \/ AdvanceTurn(t)
             \/ Rejoin(t) \/ Bind(t) \/ Resume(t) \/ Left(t)

Event == \/ \E x \in timers : \/ \E w \in Words : SelectTimeout(x, w)
                              \/ Hint(x) \/ DrawTimeout(x) \/ RoundEndTimeout(x)
         \/ \E p \in Players : \/ \E w \in Words : ChooseWord(p, w)
                               \/ \E g \in Guesses : SubmitGuess(p, g)
                               \/ SendChat(p) \/ Lose(p) \/ Reconnect(p) \/ Remove(p)
         \/ Tick

Next == \/ \E t \in tasks : Speech(t)
        \/ (Event \/ \E t \in tasks : Silent(t)) /\ overheard' = {}

Spec == Init /\ [][Next]_vars

-----------------------------------------------------------------------------
(***************************************************************************)
(* Properties.                                                             *)
(***************************************************************************)
View == [phase : Phases, pen : BOOLEAN, mask : Seq(STRING \cup {Blank}),
         myWord : Word \cup {Null}, guessed : BOOLEAN, choices : BOOLEAN]

\* The record and the secret are well formed, and agree: who draws and who has guessed
\* is a player, and counted once, and the word that is set is one that counts as used
\* (game.service.ts:111-219, types in game.types.ts).
TypeOK ==
    /\ room \in Room /\ secret \in Secret
    /\ timers \subseteq Timers /\ remaining \in 0..Total
    /\ tasks \subseteq Task
    /\ live \in [Players -> Sockets] /\ bound \subseteq Players
    /\ view \in [Players -> View]
    /\ turn \in Turns /\ departures \in 0..MaxDepartures
    /\ back \subseteq Players /\ gone \subseteq Players
    /\ SoundFor(room.drawOrder, room.players) /\ SoundFor(room.guessed, room.players)
    /\ secret.word \in Used \cup {<< >>}

\* What somebody said who knew the word of a turn reaches nobody who is still
\* guessing it, whichever event he sent and whatever happened while his line waited
\* (game.gateway.ts:442-474, game.service.ts:264-270).
SecretKept == \A line \in overheard : line.knows # turn

\* A guess that is right, or wrong by one letter, is shown to nobody who is still
\* guessing (game.service.ts:275-284, scoring/index.ts:110-139).  A guess typed before
\* the turn was announced is not meant: it may be right by luck, and is chat.
Without1(w, i) == SubSeq(w, 1, i - 1) \o SubSeq(w, i + 1, Len(w))
OneEdit(g, w) ==
    \/ Len(g) = Len(w) /\ Cardinality({i \in DOMAIN w : g[i] # w[i]}) <= 1
    \/ Len(g) = Len(w) + 1 /\ \E i \in DOMAIN g : w = Without1(g, i)
    \/ Len(w) = Len(g) + 1 /\ \E i \in DOMAIN w : g = Without1(w, i)
Telling(g, w) == g = w \/ (Len(w) >= 4 /\ OneEdit(g, w))

NearMissPrivate == \A line \in overheard :
                      line.typed = turn => ~Telling(line.text, CurrentWord)

\* Whoever guesses earlier earns more, whoever else guesses at the same time: more while
\* the order bonus still falls and nobody has been removed in the turn, and at least as much
\* when one player has been (game.service.ts:291-310, scoring/index.ts:51-64).  With two who
\* have guessed gone, the next guess takes a place before one that has been paid.
EarlierPaysMore ==
    \A i, j \in DOMAIN room.guessed :
        LET earlier == room.roundScore[room.guessed[i]]
            later   == room.roundScore[room.guessed[j]]
        IN i < j => /\ (\A p, q \in gone : p = q) => earlier >= later
                    /\ (i <= Len(GuessOrderBonus) /\ gone = {}) => earlier > later

\* When no handler is in flight, the page of everybody in the room shows his part in the
\* turn: the phase, the pen, and the way his input takes; and, unless he has come back
\* during the turn, the choices to the one who has to choose, the word to whoever
\* knows it, and blanks to the others (RoomPage.tsx:61-83, game.service.ts:152-211).
ScreenTrue ==
    tasks = {} => \A p \in Listening \cap room.players :
        LET v == view[p]
            knows == p \in room.drawing \cup Guessed
        IN /\ v.phase = room.phase
           /\ v.pen <=> (p \in room.drawing)
           /\ p \notin back =>
                 /\ OffersChoices(v) <=> (room.phase = "WORD_SELECTION" /\ p \in room.drawing)
                 /\ room.phase = "DRAWING" =>
                       /\ InputIsGuess(v) <=> ~knows
                       /\ (WordDisplay(v) = CurrentWord) <=> knows
           /\ (room.phase = "DRAWING" /\ ~knows) => WordDisplay(v) # CurrentWord
=============================================================================
