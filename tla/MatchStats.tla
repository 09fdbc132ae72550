----------------------------- MODULE MatchStats -----------------------------
(***************************************************************************)
(* In-match statistics: the start list of a game, the STAT reports of its  *)
(* players (match.Service.UpdateStat) and the endgame line.  A player      *)
(* record outlives its match: only a new try_enter replaces it.            *)
(*                                                                         *)
(* "game" is what the client's game really holds; a report carries it      *)
(* through fields of 16 bits (Wire values) and 32 bits (Word values).      *)
(***************************************************************************)
EXTENDS Integers, SequencesExt, FiniteSetsExt

CONSTANTS
    Player,         \* player ids
    Host,           \* the host of the room
    NoStat,         \* Player.Stat == nil
    Wire,           \* 0x10000: values of a 16-bit field of a STAT
    Word,           \* 2^32: values of a uint32
    Window,         \* intervals: the rolling window of each series
    StartLists,     \* bound: the start lists a host sends
    TimeSteps,      \* bound: ticks between two reports
    CountSteps,     \* bound: peasants, units made between two reports
    ScoreSteps,     \* bound: score change between two reports
    Populations,    \* bound: what the population may be
    Stores,         \* bound: the stocks of resources, [Resource -> Nat]
    Reporters,      \* bound: the players that send STATs
    MaxTime,        \* bound: the last tick of a game
    MaxReports,     \* bound: the reports a player sends in a game
    MaxMatch        \* bound: games played by one player

Resource == {"wood", "gold", "stone", "food", "iron", "coal"}
Series == {"wood", "food", "stone", "peasants", "units", "population2"}

ASSUME StatsAssumption ==
    /\ Host \in Player
    /\ Reporters \subseteq Player
    /\ Wire \in Nat /\ Wire > 1 /\ Word \in Nat /\ Word % Wire = 0
    /\ Window \in [Series -> 1 .. Word - 1]
    /\ CountSteps \subseteq 0 .. Wire - 1
    /\ ScoreSteps \subseteq -(Wire \div 2 - 1) .. Wire \div 2 - 1

(* The game on the client: its clock never runs back and stays within 32   *)
(* bits, and its population fits the field of a report.                    *)
ASSUME GameAssumption ==
    /\ TimeSteps \subseteq Nat /\ MaxTime \in Nat /\ MaxTime < Word
    /\ Populations \subseteq 0 .. Wire - 1
    /\ \A res \in Stores : \A r \in Resource : res[r] \in Nat

VARIABLES
    rec,        \* the player records of the members, [Player -> record]
    room,       \* Room.TimeTick, Room.StartedUsers
    game,       \* client side: the state of each player's game
    match,      \* games each record has seen
    posted,     \* players of the last start payload posted to the account
    last        \* last command handled and its outcome

vars == <<rec, room, game, match, posted, last>>

NoCycle == [peasants |-> 0, units |-> 0, scores |-> 0]

(* A record fresh from try_enter.                                          *)
FreshPlayer ==
    [timeTick |-> 0, theam |-> 0, color |-> 0, zombie |-> FALSE,
     stat |-> NoStat, cycle |-> NoCycle,
     history |-> [s \in Series |-> <<>>], sum |-> [s \in Series |-> 0]]

NewRoom == [timeTick |-> 0, startedUsers |-> <<>>]

(* A game that begins.  base is the loss count and the multiple of Wire    *)
(* the score was off at the player's first STAT.                           *)
NewGame == [time |-> 0, peasants |-> 0, units |-> 0, scores |-> 0,
            population |-> 0, sent |-> 0, base |-> NoStat]

Init ==
    /\ rec = [p \in Player |-> FreshPlayer]
    /\ room = NewRoom
    /\ game = [p \in Player |-> NewGame]
    /\ match = [p \in Player |-> 1]
    /\ posted = <<>>
    /\ last = [cmd |-> "none", player |-> Host, result |-> "none"]

----------------------------------------------------------------------------
(* The start list                                                          *)

(* MUTANT: the list is cut after count tuples, the skipped ones included.  *)
StartedByPosition(list, count) ==
    SelectSeq(SubSeq(list, 1, Min({count, Len(list)})),
              LAMBDA t : t.ok /\ t.id \in Player)

(* The tuples ApplyStartedUsers takes: well formed ones of members, until  *)
(* count are taken.                                                        *)
StartedTuples(list, count) ==
    LET known == SelectSeq(list, LAMBDA t : t.ok /\ t.id \in Player)
    IN  SubSeq(known, 1, Min({count, Len(known)}))

(* ApplyStartedUsers: later tuples of a player overwrite earlier ones.     *)
ApplyStartedUsers(records, list, count) ==
    LET ts == StartedTuples(list, count)
        of(p) == {i \in DOMAIN ts : ts[i].id = p}
    IN  [p \in Player |->
            IF of(p) = {} THEN records[p]
            ELSE [records[p] EXCEPT !.theam = ts[Max(of(p))].theam,
                                    !.color = ts[Max(of(p))].color]]

(* The ids of the payload's players: well formed tuples, known or lost.    *)
PayloadPlayers(list, count) ==
    LET parsed == SelectSeq(list, LAMBDA t : t.ok)
        taken == SubSeq(parsed, 1, Min({count, Len(parsed)}))
    IN  [i \in DOMAIN taken |-> taken[i].id]

(* The host's start command: nothing but the state change of Lobby.tla     *)
(* happens without a positive count.                                       *)
Start(l) ==
    /\ l \in StartLists
    /\ last' = [cmd |-> "start", player |-> Host, result |-> "ok"]
    /\ IF l.count > 0
       THEN /\ rec' = ApplyStartedUsers(rec, l.list, l.count)
            /\ room' = [room EXCEPT !.startedUsers =
                   LET ts == StartedTuples(l.list, l.count)
                   IN  [i \in DOMAIN ts |-> ts[i].id]]
            /\ posted' = PayloadPlayers(l.list, l.count)
       ELSE UNCHANGED <<rec, room, posted>>
    /\ UNCHANGED <<game, match>>

----------------------------------------------------------------------------
(* The STAT report                                                         *)

(* DecodeStat: the fields of the payload at their widths.                  *)
DecodeStat(g, res) ==
    [time |-> g.time % Word, scores |-> g.scores % Wire,
     population |-> g.population % Wire, peasants |-> g.peasants % Wire,
     units |-> g.units % Wire, res |-> [r \in Resource |-> res[r] % Word]]

(* OldStat: the previous sample, or one without past made of this one.     *)
OldStat(prev, w) ==
    IF prev # NoStat THEN prev
    ELSE [time |-> 0, scores |-> w.scores, population |-> w.population,
          peasants |-> w.peasants, units |-> w.units, res |-> w.res,
          population2 |-> (w.units + w.peasants) % Word, casuality |-> 0]

(* Overflows of a 16-bit counter that only grows; old is unwrapped.        *)
CountCycle(w, old, cyc) ==
    IF w < (old - cyc * Wire) % Word THEN cyc + 1 ELSE cyc

(* The counter with its overflows, a uint32.                               *)
Unwrap(w, cyc) == (w + cyc * Wire) % Word

(* Service.AbsI64                                                          *)
AbsI64(v) == IF v < 0 THEN -v ELSE v

(* MUTANT: scores only ever overflow upwards.                              *)
ScoreCycleUp(w, old, cyc) ==
    IF AbsI64(w - old) > Wire \div 2 - 1 THEN cyc + 1 ELSE cyc

(* Overflows of the 16-bit score, which moves both ways.                   *)
ScoreCycle(w, old, cyc) ==
    IF AbsI64(w - old) <= Wire \div 2 - 1 THEN cyc
    ELSE IF w > old THEN cyc - 1 ELSE cyc + 1

(* max(1, time since the player's last sample)                             *)
Interval(time, tick) == IF time = tick THEN 1 ELSE (time - tick) % Word

(* The history with the new point.                                         *)
WithPoint(h, cur, prev, time, interval) ==
    Append(h, [change |-> cur - prev, time |-> time, interval |-> interval])

(* How many points at the head are older than the uint32 cutoff.           *)
Expired(h, time, window) ==
    Cardinality({i \in DOMAIN h :
        \A j \in 1 .. i : h[j].time < (time - window) % Word})

(* The changes of the first n points together.                             *)
Changes(h) ==
    LET total[n \in 0 .. Len(h)] ==
            IF n = 0 THEN 0 ELSE total[n - 1] + h[n].change
    IN  total

(* MUTANT: the changes of expired points stay in the sum.                  *)
RollLeaky(h, sum, cur, prev, time, interval, window) ==
    LET all == WithPoint(h, cur, prev, time, interval)
        n == Expired(all, time, window)
    IN  [history |-> SubSeq(all, n + 1, Len(all)), sum |-> sum + (cur - prev)]

(* updateRolling: append the point, drop the expired head and its changes. *)
Roll(h, sum, cur, prev, time, interval, window) ==
    LET all == WithPoint(h, cur, prev, time, interval)
        n == Expired(all, time, window)
    IN  [history |-> SubSeq(all, n + 1, Len(all)),
         sum |-> (sum + (cur - prev)) - Changes(all)[n]]

(* A rate: the change over the window and the ticks it took.               *)
Rate(h, sum, time) ==
    IF h = <<>> THEN <<0, 1>>
    ELSE <<sum, Max({1, (time - (Head(h).time - Head(h).interval)) % Word})>>

(* Made and no longer alive: both differences are taken in uint32.         *)
Casuality(made, old, w) ==
    old.casuality + ((made - old.population2) % Word)
                  - ((w.population - old.population) % Word)

(* Zombie: a first sample without scores and population takes the colour   *)
(* of the first other player of the team in StartedUsers.                  *)
TeamMates(p) ==
    SelectSeq(room.startedUsers,
              LAMBDA q : q # p /\ rec[q].theam = rec[p].theam)

IsZombie(p, w) ==
    /\ rec[p].stat = NoStat
    /\ w.scores = 0
    /\ w.population = 0
    /\ TeamMates(p) # <<>>

(* The overflows of the three fields, with those of this report.           *)
NextCycle(cycle, old, w) ==
    [peasants |-> CountCycle(w.peasants, old.peasants, cycle.peasants),
     units |-> CountCycle(w.units, old.units, cycle.units),
     scores |-> ScoreCycle(w.scores, old.scores, cycle.scores)]

(* The report made good: what the record keeps, its rates still to come.   *)
Sample(w, old, cyc) ==
    LET peasants == Unwrap(w.peasants, cyc.peasants)
        units == Unwrap(w.units, cyc.units)
        made == (units + peasants) % Word
    IN  [time |-> w.time, scores |-> w.scores,
         realScores |-> cyc.scores * Wire + w.scores,
         population |-> w.population, peasants |-> peasants, units |-> units,
         population2 |-> made, casuality |-> Casuality(made, old, w),
         res |-> w.res, rate |-> <<>>]

Reading(stat, s) == IF s \in Resource THEN stat.res[s] ELSE stat[s]

(* The part of UpdateStat after its rejections: the new player record.     *)
ApplyStat(p, w) ==
    LET r == rec[p]
        old == OldStat(r.stat, w)
        cyc == NextCycle(r.cycle, old, w)
        new == Sample(w, old, cyc)
        interval == Interval(w.time, r.timeTick)
        rolled == [s \in Series |->
                      Roll(r.history[s], r.sum[s], Reading(new, s), Reading(old, s),
                           w.time, interval, Window[s])]
        rate == [s \in Series \cup Resource |->
                    IF s \in Series
                    THEN Rate(rolled[s].history, rolled[s].sum, w.time)
                    ELSE <<w.res[s] - old.res[s], interval>>]
    IN  [r EXCEPT !.zombie = @ \/ IsZombie(p, w),
                  !.color = IF IsZombie(p, w) THEN rec[Head(TeamMates(p))].color
                            ELSE @,
                  !.cycle = cyc,
                  !.history = [s \in Series |-> rolled[s].history],
                  !.sum = [s \in Series |-> rolled[s].sum],
                  !.timeTick = w.time,
                  !.stat = [new EXCEPT !.rate = rate]]

(* MUTANT: a sample of the player's own tick is refused.                   *)
TickAcceptedStrict(r, w) == r.timeTick < w.time

(* Not StatRejectTickAhead.                                                *)
TickAccepted(r, w) == r.timeTick <= w.time

(* Room.TimeTick: the latest tick any member reported.                     *)
RoomTick(tick, w) == Max({tick, w.time})

(* The game of p at its next report: what the client counted since.        *)
Played(g, dt, dp, du, ds, pop) ==
    [g EXCEPT !.time = @ + dt, !.peasants = @ + dp, !.units = @ + du,
              !.scores = @ + ds, !.population = pop, !.sent = @ + 1,
              !.base = IF @ # NoStat THEN @
                       ELSE [losses |-> g.peasants + dp + g.units + du - pop,
                             scores |-> ((g.scores + ds) % Wire) - (g.scores + ds)]]

(* A STAT of a member, at the tick its game has reached.  The room's clock *)
(* moves before the player's own tick decides whether the sample counts.   *)
Stats(p, dt, dp, du, ds, pop, res) ==
    LET g == Played(game[p], dt, dp, du, ds, pop)
        w == DecodeStat(g, res)
        applied == TickAccepted(rec[p], w)
    IN  /\ g.time <= MaxTime
        /\ g.sent <= MaxReports
        /\ room' = [room EXCEPT !.timeTick = RoomTick(@, w)]
        /\ rec' = IF applied THEN [rec EXCEPT ![p] = ApplyStat(p, w)] ELSE rec
        /\ game' = [game EXCEPT ![p] = g]
        /\ last' = [cmd |-> "stats", player |-> p,
                    result |-> IF applied THEN "applied" ELSE "tick_ahead"]
        /\ UNCHANGED <<match, posted>>

(* A STAT that is refused before the tick is looked at: too short, no      *)
(* session, unknown room, not a member, or another player's id.            *)
StatsRefused(p) ==
    /\ last' = [cmd |-> "stats", player |-> p, result |-> "refused"]
    /\ UNCHANGED <<rec, room, game, match, posted>>

(* ParseEndgame: how the event speaks of the game to its sender.  A player *)
(* or a room that does not resolve is no error.                            *)
EndgameEvent(sender, roomFound) ==
    IF roomFound /\ sender = Host THEN "own" ELSE "other"

(* The endgame command only writes a line to the log: the event is kept    *)
(* nowhere.                                                                *)
Endgame(p, roomFound) ==
    /\ last' = [cmd |-> "endgame", player |-> p,
                result |-> EndgameEvent(p, roomFound)]
    /\ UNCHANGED <<rec, room, game, match, posted>>

(* The members meet again in a new room: a new clock and a new start list, *)
(* but the same player records, except for those who entered anew.         *)
NextMatch(anew) ==
    /\ \A p \in Player : match[p] < MaxMatch
    /\ rec' = [p \in Player |-> IF p \in anew THEN FreshPlayer ELSE rec[p]]
    /\ match' = [p \in Player |-> IF p \in anew THEN 1 ELSE match[p] + 1]
    /\ room' = NewRoom
    /\ game' = [p \in Player |-> NewGame]
    /\ posted' = <<>>
    /\ last' = [last EXCEPT !.cmd = "none"]

Report(p) ==
    \E dt \in TimeSteps, dp \in CountSteps, du \in CountSteps,
       ds \in ScoreSteps, pop \in Populations, res \in Stores :
        Stats(p, dt, dp, du, ds, pop, res)

Next ==
    \/ \E l \in StartLists : Start(l)
    \/ \E p \in Reporters : Report(p) \/ StatsRefused(p)
    \/ \E p \in Reporters, found \in BOOLEAN : Endgame(p, found)
    \/ \E anew \in SUBSET Player : NextMatch(anew)

Spec == Init /\ [][Next]_vars

----------------------------------------------------------------------------
(* Properties                                                              *)

(* p's sample is from the first game its record has seen.                  *)
FirstMatch(p) == match[p] = 1 /\ rec[p].stat # NoStat

(* The peasants and units kept for a player are those of its game, however *)
(* often the 16-bit fields of its reports have overflowed (uint32).        *)
CountersUnwrapped ==
    \A p \in Player : FirstMatch(p) =>
        /\ rec[p].stat.peasants = game[p].peasants % Word
        /\ rec[p].stat.units = game[p].units % Word

(* The scores shown follow the game's scores through every overflow and    *)
(* underflow of the 16-bit field after the first sample.                   *)
ScoresUnwrapped ==
    \A p \in Player : FirstMatch(p) =>
        rec[p].stat.realScores = game[p].scores + game[p].base.scores

(* Casualties are what was made and is not alive any more, since the first *)
(* sample and modulo 2^32 (the two differences are taken in uint32).       *)
CasualityCountsLosses ==
    \A p \in Player : FirstMatch(p) =>
        LET g == game[p]
        IN  (rec[p].stat.casuality - (g.peasants + g.units - g.population - g.base.losses))
            % Word = 0

(* What is kept and shown of a player is what happened in its game, though *)
(* reports carry 16 bits of it.                                            *)
StatsFollowGame == CountersUnwrapped /\ ScoresUnwrapped /\ CasualityCountsLosses

(* A rolling history holds consecutive samples of its window, none at all  *)
(* before the window has passed once, and its sum is their changes.        *)
RollingSumsExact ==
    \A p \in Player, s \in Series :
        LET h == rec[p].history[s]
            tick == rec[p].timeTick
        IN  /\ rec[p].sum[s] = Changes(h)[Len(h)]
            /\ h # <<>> => tick >= Window[s] /\ Last(h).time = tick
            /\ \A i \in DOMAIN h :
                /\ h[i].time >= tick - Window[s]
                /\ i > 1 => h[i].interval = Interval(h[i].time, h[i - 1].time)

(* A rate divides by the ticks its samples cover: at least those since the *)
(* oldest sample, at most the window and the step that led into it.        *)
RatesCoverWindow ==
    \A p \in Player, s \in Series : rec[p].stat # NoStat =>
        LET h == rec[p].history[s]
            den == rec[p].stat.rate[s][2]
        IN  h # <<>> => /\ den <= Window[s] + Head(h).interval
                        /\ den >= rec[p].timeTick - Head(h).time + Head(h).interval

(* The rolling figures: sums and rates are those of the window.            *)
RollingExact == RollingSumsExact /\ RatesCoverWindow

(* Only a player who kept its record from an earlier game has samples      *)
(* refused because its tick is ahead.                                      *)
TickAheadOnlyCarriedOver ==
    last.cmd = "stats" /\ last.result = "tick_ahead" => match[last.player] > 1

(* The clock of the room is the latest tick a member has reported, samples *)
(* that were refused as behind included.                                   *)
RoomClockLatest == room.timeTick = Max({game[p].time : p \in Player})

(* The two clocks: no member runs ahead of its own game, and the room is   *)
(* never behind a member.                                                  *)
TicksInStep == TickAheadOnlyCarriedOver /\ RoomClockLatest

(* The players shown as started are the members among those posted to the  *)
(* account endpoint, in the same order.                                    *)
StartedArePosted ==
    room.startedUsers = SelectSeq(posted, LAMBDA q : q \in Player)

(* commands/README.md: endgame "updates per-player stats".                 *)
EndgameUpdatesStats == [][last'.cmd = "endgame" => rec' # rec]_vars
=============================================================================
