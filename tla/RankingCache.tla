---------------------------- MODULE RankingCache ----------------------------
(***************************************************************************)
(* The ranking and tournament pages read two JSON files that somebody else *)
(* writes, and keep what they parsed under the file's modification time in *)
(* seconds.  Locked = FALSE is ranking.Cache, which the server uses from   *)
(* every connection without a lock: three stores one after another.        *)
(* Locked = TRUE is rankingfile.Provider, which commits under its mutex    *)
(* and reads again before it answers.  The operating system may run other  *)
(* requests and the file's writer between any two steps.                   *)
(***************************************************************************)
EXTENDS Integers, FiniteSets

CONSTANTS
    Locked,         \* which of the two implementations
    Loaders,        \* requests under way
    Routes,         \* bound: the routes the requests take
    Kinds,          \* bound: for each file the kinds of content
    Moved,          \* bound: the files that may be moved away and back
    MaxVer,         \* bound: how often a file is written
    MaxSec          \* bound: seconds

VARIABLES
    sec,        \* the clock the file system stamps files with, in seconds
    file,       \* [exists, mtime, ver, kind, fresh]; fresh: the write before it
                \* was in an earlier second
    cache,      \* [mtime, data] of each file
    place,      \* lcnPlaceByID
    loader,     \* local state of each request
    shown       \* what the latest page of each request was made of

vars == <<sec, file, cache, place, loader, shown>>

Files == {"lcn", "gg"}

(* A nil map and the sentinel of a missing tournament file.                *)
NoData == [ver |-> 0, kind |-> "nil"]
WoInfo == [ver |-> 0, kind |-> "wo_info"]
NoPlaces == [ver |-> 0, place |-> 0]

(* A request at rest; since: history, the version a page may not be older  *)
(* than.                                                                   *)
Idle == [pc |-> "idle", route |-> "", mtime |-> 0, data |-> NoData, since |-> 0]

Init ==
    /\ sec = 1
    /\ file = [f \in Files |-> [exists |-> FALSE, mtime |-> 0, ver |-> 0,
                                kind |-> "bad", fresh |-> TRUE]]
    /\ cache = [f \in Files |-> [mtime |-> 0, data |-> NoData]]
    /\ place = NoPlaces
    /\ loader = [l \in Loaders |-> Idle]
    /\ shown = [l \in Loaders |-> [route |-> "", data |-> NoData, since |-> 0]]

----------------------------------------------------------------------------
(* The kinds of content: a ranking whose places are numbers (ranked) or    *)
(* strings (text), JSON without one (plain), a tournament with supporters  *)
(* (cup) or without (bare), a tournament with wo_info given as the string  *)
(* "true" (wo_text) or as the number 1 (wo_num), and what does not parse.  *)
Parses(kind) == kind \notin {"bad", "empty"}

Content(f) == [ver |-> file[f].ver, kind |-> file[f].kind]

(* What a reload makes of the file: LoadLCN returns without a change when  *)
(* nothing could be parsed, LoadGGCup keeps the sentinel.                  *)
Parsed(f) ==
    IF file[f].exists /\ Parses(file[f].kind) THEN Content(f)
    ELSE IF f = "gg" THEN WoInfo ELSE NoData

(* The place index ranking.Cache builds: a place that is a string counts   *)
(* as zero.                                                                *)
CacheIndex(data) ==
    CASE data.kind = "ranked" -> [ver |-> data.ver, place |-> 1]
      [] data.kind = "text" -> [ver |-> data.ver, place |-> 0]
      [] OTHER -> NoPlaces

(* buildLCNPlaceIndex of rankingfile: a string is converted.               *)
ProviderIndex(data) ==
    IF data.kind \in {"ranked", "text"} THEN [ver |-> data.ver, place |-> 1]
    ELSE NoPlaces

PlaceIndex(data) == IF Locked THEN ProviderIndex(data) ELSE CacheIndex(data)

----------------------------------------------------------------------------
(* The writer of the files.                                                *)
Write(f, kind) ==
    /\ file[f].ver < MaxVer
    /\ file' = [file EXCEPT ![f] = [exists |-> TRUE, mtime |-> sec,
                                    ver |-> @.ver + 1, kind |-> kind,
                                    fresh |-> @.mtime # sec]]
    /\ UNCHANGED <<sec, cache, place, loader, shown>>

MoveAway(f) ==
    /\ file[f].exists
    /\ file' = [file EXCEPT ![f].exists = FALSE]
    /\ UNCHANGED <<sec, cache, place, loader, shown>>

MoveBack(f) ==
    /\ ~ file[f].exists /\ file[f].ver > 0
    /\ file' = [file EXCEPT ![f].exists = TRUE]
    /\ UNCHANGED <<sec, cache, place, loader, shown>>

Tick ==
    /\ sec < MaxSec
    /\ sec' = sec + 1
    /\ UNCHANGED <<file, cache, place, loader, shown>>

----------------------------------------------------------------------------
RouteFile(route) ==
    IF route \in {"tournaments", "user_details"} THEN "lcn" ELSE "gg"

FileOf(l) == RouteFile(loader[l].route)

(* MUTANT: whatever was loaded once is kept.                               *)
CachedForever(f) == cache[f].data # NoData

(* A loaded map is kept as long as the file has the time it was read under.*)
Cached(f) == cache[f].data # NoData /\ cache[f].mtime = file[f].mtime

(* What a file that cannot be found leaves of the cache.                   *)
Dropped(f) ==
    IF f = "gg" THEN WoInfo ELSE IF Locked THEN NoData ELSE cache[f].data

(* The version the file holds when a request begins; 0 when its last two   *)
(* writes fell in one second, which the modification time cannot tell.     *)
Since(f) == IF file[f].fresh THEN Parsed(f).ver ELSE 0

(* A request begins: os.Stat.  A missing file is answered at once, without *)
(* touching the modification time kept.                                    *)
Stat(l, route) ==
    LET f == RouteFile(route)
        st == [Idle EXCEPT !.route = route, !.since = Since(f)] IN
    /\ loader[l].pc = "idle"
    /\ \/ /\ ~ file[f].exists
          /\ cache' = [cache EXCEPT ![f].data = Dropped(f)]
          /\ place' = IF f = "lcn" /\ Locked THEN NoPlaces ELSE place
          /\ loader' = [loader EXCEPT ![l] =
                [st EXCEPT !.pc = "answer",
                           !.data = IF f = "gg" THEN WoInfo ELSE NoData]]
       \/ /\ file[f].exists /\ Cached(f)
          /\ loader' = [loader EXCEPT ![l] =
                [st EXCEPT !.pc = "answer", !.data = cache[f].data]]
          /\ UNCHANGED <<cache, place>>
       \/ /\ file[f].exists /\ ~ Cached(f)
          /\ loader' = [loader EXCEPT ![l] =
                [st EXCEPT !.pc = "read", !.mtime = file[f].mtime]]
          /\ UNCHANGED <<cache, place>>
    /\ UNCHANGED <<sec, file, shown>>

(* os.ReadFile and json.Unmarshal.                                         *)
Read(l) ==
    LET f == FileOf(l)
        next == IF Parsed(f) = NoData THEN "answer"
                ELSE IF Locked THEN "commit"
                ELSE IF f = "lcn" THEN "place" ELSE "mtime" IN
    /\ loader[l].pc = "read"
    /\ loader' = [loader EXCEPT ![l].pc = next, ![l].data = Parsed(f)]
    /\ UNCHANGED <<sec, file, cache, place, shown>>

(* MUTANT: the time is taken after the file was read.                      *)
KeyAfterRead(l) == IF FileOf(l) = "lcn" THEN file["lcn"].mtime ELSE loader[l].mtime

(* The modification time the result is kept under: the one from before     *)
(* the file was read.                                                      *)
Key(l) == loader[l].mtime

(* Provider: everything under the mutex.                                   *)
Commit(l) ==
    /\ loader[l].pc = "commit"
    /\ cache' = [cache EXCEPT ![FileOf(l)] = [mtime |-> Key(l), data |-> loader[l].data]]
    /\ place' = IF FileOf(l) = "lcn" THEN PlaceIndex(loader[l].data) ELSE place
    /\ loader' = [loader EXCEPT ![l].pc = "answer"]
    /\ UNCHANGED <<sec, file, shown>>

(* Cache: one store after another.                                         *)
StorePlace(l) ==
    /\ loader[l].pc = "place"
    /\ place' = PlaceIndex(loader[l].data)
    /\ loader' = [loader EXCEPT ![l].pc = "mtime"]
    /\ UNCHANGED <<sec, file, cache, shown>>

StoreMTime(l) ==
    /\ loader[l].pc = "mtime"
    /\ cache' = [cache EXCEPT ![FileOf(l)].mtime = Key(l)]
    /\ loader' = [loader EXCEPT ![l].pc = "data"]
    /\ UNCHANGED <<sec, file, place, shown>>

StoreData(l) ==
    /\ loader[l].pc = "data"
    /\ cache' = [cache EXCEPT ![FileOf(l)].data = loader[l].data]
    /\ loader' = [loader EXCEPT ![l].pc = "answer"]
    /\ UNCHANGED <<sec, file, place, shown>>

(* boolFromAny (startup page) and ggCupBool (thanks page) of wo_info.      *)
BoolFromAny(data) == data.kind \in {"wo_info", "wo_text", "wo_num"}

GGCupBool(data) == data.kind \in {"wo_info", "wo_text"}

(* The pages: tournaments lists what was loaded or reports an error,       *)
(* user_details takes the place index as it is by then, the thanks page    *)
(* needs supporters and the startup page shows the tournament's view.      *)
TournamentsPage(data) == data

UserDetailsPage == [ver |-> place.ver, kind |-> "places"]

ThanksPage(data) ==
    IF data = NoData \/ GGCupBool(data) \/ data.kind = "bare" THEN NoData ELSE data

GGCupView(data) == IF BoolFromAny(data) THEN NoData ELSE data

Page(route, data) ==
    CASE route = "tournaments" -> TournamentsPage(data)
      [] route = "user_details" -> UserDetailsPage
      [] route = "gg_cup_thanks" -> ThanksPage(data)
      [] route = "startup" -> GGCupView(data)

(* The end of a request; the Provider answers from what is kept by now.    *)
Answer(l) ==
    LET route == loader[l].route
        data == IF Locked THEN cache[FileOf(l)].data ELSE loader[l].data IN
    /\ loader[l].pc = "answer"
    /\ shown' = [shown EXCEPT ![l] = [route |-> route, data |-> Page(route, data),
                                      since |-> loader[l].since]]
    /\ loader' = [loader EXCEPT ![l] = Idle]
    /\ UNCHANGED <<sec, file, cache, place>>

Next ==
    \/ \E f \in Files : \E kind \in Kinds[f] : Write(f, kind)
    \/ \E f \in Moved : MoveAway(f) \/ MoveBack(f)
    \/ Tick
    \/ \E l \in Loaders, route \in Routes : Stat(l, route)
    \/ \E l \in Loaders :
        \/ Read(l) \/ Commit(l)
        \/ StorePlace(l) \/ StoreMTime(l) \/ StoreData(l)
        \/ Answer(l)

Spec == Init /\ [][Next]_vars

----------------------------------------------------------------------------
(* Properties                                                              *)

AllIdle == \A l \in Loaders : loader[l].pc = "idle"

(* What is kept under the present modification time is what the file holds,*)
(* however its writes fell between the stat, the read and the stores of    *)
(* the requests; otherwise it would stay wrong until the next write.  Two  *)
(* writes in one second cannot be told apart and are left out.             *)
Keyed(f) ==
    /\ AllIdle /\ file[f].exists /\ file[f].fresh
    /\ cache[f].data # NoData /\ cache[f].mtime = file[f].mtime
    => cache[f].data = Parsed(f)

(* LoadLCN never pins an outdated ranking.                                 *)
LCNKeyed == Keyed("lcn")

(* LoadGGCup never pins an outdated tournament.                            *)
GGCupKeyed == Keyed("gg")

(* The place index user_details reads and the ranking tournaments reads    *)
(* come from the same file.                                                *)
IndexMatchesData ==
    AllIdle => place.ver = IF cache["lcn"].data.kind \in {"ranked", "text"}
                           THEN cache["lcn"].data.ver ELSE 0

(* Nothing of either file is kept that the file does not hold.             *)
CacheKeyed == LCNKeyed /\ GGCupKeyed /\ IndexMatchesData

(* A page that shows a loaded payload shows nothing older than the file    *)
(* held when the request began, unless two writes fell in one second.      *)
PagesFresh ==
    \A l \in Loaders :
        shown[l].route # "user_details" /\ shown[l].data # NoData
        => shown[l].data.ver >= shown[l].since

----------------------------------------------------------------------------
(* What the repository says and the code does not do.                      *)

(* The file's places are the same numbers in both implementations.         *)
PlacesAgree ==
    Cached("lcn") => CacheIndex(cache["lcn"].data) = ProviderIndex(cache["lcn"].data)

(* A tournament that announces wo_info in whatever form is not shown.      *)
WoInfoHidden ==
    \A l \in Loaders : shown[l].data.kind # "wo_num"
=============================================================================
