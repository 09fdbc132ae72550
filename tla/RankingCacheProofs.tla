------------------------- MODULE RankingCacheProofs -------------------------
(***************************************************************************)
(* Both ranking caches, for any number and content of writes: the Provider *)
(* with any number of requests at a time, ranking.Cache with one.          *)
(*                                                                         *)
(* The caches name a file's content by a modification time in seconds that *)
(* they take before they read it.  The invariant says when that name is    *)
(* good: what is kept under the present time is the present content unless *)
(* the last two writes fell in one second, and no request under way has a  *)
(* time the file has not reached.                                          *)
(***************************************************************************)
EXTENDS RankingCache, TLAPS

(* ranking.Cache stores without a lock and is taken one request at a time. *)
OneAtATime == Locked \in BOOLEAN /\ (Locked \/ \A k, l \in Loaders : k = l)

(* The tournament file is not moved away and back under its old time:      *)
(* LoadGGCup would keep its sentinel for it.                               *)
CupStays == Moved \subseteq {"lcn"}

PageRoutes == Routes \subseteq {"tournaments", "user_details", "gg_cup_thanks", "startup"}

AnyKind == {"bad"} \cup UNION {Kinds[f] : f \in Files}

Data == [ver : Nat, kind : AnyKind \cup {"nil", "wo_info"}]

Storing == {"place", "mtime", "data"}

LoaderRec == [pc : {"idle", "read", "commit", "answer"} \cup Storing,
              route : Routes \cup {""}, mtime : Nat, data : Data, since : Nat]

TypeOK ==
    /\ sec \in Nat \ {0}
    /\ file \in [Files -> [exists : BOOLEAN, mtime : Nat, ver : Nat, kind : AnyKind,
                           fresh : BOOLEAN]]
    /\ cache \in [Files -> [mtime : Nat, data : Data]]
    /\ loader \in [Loaders -> LoaderRec]
    /\ place.ver \in Nat

(* The clock stamps the files; a file that was written is there, but for   *)
(* the ranking, which may be moved.                                        *)
FilesOK ==
    \A f \in Files :
        /\ file[f].mtime <= sec
        /\ file[f].ver = 0 <=> file[f].mtime = 0
        /\ file[f].exists => file[f].mtime # 0
        /\ f = "gg" /\ file[f].mtime # 0 => file[f].exists

(* What a load of the file finds when it is there.                         *)
Holds(f) ==
    IF Parses(file[f].kind) THEN Content(f) ELSE IF f = "gg" THEN WoInfo ELSE NoData

(* A request under way has a time of the file, and if it is the present    *)
(* one, the present content.                                               *)
LoadersOK ==
    \A l \in Loaders :
        /\ loader[l].pc \in {"read", "commit"} \cup Storing =>
              loader[l].mtime # 0 /\ loader[l].mtime <= file[FileOf(l)].mtime
        /\ loader[l].pc \in {"commit"} \cup Storing
              /\ loader[l].mtime = file[FileOf(l)].mtime /\ file[FileOf(l)].fresh
              => loader[l].data = Holds(FileOf(l))
        /\ IF Locked THEN loader[l].pc \notin Storing ELSE loader[l].pc # "commit"
        /\ loader[l].pc = "place" => FileOf(l) = "lcn"
        /\ loader[l].pc = "data" => cache[FileOf(l)].mtime = loader[l].mtime

(* The same of what is kept, but for a cache in the middle of a store.     *)
CachesOK ==
    \A f \in Files :
        /\ cache[f].mtime <= file[f].mtime
        /\ \/ \E l \in Loaders : loader[l].pc = "data" /\ FileOf(l) = f
           \/ cache[f].data = NoData \/ cache[f].mtime # file[f].mtime
           \/ ~ file[f].fresh \/ file[f].mtime = 0
           \/ cache[f].data = Holds(f)

(* The place index is of the ranking kept, or of the one about to be.      *)
IndexVer(data) == IF data.kind \in {"ranked", "text"} THEN data.ver ELSE 0

Indexed(l) == loader[l].pc \in {"mtime", "data"} /\ FileOf(l) = "lcn"

IndexOK ==
    /\ \/ \E l \in Loaders : Indexed(l)
       \/ place.ver = IndexVer(cache["lcn"].data)
    /\ \A l \in Loaders : Indexed(l) => place.ver = IndexVer(loader[l].data)

KeyInv == TypeOK /\ FilesOK /\ LoadersOK /\ CachesOK /\ IndexOK

(* What a request of ranking.Cache has loaded is no older than the file    *)
(* was when it began.                                                      *)
LoadsFresh ==
    \A l \in Loaders :
        /\ loader[l].pc # "idle" => loader[l].route \in Routes
        /\ loader[l].pc = "read" => loader[l].since <= file[FileOf(l)].ver
        /\ loader[l].pc \in {"answer"} \cup Storing =>
              \/ loader[l].data = NoData
              \/ FileOf(l) = "gg" /\ loader[l].data = WoInfo
              \/ loader[l].data.ver >= loader[l].since

----------------------------------------------------------------------------
(* The operators of the model.                                             *)

LEMMA RouteFileType == \A route : RouteFile(route) \in Files
BY DEF RouteFile, Files

LEMMA ParsedType ==
    ASSUME TypeOK, NEW f \in Files
    PROVE  /\ Parsed(f) \in Data /\ Since(f) \in Nat /\ Since(f) <= file[f].ver
           /\ file[f].exists => Parsed(f) = Holds(f)
<1>1. file[f].ver \in Nat /\ file[f].kind \in AnyKind
  BY DEF TypeOK
<1>2. Content(f) \in Data /\ Content(f).ver = file[f].ver
  BY <1>1 DEF Content, Data
<1>3. WoInfo \in Data /\ NoData \in Data /\ WoInfo.ver = 0 /\ NoData.ver = 0
  BY DEF WoInfo, NoData, Data
<1>4. Parsed(f) \in Data /\ Parsed(f).ver \in {0, file[f].ver}
  BY <1>2, <1>3 DEF Parsed
<1>5. Since(f) \in {0, file[f].ver}
  BY <1>4 DEF Since
<1>6. Since(f) \in Nat /\ Since(f) <= file[f].ver
  BY <1>1, <1>5
<1> QED
  BY <1>4, <1>6 DEF Parsed, Holds

(* Both indexes carry the version of the ranking they were built from.     *)
LEMMA PlaceIndexVer ==
    ASSUME OneAtATime, NEW data \in Data
    PROVE  PlaceIndex(data).ver = IndexVer(data) /\ IndexVer(data) \in Nat
<1>1. data.ver \in Nat
  BY DEF Data
<1>2. ProviderIndex(data).ver = IndexVer(data)
  BY DEF ProviderIndex, IndexVer, NoPlaces
<1>3. CacheIndex(data).ver = IndexVer(data)
  <2>1. CASE data.kind = "ranked"
    BY <2>1 DEF CacheIndex, IndexVer
  <2>2. CASE data.kind = "text"
    BY <2>2 DEF CacheIndex, IndexVer
  <2>3. CASE data.kind \notin {"ranked", "text"}
    <3>1. CacheIndex(data) = NoPlaces
      BY <2>3 DEF CacheIndex
    <3> QED
      BY <2>3, <3>1 DEF IndexVer, NoPlaces
  <2> QED
    BY <2>1, <2>2, <2>3
<1> QED
  BY <1>1, <1>2, <1>3 DEF PlaceIndex, IndexVer

(* A request: the fields of its record.                                    *)
LEMMA LoaderType ==
    ASSUME TypeOK, NEW l \in Loaders
    PROVE  /\ loader[l].mtime \in Nat /\ loader[l].data \in Data
           /\ loader[l].since \in Nat /\ FileOf(l) \in Files
           /\ loader[l].pc \in {"idle", "read", "commit", "answer"} \cup Storing
BY RouteFileType DEF TypeOK, FileOf, LoaderRec

----------------------------------------------------------------------------
(* KeyInv                                                                  *)

LEMMA InitKey ==
    ASSUME OneAtATime, Init
    PROVE  KeyInv
<1>1. NoData \in Data
  BY DEF NoData, Data
<1>2. TypeOK
  <2>1. file \in [Files -> [exists : BOOLEAN, mtime : Nat, ver : Nat, kind : AnyKind,
                            fresh : BOOLEAN]]
    BY DEF Init, AnyKind
  <2>2. cache \in [Files -> [mtime : Nat, data : Data]]
    BY <1>1 DEF Init
  <2>3. loader \in [Loaders -> LoaderRec]
    BY <1>1 DEF Init, Idle, LoaderRec
  <2>4. sec \in Nat \ {0} /\ place.ver \in Nat
    <3>1. sec = 1 /\ place = NoPlaces
      BY DEF Init
    <3>2. NoPlaces.ver = 0
      BY DEF NoPlaces
    <3> QED
      BY <3>1, <3>2
  <2> QED
    BY <2>1, <2>2, <2>3, <2>4 DEF TypeOK
<1>3. /\ \A f \in Files : file[f].mtime = 0 /\ file[f].ver = 0 /\ ~ file[f].exists
      /\ \A f \in Files : cache[f].mtime = 0 /\ cache[f].data = NoData
      /\ sec = 1
  <2>1. \A f \in Files : file[f] = [exists |-> FALSE, mtime |-> 0, ver |-> 0,
                                    kind |-> "bad", fresh |-> TRUE]
    BY DEF Init
  <2>2. \A f \in Files : file[f].mtime = 0 /\ file[f].ver = 0
    BY <2>1
  <2>3. \A f \in Files : ~ file[f].exists
    BY <2>1
  <2>4. \A f \in Files : cache[f].mtime = 0 /\ cache[f].data = NoData
    BY DEF Init
  <2>5. sec = 1
    BY DEF Init
  <2> QED
    BY <2>2, <2>3, <2>4, <2>5
<1>a. FilesOK
  BY <1>3 DEF FilesOK
<1>4. \A l \in Loaders : loader[l].pc = "idle"
  BY DEF Init, Idle
<1>5. LoadersOK
  BY <1>4 DEF LoadersOK, Storing
<1>6. CachesOK
  BY <1>3 DEF CachesOK
<1>7. IndexOK
  BY <1>4 DEF Init, IndexOK, Indexed, IndexVer, NoPlaces, NoData, Files
<1> QED
  BY <1>2, <1>a, <1>5, <1>6, <1>7 DEF KeyInv

(* A write either gives the file a new time, which nobody has yet, or      *)
(* leaves two writes in one second.                                        *)
LEMMA WriteKey ==
    ASSUME KeyInv, NEW f \in Files, NEW kind \in Kinds[f], Write(f, kind)
    PROVE  KeyInv'
<1>1. UNCHANGED <<sec, cache, place, loader, shown>>
  BY DEF Write
<1>2. file[f].mtime \in Nat /\ file[f].ver \in Nat /\ sec \in Nat \ {0} /\ file[f].mtime <= sec
  BY DEF KeyInv, TypeOK, FilesOK
<1>3. /\ file' = [file EXCEPT ![f] = [exists |-> TRUE, mtime |-> sec, ver |-> file[f].ver + 1,
                                      kind |-> kind, fresh |-> file[f].mtime # sec]]
  BY DEF Write
<1>4. /\ file'[f].mtime = sec /\ file'[f].exists /\ file'[f].ver = file[f].ver + 1
      /\ file'[f].fresh => file[f].mtime < sec
      /\ \A g \in Files \ {f} : file'[g] = file[g]
  <2>1. /\ file'[f] = [exists |-> TRUE, mtime |-> sec, ver |-> file[f].ver + 1,
                       kind |-> kind, fresh |-> file[f].mtime # sec]
        /\ \A g \in Files \ {f} : file'[g] = file[g]
    BY <1>3 DEF KeyInv, TypeOK
  <2>2. file'[f].mtime = sec /\ file'[f].ver = file[f].ver + 1
    BY <2>1
  <2>3. file'[f].exists
    BY <2>1
  <2>4. ASSUME file[f].mtime = sec
        PROVE  ~ file'[f].fresh
    <3>1. file'[f] = [exists |-> TRUE, mtime |-> sec, ver |-> file[f].ver + 1,
                      kind |-> kind, fresh |-> FALSE]
      BY <2>1, <2>4
    <3> QED
      BY <3>1
  <2> QED
    BY <1>2, <2>1, <2>2, <2>3, <2>4
<1>5. TypeOK'
  <2>1. kind \in AnyKind
    BY DEF AnyKind
  <2>2. [exists |-> TRUE, mtime |-> sec, ver |-> file[f].ver + 1, kind |-> kind,
         fresh |-> file[f].mtime # sec]
            \in [exists : BOOLEAN, mtime : Nat, ver : Nat, kind : AnyKind, fresh : BOOLEAN]
    BY <1>2, <2>1
  <2> QED
    BY <1>1, <1>3, <2>2 DEF KeyInv, TypeOK
<1>6. FilesOK'
  BY <1>1, <1>2, <1>4 DEF KeyInv, FilesOK
<1>7. \A g \in Files \ {f} : Holds(g)' = Holds(g)
  BY <1>4 DEF Holds, Content
<1>8. \A l \in Loaders : FileOf(l)' = FileOf(l) /\ FileOf(l) \in Files
  BY <1>1, LoaderType DEF KeyInv, FileOf
<1>9. LoadersOK'
  <2>1. ASSUME NEW l \in Loaders, FileOf(l) = f,
               loader[l].pc \in {"read", "commit"} \cup Storing
        PROVE  /\ loader[l].mtime <= sec
               /\ file'[f].fresh => loader[l].mtime # sec
    <3>1. loader[l].mtime <= file[f].mtime /\ loader[l].mtime \in Nat
      BY <2>1, LoaderType DEF KeyInv, LoadersOK
    <3> QED
      BY <1>2, <1>4, <3>1
  <2> QED
    BY <1>1, <1>4, <1>7, <1>8, <2>1 DEF KeyInv, LoadersOK
<1>10. CachesOK'
  <2>1. cache[f].mtime <= file[f].mtime /\ cache[f].mtime \in Nat
    BY DEF KeyInv, CachesOK, TypeOK
  <2>2. cache[f].mtime <= sec /\ (file'[f].fresh => cache[f].mtime # sec)
    BY <1>2, <1>4, <2>1
  <2> QED
    BY <1>1, <1>4, <1>7, <1>8, <2>2 DEF KeyInv, CachesOK
<1>11. IndexOK'
  BY <1>1, <1>8 DEF KeyInv, IndexOK, Indexed
<1> QED
  BY <1>5, <1>6, <1>9, <1>10, <1>11 DEF KeyInv

(* The ranking is moved, or the clock ticks.                               *)
LEMMA MoveKey ==
    ASSUME CupStays, KeyInv, (\E f \in Moved : MoveAway(f) \/ MoveBack(f)) \/ Tick
    PROVE  KeyInv'
<1>1. UNCHANGED <<cache, place, loader, shown>>
  BY DEF MoveAway, MoveBack, Tick
<1>2. "lcn" \in Files /\ "gg" \in Files
  BY DEF Files
<1>a. sec \in Nat \ {0}
  BY DEF KeyInv, TypeOK
<1>3. /\ sec' \in Nat \ {0} /\ sec <= sec'
      /\ file' \in [Files -> [exists : BOOLEAN, mtime : Nat, ver : Nat, kind : AnyKind,
                              fresh : BOOLEAN]]
      /\ \A f \in Files : /\ file'[f].mtime = file[f].mtime /\ file'[f].ver = file[f].ver
                          /\ file'[f].kind = file[f].kind /\ file'[f].fresh = file[f].fresh
      /\ file'["gg"].exists = file["gg"].exists
      /\ file'["lcn"].exists => file["lcn"].exists \/ file["lcn"].ver > 0
  <2>1. CASE Tick
    <3>1. file' = file /\ sec' = sec + 1
      BY <2>1 DEF Tick
    <3>2. sec' \in Nat \ {0} /\ sec <= sec'
      BY <1>a, <3>1
    <3> QED
      BY <1>2, <3>1, <3>2 DEF KeyInv, TypeOK
  <2>2. CASE \E e \in BOOLEAN : /\ file' = [file EXCEPT !["lcn"].exists = e] /\ sec' = sec
                                /\ e => file["lcn"].ver > 0
    <3>1. PICK e \in BOOLEAN : /\ file' = [file EXCEPT !["lcn"].exists = e] /\ sec' = sec
                               /\ e => file["lcn"].ver > 0
      BY <2>2
    <3>2. file' = [file EXCEPT !["lcn"] = [file["lcn"] EXCEPT !.exists = e]]
      BY <3>1
    <3>3. file["lcn"] \in [exists : BOOLEAN, mtime : Nat, ver : Nat, kind : AnyKind,
                           fresh : BOOLEAN]
      BY <1>2 DEF KeyInv, TypeOK
    <3> DEFINE r == [file["lcn"] EXCEPT !.exists = e]
    <3>4. r \in [exists : BOOLEAN, mtime : Nat, ver : Nat, kind : AnyKind, fresh : BOOLEAN]
      BY <3>3
    <3>5. /\ r.mtime = file["lcn"].mtime /\ r.ver = file["lcn"].ver
          /\ r.kind = file["lcn"].kind
      BY <3>3
    <3>6. r.fresh = file["lcn"].fresh
      BY <3>3
    <3>7. r.exists = e
      BY <3>3
    <3> HIDE DEF r
    <3>8. file' = [file EXCEPT !["lcn"] = r]
      BY <3>2 DEF r
    <3>9. /\ file' \in [Files -> [exists : BOOLEAN, mtime : Nat, ver : Nat, kind : AnyKind,
                                  fresh : BOOLEAN]]
          /\ file'["lcn"] = r /\ \A f \in Files \ {"lcn"} : file'[f] = file[f]
      BY <1>2, <3>4, <3>8 DEF KeyInv, TypeOK
    <3>10. sec' \in Nat \ {0} /\ sec <= sec'
      BY <1>a, <3>1
    <3>11. file'["gg"].exists = file["gg"].exists
      BY <1>2, <3>9
    <3>12. \A f \in Files : /\ file'[f].mtime = file[f].mtime /\ file'[f].ver = file[f].ver
                           /\ file'[f].kind = file[f].kind /\ file'[f].fresh = file[f].fresh
      BY <3>5, <3>6, <3>9
    <3>13. file'["lcn"].exists => file["lcn"].ver > 0
      BY <3>1, <3>7, <3>9
    <3> QED
      BY <3>9, <3>10, <3>11, <3>12, <3>13
  <2>3. CASE MoveAway("lcn")
    <3>1. file' = [file EXCEPT !["lcn"].exists = FALSE] /\ sec' = sec
      BY <2>3 DEF MoveAway
    <3> QED
      BY <2>2, <3>1
  <2>4. CASE MoveBack("lcn")
    <3>1. file' = [file EXCEPT !["lcn"].exists = TRUE] /\ sec' = sec /\ file["lcn"].ver > 0
      BY <2>4 DEF MoveBack
    <3> QED
      BY <2>2, <3>1
  <2> QED
    BY <2>1, <2>3, <2>4 DEF CupStays
<1>4. TypeOK'
  BY <1>1, <1>3 DEF KeyInv, TypeOK
<1>5. FilesOK'
  <2>1. \A f \in Files : file[f].mtime \in Nat /\ file[f].ver \in Nat /\ sec \in Nat
    BY DEF KeyInv, TypeOK
  <2>2. \A f \in Files : file'[f].mtime <= sec'
    BY <1>3, <2>1 DEF KeyInv, FilesOK
  <2>3. \A f \in Files : f = "lcn" \/ f = "gg"
    BY DEF Files
  <2> QED
    BY <1>2, <1>3, <2>1, <2>2, <2>3 DEF KeyInv, FilesOK
<1>6. \A f \in Files : Holds(f)' = Holds(f)
  BY <1>3 DEF Holds, Content
<1>7. \A l \in Loaders : FileOf(l)' = FileOf(l) /\ FileOf(l) \in Files
  BY <1>1, LoaderType DEF KeyInv, FileOf
<1>8. LoadersOK'
  BY <1>1, <1>3, <1>6, <1>7 DEF KeyInv, LoadersOK
<1>9. CachesOK'
  BY <1>1, <1>3, <1>6, <1>7 DEF KeyInv, CachesOK
<1>10. IndexOK'
  BY <1>1, <1>7 DEF KeyInv, IndexOK, Indexed
<1> QED
  BY <1>4, <1>5, <1>8, <1>9, <1>10 DEF KeyInv

----------------------------------------------------------------------------
(* The steps of a request leave the files alone.  What KeyInv says of one  *)
(* request with the record r, the caches c and the place index pl:         *)
LoaderGood(r, c) ==
    /\ r.pc \in {"read", "commit"} \cup Storing =>
          r.mtime # 0 /\ r.mtime <= file[RouteFile(r.route)].mtime
    /\ r.pc \in {"commit"} \cup Storing
          /\ r.mtime = file[RouteFile(r.route)].mtime /\ file[RouteFile(r.route)].fresh
          => r.data = Holds(RouteFile(r.route))
    /\ IF Locked THEN r.pc \notin Storing ELSE r.pc # "commit"
    /\ r.pc = "place" => RouteFile(r.route) = "lcn"
    /\ r.pc = "data" => c[RouteFile(r.route)].mtime = r.mtime

CacheGood(f, r, c) ==
    /\ c[f].mtime <= file[f].mtime
    /\ \/ r.pc = "data" /\ RouteFile(r.route) = f
       \/ c[f].data = NoData \/ c[f].mtime # file[f].mtime
       \/ ~ file[f].fresh \/ file[f].mtime = 0
       \/ c[f].data = Holds(f)

IndexGood(r, c, pl) ==
    IF r.pc \in {"mtime", "data"} /\ RouteFile(r.route) = "lcn"
    THEN pl.ver = IndexVer(r.data) ELSE pl.ver = IndexVer(c["lcn"].data)

(* A request that is in the middle of its stores is the only one.          *)
LEMMA Focus ==
    ASSUME OneAtATime, KeyInv, NEW l \in Loaders
    PROVE  /\ LoaderGood(loader[l], cache)
           /\ \A f \in Files : CacheGood(f, loader[l], cache)
           /\ IndexGood(loader[l], cache, place)
<1>1. ASSUME NEW k \in Loaders, loader[k].pc \in Storing
      PROVE  k = l
  <2>1. ~ Locked
    BY <1>1 DEF KeyInv, LoadersOK
  <2> QED
    BY <2>1 DEF OneAtATime
<1>2. LoaderGood(loader[l], cache)
  BY DEF KeyInv, LoadersOK, LoaderGood, FileOf
<1>3. ASSUME NEW f \in Files
      PROVE  CacheGood(f, loader[l], cache)
  BY <1>1 DEF KeyInv, CachesOK, CacheGood, FileOf, Storing
<1>4. IndexGood(loader[l], cache, place)
  BY <1>1 DEF KeyInv, IndexOK, IndexGood, Indexed, FileOf, Storing
<1> QED
  BY <1>2, <1>3, <1>4

LEMMA StepKey ==
    ASSUME OneAtATime, KeyInv, NEW l \in Loaders, NEW r \in LoaderRec,
           NEW c \in [Files -> [mtime : Nat, data : Data]], NEW pl, pl.ver \in Nat,
           sec' = sec, file' = file, cache' = c, place' = pl,
           loader' = [loader EXCEPT ![l] = r],
           LoaderGood(r, c), \A f \in Files : CacheGood(f, r, c), IndexGood(r, c, pl)
    PROVE  KeyInv'
<1>1. loader'[l] = r /\ \A k \in Loaders \ {l} : loader'[k] = loader[k]
  BY DEF KeyInv, TypeOK
<1>2. TypeOK'
  <2>1. loader' \in [Loaders -> LoaderRec]
    BY DEF KeyInv, TypeOK
  <2> QED
    BY <2>1 DEF KeyInv, TypeOK
<1>3. FilesOK'
  BY DEF KeyInv, FilesOK
<1>4. \A f \in Files : Holds(f)' = Holds(f)
  BY DEF Holds, Content
<1>5. \A route : RouteFile(route) \in Files
  BY RouteFileType
<1>6. \A k \in Loaders \ {l} : loader[k].pc \notin Storing
  <2>1. ASSUME NEW k \in Loaders \ {l}
        PROVE  Locked
    BY DEF OneAtATime
  <2> QED
    BY <2>1 DEF KeyInv, LoadersOK
<1>7. LoadersOK'
  <2>1. ASSUME NEW k \in Loaders
        PROVE  LoaderGood(loader'[k], c)
    <3>1. CASE k = l
      BY <1>1, <3>1
    <3>2. CASE k # l
      <4>1. LoaderGood(loader[k], cache) /\ loader[k].pc # "data"
        BY <1>6, <3>2, Focus DEF Storing
      <4>2. LoaderGood(loader[k], c)
        BY <4>1 DEF LoaderGood
      <4> QED
        BY <1>1, <3>2, <4>2
    <3> QED
      BY <3>1, <3>2
  <2> QED
    BY <1>4, <1>5, <2>1 DEF LoadersOK, LoaderGood, FileOf
<1>8. CachesOK'
  <2>1. ASSUME NEW f \in Files
        PROVE  CacheGood(f, loader'[l], c)
    BY <1>1
  <2> QED
    BY <1>4, <2>1 DEF CachesOK, CacheGood, FileOf
<1>9. IndexOK'
  <2>1. \A k \in Loaders \ {l} : loader'[k].pc \notin {"mtime", "data"}
    BY <1>1, <1>6 DEF Storing
  <2>2. IndexGood(loader'[l], c, pl)
    BY <1>1
  <2> QED
    BY <2>1, <2>2 DEF IndexOK, IndexGood, Indexed, FileOf
<1> QED
  BY <1>2, <1>3, <1>7, <1>8, <1>9 DEF KeyInv

PCs == {"idle", "read", "commit", "answer"} \cup Storing

(* The two fields of a cache.                                              *)
LEMMA CacheRecord ==
    ASSUME NEW q \in [mtime : Nat, data : Data], NEW d \in Data, NEW m \in Nat
    PROVE  /\ [q EXCEPT !.data = d] \in [mtime : Nat, data : Data]
           /\ [q EXCEPT !.data = d].mtime = q.mtime /\ [q EXCEPT !.data = d].data = d
           /\ [q EXCEPT !.mtime = m] \in [mtime : Nat, data : Data]
           /\ [q EXCEPT !.mtime = m].mtime = m /\ [q EXCEPT !.mtime = m].data = q.data
OBVIOUS

LEMMA MissingKey ==
    ASSUME OneAtATime, KeyInv, NEW l \in Loaders, NEW route \in Routes, NEW f,
           f = RouteFile(route), loader[l].pc = "idle", ~ file[f].exists,
           cache' = [cache EXCEPT ![f].data = Dropped(f)],
           place' = IF f = "lcn" /\ Locked THEN NoPlaces ELSE place,
           loader' = [loader EXCEPT ![l] =
                [[Idle EXCEPT !.route = route, !.since = Since(f)] EXCEPT
                    !.pc = "answer", !.data = IF f = "gg" THEN WoInfo ELSE NoData]],
           sec' = sec, file' = file
    PROVE  KeyInv'
<1>1. /\ f \in Files /\ "lcn" \in Files /\ (f # "lcn" => f = "gg")
      /\ NoData \in Data /\ WoInfo \in Data /\ NoData.kind = "nil"
  BY RouteFileType DEF Files, NoData, WoInfo, Data
<1> DEFINE d == IF f = "gg" THEN WoInfo ELSE NoData
<1> DEFINE r == [[Idle EXCEPT !.route = route, !.since = Since(f)] EXCEPT
                    !.pc = "answer", !.data = d]
<1> DEFINE n == [cache[f] EXCEPT !.data = Dropped(f)]
<1> DEFINE c == [cache EXCEPT ![f] = n]
<1>2. loader' = [loader EXCEPT ![l] = r]
  OBVIOUS
<1>3. Since(f) \in Nat /\ d \in Data
  BY <1>1, ParsedType DEF KeyInv
<1> HIDE DEF d
<1>4. r \in LoaderRec /\ r.pc = "answer" /\ r.route = route
  <2>1. Idle \in LoaderRec
    BY DEF Idle, LoaderRec, NoData, Data
  <2> DEFINE i == [Idle EXCEPT !.route = route, !.since = Since(f)]
  <2>2. i \in LoaderRec /\ i.route = route
    BY <1>3, <2>1 DEF LoaderRec
  <2>3. r = [i EXCEPT !.pc = "answer", !.data = d]
    OBVIOUS
  <2> HIDE DEF i, r
  <2> QED
    BY <1>3, <2>2, <2>3 DEF LoaderRec
<1>5. /\ cache[f] \in [mtime : Nat, data : Data] /\ cache[f].mtime \in Nat
      /\ cache[f].data \in Data
  BY <1>1 DEF KeyInv, TypeOK
<1>6. Dropped(f) \in Data
  BY <1>1, <1>5 DEF Dropped
<1>7. /\ cache' = c /\ n \in [mtime : Nat, data : Data]
      /\ n.mtime = cache[f].mtime /\ n.data = Dropped(f)
  BY <1>5, <1>6, CacheRecord
<1> HIDE DEF n
<1>8. c \in [Files -> [mtime : Nat, data : Data]]
  BY <1>1, <1>7 DEF KeyInv, TypeOK
<1>9. /\ c[f].mtime = cache[f].mtime /\ c[f].data = Dropped(f)
      /\ \A g \in Files \ {f} : c[g] = cache[g]
  BY <1>1, <1>7 DEF KeyInv, TypeOK
<1> HIDE DEF r, c
<1>10. LoaderGood(r, c)
  BY <1>4 DEF LoaderGood, Storing
<1>11. \A g \in Files : CacheGood(g, loader[l], cache)
  BY Focus
<1>12. ASSUME NEW g \in Files
       PROVE  CacheGood(g, r, c)
  <2>1. CASE g # f
    BY <1>9, <1>11, <2>1 DEF CacheGood
  <2>2. CASE g = f /\ f = "gg"
    <3>1. file[f].mtime = 0
      BY <1>1, <2>2 DEF KeyInv, FilesOK
    <3> QED
      BY <1>9, <1>11, <2>2, <3>1 DEF CacheGood
  <2>3. CASE g = f /\ f = "lcn" /\ Locked
    <3>1. c[g].data = NoData
      BY <1>9, <2>3 DEF Dropped
    <3> QED
      BY <1>9, <1>11, <2>3, <3>1 DEF CacheGood
  <2>4. CASE g = f /\ f = "lcn" /\ ~ Locked
    <3>1. c[g].data = cache[g].data
      BY <1>9, <2>4 DEF Dropped
    <3> QED
      BY <1>9, <1>11, <2>4, <3>1 DEF CacheGood
  <2> QED
    BY <1>1, <2>1, <2>2, <2>3, <2>4
<1>13. IndexGood(loader[l], cache, place)
  BY Focus
<1> DEFINE pl == IF f = "lcn" /\ Locked THEN NoPlaces ELSE place
<1>14. place' = pl
  OBVIOUS
<1>15. pl.ver \in Nat
  BY DEF KeyInv, TypeOK, NoPlaces
<1>16. IndexGood(r, c, pl)
  <2>1. place.ver = IndexVer(cache["lcn"].data)
    BY <1>13 DEF IndexGood
  <2>2. CASE f = "lcn" /\ Locked
    <3>1. c["lcn"].data = NoData /\ pl.ver = 0
      BY <1>9, <2>2 DEF Dropped, NoPlaces
    <3>2. IndexVer(NoData) = 0
      BY <1>1 DEF IndexVer
    <3> QED
      BY <1>4, <3>1, <3>2 DEF IndexGood
  <2>3. CASE ~ (f = "lcn" /\ Locked)
    <3>1. pl = place
      BY <2>3
    <3>2. c["lcn"].data = cache["lcn"].data
      BY <1>1, <1>9, <2>3 DEF Dropped
    <3> QED
      BY <1>4, <2>1, <3>1, <3>2 DEF IndexGood
  <2> QED
    BY <2>2, <2>3
<1> HIDE DEF pl
<1> QED
  BY <1>2, <1>4, <1>7, <1>8, <1>10, <1>12, <1>14, <1>15, <1>16, StepKey

LEMMA StatKey ==
    ASSUME OneAtATime, KeyInv, NEW l \in Loaders, NEW route \in Routes, Stat(l, route)
    PROVE  KeyInv'
<1> DEFINE f == RouteFile(route)
<1>1. f \in Files /\ loader[l].pc = "idle" /\ sec' = sec /\ file' = file
  BY RouteFileType DEF Stat
<1>2. CASE ~ file[f].exists
  <2>1. /\ cache' = [cache EXCEPT ![f].data = Dropped(f)]
        /\ place' = IF f = "lcn" /\ Locked THEN NoPlaces ELSE place
        /\ loader' = [loader EXCEPT ![l] =
                [[Idle EXCEPT !.route = route, !.since = Since(f)] EXCEPT
                    !.pc = "answer", !.data = IF f = "gg" THEN WoInfo ELSE NoData]]
    BY <1>2 DEF Stat
  <2> HIDE DEF f
  <2> QED
    BY <1>1, <1>2, <2>1, MissingKey DEF f
<1>3. CASE file[f].exists
  <2> DEFINE x == IF Cached(f) THEN "answer" ELSE "read"
  <2> DEFINE d == IF Cached(f) THEN cache[f].data ELSE NoData
  <2> DEFINE m == IF Cached(f) THEN 0 ELSE file[f].mtime
  <2> DEFINE r == [pc |-> x, route |-> route, mtime |-> m, data |-> d, since |-> Since(f)]
  <2>1. loader' = [loader EXCEPT ![l] = r] /\ cache' = cache /\ place' = place
    <3>1. CASE Cached(f)
      BY <1>3, <3>1 DEF Stat, Idle
    <3>2. CASE ~ Cached(f)
      BY <1>3, <3>2 DEF Stat, Idle
    <3> QED
      BY <3>1, <3>2
  <2>2. file[f].mtime \in Nat /\ file[f].mtime # 0 /\ cache[f].data \in Data
    BY <1>1, <1>3 DEF KeyInv, TypeOK, FilesOK
  <2>3. Since(f) \in Nat /\ d \in Data /\ m \in Nat /\ x \in PCs
    BY <1>1, <2>2, ParsedType DEF KeyInv, NoData, Data, PCs
  <2>4. x \in {"answer", "read"} /\ (x = "read" => m = file[f].mtime)
    OBVIOUS
  <2> HIDE DEF x, m, d
  <2>5. /\ r \in LoaderRec /\ r.pc = x /\ r.route = route /\ r.mtime = m
    BY <2>3 DEF LoaderRec, PCs
  <2> HIDE DEF r
  <2>6. LoaderGood(r, cache)
    BY <2>2, <2>4, <2>5 DEF LoaderGood, Storing
  <2>7. \A g \in Files : CacheGood(g, r, cache)
    BY <1>1, <2>4, <2>5, Focus DEF CacheGood
  <2>8. IndexGood(r, cache, place)
    BY <1>1, <2>4, <2>5, Focus DEF IndexGood
  <2>9. cache \in [Files -> [mtime : Nat, data : Data]] /\ place.ver \in Nat
    BY DEF KeyInv, TypeOK
  <2> QED
    BY <1>1, <2>1, <2>5, <2>6, <2>7, <2>8, <2>9, StepKey
<1> QED
  BY <1>2, <1>3

LEMMA ReadKey ==
    ASSUME OneAtATime, KeyInv, NEW l \in Loaders, Read(l)
    PROVE  KeyInv'
<1> DEFINE f == FileOf(l)
<1> DEFINE d == Parsed(f)
<1> DEFINE x == IF Parsed(f) = NoData THEN "answer"
                ELSE IF Locked THEN "commit"
                ELSE IF f = "lcn" THEN "place" ELSE "mtime"
<1> DEFINE r == [loader[l] EXCEPT !.pc = x, !.data = d]
<1>1. /\ loader[l].pc = "read" /\ f \in Files /\ f = RouteFile(loader[l].route)
      /\ sec' = sec /\ file' = file /\ cache' = cache /\ place' = place
  BY RouteFileType DEF Read, FileOf
<1>2. loader' = [loader EXCEPT ![l] = r]
  BY DEF Read
<1>3. /\ d \in Data /\ (file[f].exists => d = Holds(f))
  BY <1>1, ParsedType DEF KeyInv
<1>4. x \in PCs /\ x \in {"answer", "commit", "place", "mtime"}
  BY DEF PCs, Storing
<1>5. /\ x = "answer" <=> d = NoData
      /\ IF Locked THEN x \in {"answer", "commit"} ELSE x # "commit"
      /\ x = "place" => f = "lcn"
      /\ x = "mtime" => f # "lcn"
  OBVIOUS
<1>6. ~ file[f].exists /\ f = "lcn" => d = NoData
  BY DEF Parsed
<1> HIDE DEF x, d, f
<1>7. /\ r \in LoaderRec /\ r.pc = x /\ r.data = d /\ r.route = loader[l].route
      /\ r.mtime = loader[l].mtime
  <2>1. loader[l] \in LoaderRec
    BY DEF KeyInv, TypeOK
  <2> QED
    BY <1>3, <1>4, <2>1 DEF LoaderRec, PCs
<1> HIDE DEF r
<1>8. /\ LoaderGood(loader[l], cache)
      /\ \A g \in Files : CacheGood(g, loader[l], cache)
      /\ IndexGood(loader[l], cache, place)
  BY Focus
<1>9. /\ loader[l].mtime # 0 /\ loader[l].mtime <= file[f].mtime
      /\ loader[l].mtime \in Nat /\ file[f].mtime \in Nat
  BY <1>1, <1>8, LoaderType DEF LoaderGood, KeyInv, TypeOK
<1>10. x # "answer" => d = Holds(f)
  <2>1. f # "lcn" => f = "gg"
    BY <1>1 DEF Files
  <2>2. f = "gg" => file[f].exists
    BY <1>1, <1>9 DEF KeyInv, FilesOK
  <2> QED
    BY <1>3, <1>5, <1>6, <2>1, <2>2
<1>11. LoaderGood(r, cache)
  BY <1>1, <1>4, <1>5, <1>7, <1>9, <1>10 DEF LoaderGood, Storing
<1>12. ASSUME NEW g \in Files
       PROVE  CacheGood(g, r, cache)
  BY <1>1, <1>4, <1>7, <1>8 DEF CacheGood
<1>13. IndexGood(r, cache, place)
  BY <1>1, <1>4, <1>5, <1>7, <1>8 DEF IndexGood
<1>14. cache \in [Files -> [mtime : Nat, data : Data]] /\ place.ver \in Nat
  BY DEF KeyInv, TypeOK
<1> QED
  BY <1>1, <1>2, <1>7, <1>11, <1>12, <1>13, <1>14, StepKey

LEMMA CommitKey ==
    ASSUME OneAtATime, KeyInv, NEW l \in Loaders, Commit(l)
    PROVE  KeyInv'
<1> DEFINE f == FileOf(l)
<1> DEFINE n == [mtime |-> loader[l].mtime, data |-> loader[l].data]
<1> DEFINE c == [cache EXCEPT ![f] = n]
<1> DEFINE pl == IF f = "lcn" THEN PlaceIndex(loader[l].data) ELSE place
<1> DEFINE r == [loader[l] EXCEPT !.pc = "answer"]
<1>1. /\ loader[l].pc = "commit" /\ f \in Files /\ f = RouteFile(loader[l].route)
      /\ sec' = sec /\ file' = file /\ cache' = c /\ place' = pl
      /\ "lcn" \in Files
  BY RouteFileType DEF Commit, FileOf, Key, Files
<1>2. loader' = [loader EXCEPT ![l] = r]
  BY DEF Commit
<1>3. loader[l].data \in Data /\ loader[l].mtime \in Nat
  BY LoaderType DEF KeyInv
<1>4. n \in [mtime : Nat, data : Data] /\ n.mtime = loader[l].mtime /\ n.data = loader[l].data
  BY <1>3
<1> HIDE DEF n
<1>5. c \in [Files -> [mtime : Nat, data : Data]] /\ c[f] = n /\ \A g \in Files \ {f} : c[g] = cache[g]
  BY <1>1, <1>4 DEF KeyInv, TypeOK
<1>6. /\ r \in LoaderRec /\ r.pc = "answer" /\ r.route = loader[l].route
  <2>1. loader[l] \in LoaderRec
    BY DEF KeyInv, TypeOK
  <2> QED
    BY <1>3, <2>1 DEF LoaderRec
<1>7. /\ LoaderGood(loader[l], cache)
      /\ \A g \in Files : CacheGood(g, loader[l], cache)
      /\ IndexGood(loader[l], cache, place)
  BY Focus
<1>8. /\ pl.ver \in Nat /\ (f = "lcn" => pl.ver = IndexVer(loader[l].data))
      /\ (f # "lcn" => pl = place)
  <2>1. place.ver \in Nat
    BY DEF KeyInv, TypeOK
  <2> QED
    BY <1>3, <2>1, PlaceIndexVer
<1> HIDE DEF f, c, pl, r
<1>9. LoaderGood(r, c)
  BY <1>6 DEF LoaderGood, Storing
<1>10. ASSUME NEW g \in Files
       PROVE  CacheGood(g, r, c)
  <2>1. CASE g = f
    <3>1. /\ loader[l].mtime <= file[f].mtime
          /\ loader[l].mtime = file[f].mtime /\ file[f].fresh => loader[l].data = Holds(f)
      BY <1>1, <1>7 DEF LoaderGood
    <3> QED
      BY <1>4, <1>5, <2>1, <3>1 DEF CacheGood
  <2>2. CASE g # f
    BY <1>1, <1>5, <1>7, <2>2 DEF CacheGood
  <2> QED
    BY <2>1, <2>2
<1>11. IndexGood(r, c, pl)
  BY <1>1, <1>4, <1>5, <1>6, <1>7, <1>8 DEF IndexGood
<1> QED
  BY <1>1, <1>2, <1>5, <1>6, <1>8, <1>9, <1>10, <1>11, StepKey

LEMMA StorePlaceKey ==
    ASSUME OneAtATime, KeyInv, NEW l \in Loaders, StorePlace(l)
    PROVE  KeyInv'
<1> DEFINE pl == PlaceIndex(loader[l].data)
<1> DEFINE r == [loader[l] EXCEPT !.pc = "mtime"]
<1>1. /\ loader[l].pc = "place" /\ sec' = sec /\ file' = file /\ cache' = cache
      /\ place' = pl /\ loader' = [loader EXCEPT ![l] = r]
  BY DEF StorePlace
<1>2. loader[l].data \in Data /\ cache \in [Files -> [mtime : Nat, data : Data]]
  BY LoaderType DEF KeyInv, TypeOK
<1>3. pl.ver = IndexVer(loader[l].data) /\ pl.ver \in Nat
  BY <1>2, PlaceIndexVer
<1>4. /\ r \in LoaderRec /\ r.pc = "mtime" /\ r.data = loader[l].data
      /\ r.route = loader[l].route /\ r.mtime = loader[l].mtime
  <2>1. loader[l] \in LoaderRec
    BY DEF KeyInv, TypeOK
  <2> QED
    BY <2>1 DEF LoaderRec, Storing
<1>5. /\ LoaderGood(loader[l], cache)
      /\ \A g \in Files : CacheGood(g, loader[l], cache)
      /\ IndexGood(loader[l], cache, place)
  BY Focus
<1> HIDE DEF pl, r
<1>6. LoaderGood(r, cache)
  BY <1>1, <1>4, <1>5 DEF LoaderGood, Storing
<1>7. ASSUME NEW g \in Files
      PROVE  CacheGood(g, r, cache)
  BY <1>1, <1>4, <1>5 DEF CacheGood
<1>8. IndexGood(r, cache, pl)
  <2>1. RouteFile(r.route) = "lcn"
    BY <1>1, <1>4, <1>5 DEF LoaderGood
  <2> QED
    BY <1>3, <1>4, <2>1 DEF IndexGood
<1> QED
  BY <1>1, <1>2, <1>3, <1>4, <1>6, <1>7, <1>8, StepKey

LEMMA StoreMTimeKey ==
    ASSUME OneAtATime, KeyInv, NEW l \in Loaders, StoreMTime(l)
    PROVE  KeyInv'
<1> DEFINE f == FileOf(l)
<1> DEFINE n == [cache[f] EXCEPT !.mtime = loader[l].mtime]
<1> DEFINE c == [cache EXCEPT ![f] = n]
<1> DEFINE r == [loader[l] EXCEPT !.pc = "data"]
<1>1. /\ loader[l].pc = "mtime" /\ f \in Files /\ f = RouteFile(loader[l].route)
      /\ sec' = sec /\ file' = file /\ cache' = c /\ place' = place
      /\ loader' = [loader EXCEPT ![l] = r] /\ "lcn" \in Files
  BY RouteFileType DEF StoreMTime, FileOf, Key, Files
<1>2. loader[l].data \in Data /\ loader[l].mtime \in Nat /\ place.ver \in Nat
  BY LoaderType DEF KeyInv, TypeOK
<1>3. n \in [mtime : Nat, data : Data] /\ n.mtime = loader[l].mtime /\ n.data = cache[f].data
  <2>1. cache[f] \in [mtime : Nat, data : Data]
    BY <1>1 DEF KeyInv, TypeOK
  <2> QED
    BY <1>2, <2>1
<1> HIDE DEF n
<1>4. /\ c \in [Files -> [mtime : Nat, data : Data]] /\ c[f] = n
      /\ \A g \in Files \ {f} : c[g] = cache[g]
  BY <1>1, <1>3 DEF KeyInv, TypeOK
<1>5. /\ r \in LoaderRec /\ r.pc = "data" /\ r.data = loader[l].data
      /\ r.route = loader[l].route /\ r.mtime = loader[l].mtime
  <2>1. loader[l] \in LoaderRec
    BY DEF KeyInv, TypeOK
  <2> QED
    BY <2>1 DEF LoaderRec, Storing
<1>6. /\ LoaderGood(loader[l], cache)
      /\ \A g \in Files : CacheGood(g, loader[l], cache)
      /\ IndexGood(loader[l], cache, place)
  BY Focus
<1> HIDE DEF f, c, r
<1>7. LoaderGood(r, c)
  BY <1>1, <1>3, <1>4, <1>5, <1>6 DEF LoaderGood, Storing
<1>8. ASSUME NEW g \in Files
      PROVE  CacheGood(g, r, c)
  <2>1. CASE g = f
    <3>1. loader[l].mtime <= file[f].mtime
      BY <1>1, <1>6 DEF LoaderGood, Storing
    <3> QED
      BY <1>1, <1>3, <1>4, <1>5, <2>1, <3>1 DEF CacheGood
  <2>2. CASE g # f
    BY <1>1, <1>4, <1>6, <2>2 DEF CacheGood
  <2> QED
    BY <2>1, <2>2
<1>9. IndexGood(r, c, place)
  BY <1>1, <1>3, <1>4, <1>5, <1>6 DEF IndexGood
<1> QED
  BY <1>1, <1>2, <1>4, <1>5, <1>7, <1>8, <1>9, StepKey

LEMMA StoreDataKey ==
    ASSUME OneAtATime, KeyInv, NEW l \in Loaders, StoreData(l)
    PROVE  KeyInv'
<1> DEFINE f == FileOf(l)
<1> DEFINE n == [cache[f] EXCEPT !.data = loader[l].data]
<1> DEFINE c == [cache EXCEPT ![f] = n]
<1> DEFINE r == [loader[l] EXCEPT !.pc = "answer"]
<1>1. /\ loader[l].pc = "data" /\ f \in Files /\ f = RouteFile(loader[l].route)
      /\ sec' = sec /\ file' = file /\ cache' = c /\ place' = place
      /\ loader' = [loader EXCEPT ![l] = r] /\ "lcn" \in Files
  BY RouteFileType DEF StoreData, FileOf, Files
<1>2. loader[l].data \in Data /\ place.ver \in Nat
  BY LoaderType DEF KeyInv, TypeOK
<1>3. n \in [mtime : Nat, data : Data] /\ n.mtime = cache[f].mtime /\ n.data = loader[l].data
  <2>1. cache[f] \in [mtime : Nat, data : Data]
    BY <1>1 DEF KeyInv, TypeOK
  <2> QED
    BY <1>2, <2>1
<1> HIDE DEF n
<1>4. /\ c \in [Files -> [mtime : Nat, data : Data]] /\ c[f] = n
      /\ \A g \in Files \ {f} : c[g] = cache[g]
  BY <1>1, <1>3 DEF KeyInv, TypeOK
<1>5. r \in LoaderRec /\ r.pc = "answer" /\ r.route = loader[l].route
  <2>1. loader[l] \in LoaderRec
    BY DEF KeyInv, TypeOK
  <2> QED
    BY <2>1 DEF LoaderRec
<1>6. /\ LoaderGood(loader[l], cache)
      /\ \A g \in Files : CacheGood(g, loader[l], cache)
      /\ IndexGood(loader[l], cache, place)
  BY Focus
<1> HIDE DEF f, c, r
<1>7. LoaderGood(r, c)
  BY <1>5 DEF LoaderGood, Storing
<1>8. ASSUME NEW g \in Files
      PROVE  CacheGood(g, r, c)
  <2>1. CASE g = f
    <3>1. /\ loader[l].mtime <= file[f].mtime /\ cache[f].mtime = loader[l].mtime
          /\ loader[l].mtime = file[f].mtime /\ file[f].fresh => loader[l].data = Holds(f)
      BY <1>1, <1>6 DEF LoaderGood, Storing
    <3> QED
      BY <1>3, <1>4, <2>1, <3>1 DEF CacheGood
  <2>2. CASE g # f
    BY <1>1, <1>4, <1>6, <2>2 DEF CacheGood
  <2> QED
    BY <2>1, <2>2
<1>9. IndexGood(r, c, place)
  BY <1>1, <1>3, <1>4, <1>5, <1>6 DEF IndexGood
<1> QED
  BY <1>1, <1>2, <1>4, <1>5, <1>7, <1>8, <1>9, StepKey

LEMMA AnswerKey ==
    ASSUME OneAtATime, KeyInv, NEW l \in Loaders, Answer(l)
    PROVE  KeyInv'
<1>1. /\ loader[l].pc = "answer" /\ sec' = sec /\ file' = file /\ cache' = cache
      /\ place' = place /\ loader' = [loader EXCEPT ![l] = Idle]
  BY DEF Answer
<1>2. place.ver \in Nat /\ cache \in [Files -> [mtime : Nat, data : Data]]
  BY DEF KeyInv, TypeOK
<1>3. Idle \in LoaderRec /\ Idle.pc = "idle"
  BY DEF Idle, LoaderRec, NoData, Data
<1>4. /\ \A g \in Files : CacheGood(g, loader[l], cache)
      /\ IndexGood(loader[l], cache, place)
  BY Focus
<1>5. LoaderGood(Idle, cache)
  BY <1>3 DEF LoaderGood, Storing
<1>6. ASSUME NEW g \in Files
      PROVE  CacheGood(g, Idle, cache)
  BY <1>1, <1>3, <1>4 DEF CacheGood
<1>7. IndexGood(Idle, cache, place)
  BY <1>1, <1>3, <1>4 DEF IndexGood
<1> QED
  BY <1>1, <1>2, <1>3, <1>5, <1>6, <1>7, StepKey

LEMMA NextKey ==
    ASSUME OneAtATime, CupStays, KeyInv, [Next]_vars
    PROVE  KeyInv'
<1>1. CASE UNCHANGED vars
  <2>1. TypeOK' /\ FilesOK'
    BY <1>1 DEF vars, KeyInv, TypeOK, FilesOK
  <2>2. LoadersOK' /\ CachesOK'
    BY <1>1 DEF vars, KeyInv, LoadersOK, CachesOK, FileOf, Holds, Content
  <2>3. IndexOK'
    BY <1>1 DEF vars, KeyInv, IndexOK, Indexed, FileOf
  <2> QED
    BY <2>1, <2>2, <2>3 DEF KeyInv
<1>2. CASE \E f \in Files : \E kind \in Kinds[f] : Write(f, kind)
  BY <1>2, WriteKey
<1>3. CASE (\E f \in Moved : MoveAway(f) \/ MoveBack(f)) \/ Tick
  BY <1>3, MoveKey
<1>4. CASE \E l \in Loaders, route \in Routes : Stat(l, route)
  BY <1>4, StatKey
<1>5. CASE \E l \in Loaders : Read(l) \/ Commit(l) \/ Answer(l)
  BY <1>5, ReadKey, CommitKey, AnswerKey
<1>6. CASE \E l \in Loaders : StorePlace(l) \/ StoreMTime(l) \/ StoreData(l)
  BY <1>6, StorePlaceKey, StoreMTimeKey, StoreDataKey
<1> QED
  BY <1>1, <1>2, <1>3, <1>4, <1>5, <1>6 DEF Next

(* CacheKeyed is KeyInv at rest.                                           *)
LEMMA KeyShows ==
    ASSUME KeyInv
    PROVE  CacheKeyed
<1>1. ASSUME NEW f \in Files
      PROVE  Keyed(f)
  <2> SUFFICES ASSUME AllIdle, file[f].exists, file[f].fresh,
                      cache[f].data # NoData, cache[f].mtime = file[f].mtime
               PROVE  cache[f].data = Parsed(f)
    BY DEF Keyed
  <2>1. file[f].mtime # 0 /\ Parsed(f) = Holds(f)
    BY ParsedType DEF KeyInv, FilesOK
  <2>2. \A l \in Loaders : loader[l].pc # "data"
    BY DEF AllIdle
  <2> QED
    BY <2>1, <2>2 DEF KeyInv, CachesOK
<1>2. IndexMatchesData
  <2> SUFFICES ASSUME AllIdle
               PROVE  place.ver = IndexVer(cache["lcn"].data)
    BY DEF IndexMatchesData, IndexVer
  <2>1. \A l \in Loaders : ~ Indexed(l)
    BY DEF AllIdle, Indexed
  <2> QED
    BY <2>1 DEF KeyInv, IndexOK
<1>3. Keyed("lcn") /\ Keyed("gg")
  BY <1>1 DEF Files
<1> QED
  BY <1>2, <1>3 DEF CacheKeyed, LCNKeyed, GGCupKeyed

----------------------------------------------------------------------------
(* PagesFresh, of ranking.Cache.                                           *)
FreshInv == LoadsFresh /\ DOMAIN shown = Loaders /\ PagesFresh

LoadGood(r) ==
    /\ r.pc # "idle" => r.route \in Routes
    /\ r.pc = "read" => r.since <= file[RouteFile(r.route)].ver
    /\ r.pc \in {"answer"} \cup Storing =>
          \/ r.data = NoData
          \/ RouteFile(r.route) = "gg" /\ r.data = WoInfo
          \/ r.data.ver >= r.since

LEMMA StepFresh ==
    ASSUME OneAtATime, ~ Locked, KeyInv, FreshInv, NEW l \in Loaders, NEW r,
           file' = file, loader' = [loader EXCEPT ![l] = r], LoadGood(r)
    PROVE  LoadsFresh'
<1>1. loader'[l] = r
  BY DEF KeyInv, TypeOK
<1>2. \A k \in Loaders : k = l
  BY DEF OneAtATime
<1> QED
  BY <1>1, <1>2 DEF LoadsFresh, LoadGood, FileOf

LEMMA FileFresh ==
    ASSUME CupStays, KeyInv, FreshInv,
           \/ \E f \in Files : \E kind \in Kinds[f] : Write(f, kind)
           \/ \E f \in Moved : MoveAway(f) \/ MoveBack(f)
           \/ Tick
           \/ UNCHANGED vars
    PROVE  FreshInv'
<1>1. loader' = loader /\ shown' = shown
  BY DEF Write, MoveAway, MoveBack, Tick, vars
<1>2. ASSUME NEW g \in Files
      PROVE  file[g].ver \in Nat /\ file'[g].ver \in Nat /\ file[g].ver <= file'[g].ver
  <2>1. file[g].ver \in Nat
    BY DEF KeyInv, TypeOK
  <2>2. CASE file' = file
    BY <2>1, <2>2
  <2>3. CASE \E f \in Files : \E kind \in Kinds[f] : Write(f, kind)
    <3>1. PICK f \in Files : \E kind \in Kinds[f] : Write(f, kind)
      BY <2>3
    <3>2. PICK kind \in Kinds[f] : Write(f, kind)
      BY <3>1
    <3>3. file'[g].ver \in {file[g].ver, file[g].ver + 1}
      BY <3>2 DEF Write, KeyInv, TypeOK
    <3> QED
      BY <2>1, <3>3
  <2>4. CASE \E f \in Moved : MoveAway(f) \/ MoveBack(f)
    <3>1. file'[g].ver = file[g].ver
      BY <2>4 DEF MoveAway, MoveBack, KeyInv, TypeOK
    <3> QED
      BY <2>1, <3>1
  <2> QED
    BY <2>2, <2>3, <2>4 DEF Tick, vars
<1>3. ASSUME NEW l \in Loaders, loader[l].pc = "read"
      PROVE  loader[l].since <= file'[FileOf(l)].ver
  <2>1. FileOf(l) \in Files /\ loader[l].since \in Nat
    BY LoaderType DEF KeyInv
  <2>2. loader[l].since <= file[FileOf(l)].ver
    BY <1>3 DEF FreshInv, LoadsFresh
  <2> QED
    BY <1>2, <2>1, <2>2
<1>4. LoadsFresh'
  BY <1>1, <1>3 DEF FreshInv, LoadsFresh, FileOf
<1>5. PagesFresh'
  BY <1>1 DEF FreshInv, PagesFresh
<1> QED
  BY <1>1, <1>4, <1>5 DEF FreshInv

LEMMA StatFresh ==
    ASSUME OneAtATime, ~ Locked, KeyInv, FreshInv, NEW l \in Loaders,
           NEW route \in Routes, Stat(l, route)
    PROVE  FreshInv'
<1> DEFINE f == RouteFile(route)
<1> DEFINE x == IF file[f].exists /\ ~ Cached(f) THEN "read" ELSE "answer"
<1> DEFINE d == IF ~ file[f].exists THEN (IF f = "gg" THEN WoInfo ELSE NoData)
                ELSE IF Cached(f) THEN cache[f].data ELSE NoData
<1>1. f \in Files /\ loader[l].pc = "idle" /\ file' = file /\ shown' = shown
  BY RouteFileType DEF Stat
<1>2. Since(f) \in Nat /\ Since(f) <= file[f].ver
  BY <1>1, ParsedType DEF KeyInv
<1>3. /\ loader'[l].pc = x /\ loader'[l].route = route /\ loader'[l].since = Since(f)
      /\ loader'[l].data = d
  <2>1. loader \in [Loaders -> LoaderRec]
    BY DEF KeyInv, TypeOK
  <2> DEFINE st == [Idle EXCEPT !.route = route, !.since = Since(f)]
  <2>2. /\ st \in LoaderRec /\ st.route = route /\ st.since = Since(f) /\ st.data = NoData
    <3>1. Idle \in LoaderRec /\ Idle.data = NoData
      BY DEF Idle, LoaderRec, NoData, Data
    <3> QED
      BY <1>2, <3>1 DEF LoaderRec
  <2>3. \/ /\ loader' = [loader EXCEPT ![l] = [st EXCEPT !.pc = "answer", !.data = d]]
           /\ x = "answer"
        \/ /\ loader' = [loader EXCEPT ![l] = [st EXCEPT !.pc = "read", !.mtime = file[f].mtime]]
           /\ x = "read" /\ d = NoData
    <3>1. CASE ~ file[f].exists
      BY <3>1 DEF Stat
    <3>2. CASE file[f].exists /\ Cached(f)
      BY <3>2 DEF Stat
    <3>3. CASE file[f].exists /\ ~ Cached(f)
      BY <3>3 DEF Stat
    <3> QED
      BY <3>1, <3>2, <3>3
  <2> HIDE DEF st, x, d, f
  <2>4. CASE /\ loader' = [loader EXCEPT ![l] = [st EXCEPT !.pc = "answer", !.data = d]]
             /\ x = "answer"
    BY <2>1, <2>2, <2>4 DEF LoaderRec
  <2>5. CASE /\ loader' = [loader EXCEPT ![l] = [st EXCEPT !.pc = "read", !.mtime = file[f].mtime]]
             /\ x = "read" /\ d = NoData
    BY <2>1, <2>2, <2>5 DEF LoaderRec
  <2> QED
    BY <2>3, <2>4, <2>5
<1>4. ASSUME file[f].exists, Cached(f)
      PROVE  cache[f].data.ver >= Since(f)
  <2>1. cache[f].data \in Data /\ cache[f].data.ver \in Nat
    BY <1>1 DEF KeyInv, TypeOK, Data
  <2>2. CASE file[f].fresh
    <3>1. CacheGood(f, loader[l], cache)
      BY <1>1, Focus
    <3>2. file[f].mtime # 0 /\ Parsed(f) = Holds(f)
      BY <1>1, <1>4, ParsedType DEF KeyInv, FilesOK
    <3>3. cache[f].data = Parsed(f)
      BY <1>1, <1>4, <2>2, <3>1, <3>2 DEF CacheGood, Cached
    <3> QED
      BY <2>1, <2>2, <3>3 DEF Since
  <2>3. CASE ~ file[f].fresh
    BY <2>1, <2>3 DEF Since
  <2> QED
    BY <2>2, <2>3
<1>5. LoadsFresh'
  <2>1. \A k \in Loaders : k = l
    BY DEF OneAtATime
  <2>2. x = "read" => Since(f) <= file[f].ver
    BY <1>2
  <2>3. x = "answer" => d = NoData \/ (f = "gg" /\ d = WoInfo) \/ d.ver >= Since(f)
    BY <1>4
  <2>4. x \in {"read", "answer"}
    OBVIOUS
  <2> HIDE DEF x, d
  <2> QED
    BY <1>1, <1>3, <2>1, <2>2, <2>3, <2>4 DEF LoadsFresh, FileOf, Storing
<1> QED
  BY <1>1, <1>5 DEF FreshInv, PagesFresh

LEMMA ReadFresh ==
    ASSUME OneAtATime, ~ Locked, KeyInv, FreshInv, NEW l \in Loaders, Read(l)
    PROVE  FreshInv'
<1> DEFINE f == FileOf(l)
<1> DEFINE x == IF Parsed(f) = NoData THEN "answer" ELSE IF f = "lcn" THEN "place" ELSE "mtime"
<1> DEFINE r == [loader[l] EXCEPT !.pc = x, !.data = Parsed(f)]
<1>1. /\ loader[l].pc = "read" /\ f = RouteFile(loader[l].route) /\ f \in Files
      /\ file' = file /\ shown' = shown /\ loader' = [loader EXCEPT ![l] = r]
  BY RouteFileType DEF Read, FileOf
<1>2. loader[l].since <= file[f].ver
  BY <1>1 DEF FreshInv, LoadsFresh
<1>3. \/ Parsed(f) = NoData
      \/ f = "gg" /\ Parsed(f) = WoInfo
      \/ Parsed(f).ver = file[f].ver
  BY DEF Parsed, Content
<1>4. /\ r.pc = x /\ r.data = Parsed(f) /\ r.route = loader[l].route
      /\ r.since = loader[l].since
  <2>1. loader[l] \in LoaderRec
    BY DEF KeyInv, TypeOK
  <2> HIDE DEF x, f
  <2> QED
    BY <2>1 DEF LoaderRec
<1>5. x # "read" /\ file[f].ver \in Nat /\ loader[l].since \in Nat
  BY <1>1, LoaderType DEF KeyInv, TypeOK
<1>a. loader[l].route \in Routes
  BY <1>1 DEF FreshInv, LoadsFresh
<1> HIDE DEF r, x, f
<1>6. LoadGood(r)
  BY <1>1, <1>2, <1>3, <1>4, <1>5, <1>a DEF LoadGood
<1>7. LoadsFresh'
  BY <1>1, <1>6, StepFresh
<1> QED
  BY <1>1, <1>7 DEF FreshInv, PagesFresh

LEMMA StoreFresh ==
    ASSUME OneAtATime, ~ Locked, KeyInv, FreshInv, NEW l \in Loaders,
           StorePlace(l) \/ StoreMTime(l) \/ StoreData(l)
    PROVE  FreshInv'
<1>1. PICK x \in {"mtime", "data", "answer"} : loader' = [loader EXCEPT ![l].pc = x]
  BY DEF StorePlace, StoreMTime, StoreData
<1>2. loader[l].pc \in Storing /\ file' = file /\ shown' = shown
  BY DEF StorePlace, StoreMTime, StoreData, Storing
<1> DEFINE r == [loader[l] EXCEPT !.pc = x]
<1>3. loader' = [loader EXCEPT ![l] = r]
  BY <1>1
<1>4. /\ r.pc = x /\ r.data = loader[l].data /\ r.route = loader[l].route
      /\ r.since = loader[l].since
  <2>1. loader[l] \in LoaderRec
    BY DEF KeyInv, TypeOK
  <2> QED
    BY <2>1 DEF LoaderRec
<1>a. loader[l].route \in Routes
  BY <1>2 DEF FreshInv, LoadsFresh, Storing
<1> HIDE DEF r
<1>5. LoadGood(r)
  BY <1>1, <1>2, <1>4, <1>a DEF FreshInv, LoadsFresh, LoadGood, FileOf
<1>6. LoadsFresh'
  BY <1>2, <1>3, <1>5, StepFresh
<1> QED
  BY <1>2, <1>6 DEF FreshInv, PagesFresh

LEMMA AnswerFresh ==
    ASSUME OneAtATime, ~ Locked, PageRoutes, KeyInv, FreshInv, NEW l \in Loaders, Answer(l)
    PROVE  FreshInv'
<1> DEFINE route == loader[l].route
<1> DEFINE page == Page(route, loader[l].data)
<1>1. /\ loader[l].pc = "answer" /\ file' = file /\ loader' = [loader EXCEPT ![l] = Idle]
      /\ shown' = [shown EXCEPT ![l] = [route |-> route, data |-> page,
                                        since |-> loader[l].since]]
  BY DEF Answer
<1>2. LoadGood(Idle)
  BY DEF Idle, LoadGood, Storing
<1>3. LoadsFresh'
  BY <1>1, <1>2, StepFresh
<1>4. ASSUME route # "user_details", page # NoData
      PROVE  page.ver >= loader[l].since
  <2>1. \/ loader[l].data = NoData
        \/ RouteFile(route) = "gg" /\ loader[l].data = WoInfo
        \/ loader[l].data.ver >= loader[l].since
    BY <1>1 DEF FreshInv, LoadsFresh, FileOf
  <2>2. GGCupBool(WoInfo) /\ BoolFromAny(WoInfo)
    BY DEF GGCupBool, BoolFromAny, WoInfo
  <2>3. CASE route = "tournaments"
    BY <1>4, <2>1, <2>3 DEF Page, TournamentsPage, RouteFile
  <2>4. CASE route = "gg_cup_thanks"
    BY <1>4, <2>1, <2>2, <2>4 DEF Page, ThanksPage
  <2>5. CASE route = "startup"
    BY <1>4, <2>1, <2>2, <2>5 DEF Page, GGCupView
  <2>6. route \in Routes
    BY <1>1 DEF FreshInv, LoadsFresh
  <2> QED
    BY <1>4, <2>3, <2>4, <2>5, <2>6 DEF PageRoutes
<1> HIDE DEF page, route
<1>5. PagesFresh'
  <2>1. \A k \in Loaders : k = l
    BY DEF OneAtATime
  <2>2. /\ shown'[l].route = route /\ shown'[l].data = page
        /\ shown'[l].since = loader[l].since
    BY <1>1 DEF FreshInv
  <2> QED
    BY <1>4, <2>1, <2>2 DEF PagesFresh
<1>6. DOMAIN shown' = Loaders
  BY <1>1 DEF FreshInv
<1> QED
  BY <1>3, <1>5, <1>6 DEF FreshInv

LEMMA NextFresh ==
    ASSUME OneAtATime, ~ Locked, CupStays, PageRoutes, KeyInv, FreshInv, [Next]_vars
    PROVE  FreshInv'
<1>1. CASE \/ \E f \in Files : \E kind \in Kinds[f] : Write(f, kind)
           \/ \E f \in Moved : MoveAway(f) \/ MoveBack(f)
           \/ Tick
           \/ UNCHANGED vars
  BY <1>1, FileFresh
<1>2. CASE \E l \in Loaders, route \in Routes : Stat(l, route)
  BY <1>2, StatFresh
<1>3. CASE \E l \in Loaders : Read(l) \/ Answer(l)
  BY <1>3, ReadFresh, AnswerFresh
<1>4. CASE \E l \in Loaders : StorePlace(l) \/ StoreMTime(l) \/ StoreData(l)
  BY <1>4, StoreFresh
<1>5. ~ \E l \in Loaders : Commit(l)
  BY DEF KeyInv, LoadersOK, Commit
<1> QED
  BY <1>1, <1>2, <1>3, <1>4, <1>5 DEF Next

----------------------------------------------------------------------------
(* What LoadLCN and LoadGGCup keep under the present modification time is  *)
(* what the file holds, and the place index is of that ranking, however    *)
(* writes fall between the stat, the read and the stores: for Provider     *)
(* with any number of requests at once, for ranking.Cache with one.        *)
THEOREM CacheKeyedAlways == ASSUME OneAtATime, CupStays PROVE Spec => []CacheKeyed
<1>1. Init => KeyInv
  BY InitKey
<1>2. KeyInv /\ [Next]_vars => KeyInv'
  BY NextKey
<1>3. KeyInv => CacheKeyed
  BY KeyShows
<1> QED
  BY <1>1, <1>2, <1>3, PTL DEF Spec

(* A page of the server's cache shows nothing older than what the file     *)
(* held when its request began.                                            *)
THEOREM PagesFreshAlways ==
    ASSUME OneAtATime, ~ Locked, CupStays, PageRoutes
    PROVE  Spec => []PagesFresh
<1>1. Init => KeyInv /\ FreshInv
  <2>1. ASSUME Init
        PROVE  FreshInv
    <3>1. \A l \in Loaders : loader[l].pc = "idle"
      BY <2>1 DEF Init, Idle
    <3>2. \A l \in Loaders : shown[l].data = NoData
      BY <2>1 DEF Init
    <3>3. DOMAIN shown = Loaders
      BY <2>1 DEF Init
    <3> QED
      BY <3>1, <3>2, <3>3 DEF FreshInv, LoadsFresh, PagesFresh, Storing
  <2> QED
    BY <2>1, InitKey
<1>2. KeyInv /\ FreshInv /\ [Next]_vars => KeyInv' /\ FreshInv'
  BY NextKey, NextFresh
<1>3. KeyInv /\ FreshInv => PagesFresh
  BY DEF FreshInv
<1> QED
  BY <1>1, <1>2, <1>3, PTL DEF Spec
=============================================================================
