--------------------------- MODULE MCRankingCache ---------------------------
(* Both implementations of the ranking cache, next to each other: an       *)
(* initial choice says which one the server was built with.                *)
EXTENDS RankingCache

(* One request at a time through the cache the server uses, over both      *)
(* files ...                                                               *)
CacheKinds == [lcn |-> {"ranked", "plain"}, gg |-> {"cup", "empty"}]

OneLoader == loader'["b"] = loader["b"]

(* ... and two at a time through the provider with the mutex.              *)
Provider == INSTANCE RankingCache WITH
    Locked <- TRUE, Routes <- {"user_details"},
    Kinds <- [lcn |-> {"text", "plain", "bad"}, gg |-> {}]

VARIABLE built      \* the implementation that is followed

MCInit == Init /\ built \in {"cache", "provider"}

MCNext ==
    /\ UNCHANGED built
    /\ \/ built = "cache" /\ Next /\ OneLoader
       \/ built = "provider" /\ Provider!Next

MCSpec == MCInit /\ [][MCNext]_<<vars, built>>
=============================================================================
