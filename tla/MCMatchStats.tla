---------------------------- MODULE MCMatchStats ----------------------------
(* Three instances of MatchStats next to each other: what matters for the  *)
(* counters of one report, for the rolling windows and for several members *)
(* and matches does not interact, and together would be too many states.   *)
EXTENDS MatchStats

CONSTANTS p1, p2, stranger

Tuple(id, theam, color) == [id |-> id, theam |-> theam, color |-> color,
                            ok |-> id # "malformed"]

(* A list with a malformed tuple, one with a player who has left, one that *)
(* counts nobody.                                                          *)
MCStartLists ==
    {[count |-> 2, list |-> <<Tuple(p2, 1, 3), Tuple("malformed", 0, 0),
                              Tuple(p1, 1, 5)>>],
     [count |-> 2, list |-> <<Tuple(stranger, 1, 3), Tuple(p1, 2, 6)>>],
     [count |-> 0, list |-> <<Tuple(p1, 1, 4)>>]}

(* Series with a short and with a long window.                             *)
MCWindow == [s \in Series |-> CASE s \in {"wood", "stone"} -> 2
                                [] s = "food" -> 3 [] OTHER -> 4]

Stock(n) == [r \in Resource |-> n]
OneStock == {Stock(1)}
OneScore == {1}

(* One player's counters run through their 16 and 32 bits.                 *)
Counters == INSTANCE MatchStats WITH
    Reporters <- {p1}, StartLists <- {}, TimeSteps <- {1}, CountSteps <- {0, 3},
    ScoreSteps <- -1 .. 1, Populations <- {0, 2}, MaxTime <- 4, MaxReports <- 4,
    MaxMatch <- 1

(* One player's stocks over several windows, and into a second match.      *)
Rolling == INSTANCE MatchStats WITH
    Reporters <- {p1}, StartLists <- {}, TimeSteps <- {0, 1, 3},
    Populations <- {1}, Stores <- {Stock(0), Stock(3)}, MaxTime <- 7,
    MaxReports <- 3

VARIABLE focus      \* which of the instances is followed

MCInit == Init /\ focus \in {"members", "counters", "rolling"}

MCNext ==
    /\ UNCHANGED focus
    /\ \/ focus = "members" /\ Next
       \/ focus = "counters" /\ Counters!Next
       \/ focus = "rolling" /\ Rolling!Next

MCSpec == MCInit /\ [][MCNext]_<<vars, focus>>

=============================================================================
