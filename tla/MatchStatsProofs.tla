-------------------------- MODULE MatchStatsProofs --------------------------
(***************************************************************************)
(* What UpdateStat keeps of a player's game is right through any number of *)
(* overflows, for every width of the fields and any number of players,     *)
(* reports and games.                                                      *)
(*                                                                         *)
(* The record keeps counters modulo 2^32 and the overflows of the fields   *)
(* apart.  The invariant ties both to the game: the overflows counted are  *)
(* those that happened, so the next report can be unwrapped.               *)
(***************************************************************************)
EXTENDS MatchStats, FiniteSetTheorems, SequenceTheorems, TLAPS

(* Remainders.                                                             *)
LEMMA DivMod ==
    ASSUME NEW n \in Nat \ {0}, NEW a \in Int
    PROVE  a % n \in 0 .. n - 1 /\ a \div n \in Int /\ a = n * (a \div n) + (a % n)
OBVIOUS

LEMMA MulGe ==
    ASSUME NEW n \in Nat \ {0}, NEW k \in Int, k >= 1
    PROVE  k * n >= n
OBVIOUS

LEMMA Distr ==
    ASSUME NEW n \in Int, NEW k \in Int, NEW j \in Int
    PROVE  /\ (k + j) * n = k * n + j * n
           /\ (k - j) * n = k * n - j * n
           /\ k * n = n * k /\ k * n \in Int
OBVIOUS

LEMMA Quotient ==
    ASSUME NEW n \in Nat \ {0}, NEW a \in Int
    PROVE  /\ a % n \in 0 .. n - 1
           /\ a \div n \in Int /\ (a \div n) * n \in Int
           /\ a = (a \div n) * n + (a % n)
BY DivMod, Distr

(* A remainder is the only one of its range.                               *)
LEMMA ModIs ==
    ASSUME NEW n \in Nat \ {0}, NEW q \in Int, NEW r \in 0 .. n - 1
    PROVE  q * n \in Int /\ (q * n + r) % n = r
<1> DEFINE a == q * n + r
           k == a \div n
           m == a % n
<1>1. q * n \in Int /\ a \in Int
  BY Distr
<1>2. k \in Int /\ k * n \in Int /\ a = k * n + m /\ m \in 0 .. n - 1
  BY <1>1, Quotient
<1> HIDE DEF k, m
<1>3. (q - k) * n = m - r /\ (k - q) * n = r - m
  BY <1>1, <1>2, Distr
<1>4. ~ (q - k >= 1)
  <2> SUFFICES ASSUME q - k >= 1
               PROVE  FALSE
    OBVIOUS
  <2>1. (q - k) * n >= n
    BY <1>2, MulGe
  <2> QED
    BY <1>2, <1>3, <2>1
<1>5. ~ (k - q >= 1)
  <2> SUFFICES ASSUME k - q >= 1
               PROVE  FALSE
    OBVIOUS
  <2>1. (k - q) * n >= n
    BY <1>2, MulGe
  <2> QED
    BY <1>2, <1>3, <2>1
<1>6. k = q
  BY <1>2, <1>4, <1>5
<1>7. m = r
  BY <1>1, <1>2, <1>6
<1> QED
  BY <1>1, <1>7 DEF m

LEMMA MultipleIs ==
    ASSUME NEW n \in Nat \ {0}, NEW k \in Int
    PROVE  k * n \in Int /\ (k * n) % n = 0
<1>1. k * n \in Int /\ (k * n + 0) % n = 0
  BY ModIs
<1> QED
  BY <1>1

LEMMA MultiplesAdd ==
    ASSUME NEW n \in Nat \ {0}, NEW a \in Int, NEW b \in Int, a % n = 0, b % n = 0
    PROVE  (a + b) % n = 0 /\ (a - b) % n = 0
<1> DEFINE k == a \div n
           j == b \div n
<1>1. /\ k \in Int /\ k * n \in Int /\ a = k * n
      /\ j \in Int /\ j * n \in Int /\ b = j * n
  BY Quotient
<1> HIDE DEF k, j
<1>3. (k + j) * n = a + b /\ (k - j) * n = a - b
  BY <1>1, Distr
<1>4. ((k + j) * n) % n = 0 /\ ((k - j) * n) % n = 0
  BY <1>1, MultipleIs
<1> QED
  BY <1>3, <1>4

(* A difference taken in a type of n values is right but for multiples.    *)
LEMMA ModDifference ==
    ASSUME NEW n \in Nat \ {0}, NEW a \in Int, NEW b \in Int
    PROVE  /\ ((a % n) - (b % n)) % n \in Int
           /\ ((((a % n) - (b % n)) % n) - (a - b)) % n = 0
<1> DEFINE d == (a % n) - (b % n)
           k == a \div n
           j == b \div n
           i == d \div n
<1>1. /\ k \in Int /\ k * n \in Int /\ a = k * n + (a % n) /\ a % n \in Int
      /\ j \in Int /\ j * n \in Int /\ b = j * n + (b % n) /\ b % n \in Int
  BY Quotient
<1>3. d \in Int
  BY <1>1
<1>4. i \in Int /\ i * n \in Int /\ d = i * n + (d % n) /\ d % n \in Int
  BY <1>3, Quotient
<1> HIDE DEF k, j, i
<1>5. (j - k) * n = j * n - k * n /\ ((j - k) - i) * n = (j - k) * n - i * n
  BY <1>1, <1>4, Distr
<1>6. (d % n) - (a - b) = ((j - k) - i) * n
  BY <1>1, <1>4, <1>5
<1>7. (((j - k) - i) * n) % n = 0
  BY <1>1, <1>4, MultipleIs
<1> QED
  BY <1>4, <1>6, <1>7

(* A reinterpretation of a value in a type of n values.                    *)
LEMMA ModRange ==
    ASSUME NEW n \in Nat \ {0}, NEW a \in 0 .. n - 1
    PROVE  a % n = a
<1>1. (0 * n + a) % n = a
  BY ModIs
<1> QED
  BY <1>1

----------------------------------------------------------------------------
(* The fields of a report.                                                 *)

LEMMA Widths ==
    /\ Wire \in Nat \ {0} /\ Word \in Nat \ {0}
    /\ Wire > 1 /\ Wire <= Word
    /\ CountSteps \subseteq 0 .. Wire - 1
<1>1. Wire \in Nat \ {0} /\ Wire > 1 /\ Word \in Nat /\ Word % Wire = 0
  BY StatsAssumption
<1>2. Word > 0
  <2>1. Window["wood"] \in 1 .. Word - 1
    BY StatsAssumption DEF Series
  <2> QED
    BY <1>1, <2>1
<1>3. Wire <= Word
  <2> SUFFICES ASSUME Word < Wire
               PROVE  FALSE
    BY <1>1
  <2>1. Word % Wire = Word
    BY <1>1, ModRange
  <2> QED
    BY <1>1, <1>2, <2>1
<1> QED
  BY <1>1, <1>2, <1>3, StatsAssumption

(* The peasants and units of a report: c overflows were counted of a field *)
(* that really counts n.                                                   *)
LEMMA CountStep ==
    ASSUME NEW n \in Nat, NEW d \in CountSteps, NEW c \in Nat,
           c * Wire + (n % Wire) = n
    PROVE  LET w == (n + d) % Wire
               c2 == CountCycle(w, n % Word, c)
           IN  c2 \in Nat /\ c2 * Wire + w = n + d /\ Unwrap(w, c2) = (n + d) % Word
<1> DEFINE m == n % Wire
           w == (n + d) % Wire
           o == n % Word
           k == n \div Word
           e == c * Wire
           s == (c + 1) * Wire
           b == k * Word
<1>1. m \in 0 .. Wire - 1 /\ n = e + m
  BY Widths, Quotient
<1>2. w \in 0 .. Wire - 1
  BY Widths, Quotient
<1>3. k \in Int /\ b \in Int /\ o \in Int /\ n = b + o
  BY Widths, Quotient
<1>4. e \in Int /\ s = e + Wire
  BY Widths, Distr
<1>5. d \in 0 .. Wire - 1
  BY Widths
<1>6. \A r \in 0 .. Wire - 1 : (e + r) % Wire = r /\ (s + r) % Wire = r
  <2>1. c \in Int /\ c + 1 \in Int /\ Wire \in Nat \ {0}
    BY Widths
  <2> QED
    BY <2>1, ModIs
<1>7. \A r \in 0 .. Word - 1 : (r - b) % Word = r
  <2> SUFFICES ASSUME NEW r \in 0 .. Word - 1
               PROVE  (r - b) % Word = r
    OBVIOUS
  <2> HIDE DEF k
  <2>a. k \in Int /\ 0 - k \in Int /\ 0 \in Int /\ Word \in Nat \ {0} /\ Word \in Int
    BY <1>3, Widths
  <2>b. (0 - k) * Word = 0 * Word - k * Word /\ 0 * Word = 0
    BY <2>a, Distr
  <2>1. (0 - k) * Word = 0 - b
    BY <2>a, <2>b
  <2>2. ((0 - k) * Word + r) % Word = r
    BY <2>a, ModIs
  <2> HIDE DEF b
  <2>3. (0 - b) + r = r - b
    BY <1>3
  <2> QED
    BY <2>1, <2>2, <2>3
<1> SUFFICES /\ CountCycle(w, o, c) \in Nat
             /\ CountCycle(w, o, c) * Wire + w = n + d
             /\ Unwrap(w, CountCycle(w, o, c)) = (n + d) % Word
  OBVIOUS
<1>8. w = IF m + d < Wire THEN m + d ELSE m + d - Wire
  <2> DEFINE r == IF m + d < Wire THEN m + d ELSE m + d - Wire
             base == IF m + d < Wire THEN e ELSE s
  <2> HIDE DEF m, e, s
  <2>1. r \in 0 .. Wire - 1 /\ n + d = base + r
    BY <1>1, <1>4, <1>5, Widths
  <2>2. (base + r) % Wire = r
    BY <1>6, <2>1
  <2> HIDE DEF r, base
  <2>3. (n + d) % Wire = r
    BY <2>1, <2>2
  <2> QED
    BY <2>3 DEF r
<1>9. (o - e) % Word = m
  <2> HIDE DEF m, e, o, b
  <2>1. o - e = m - b /\ m \in 0 .. Word - 1
    BY <1>1, <1>3, <1>4, Widths
  <2> QED
    BY <1>7, <2>1
<1>10. CountCycle(w, o, c) = IF m + d < Wire THEN c ELSE c + 1
  <2>1. CountCycle(w, o, c) = IF w < (o - e) % Word THEN c + 1 ELSE c
    BY DEF CountCycle
  <2> HIDE DEF w, m, e, o
  <2> QED
    BY <1>1, <1>5, <1>8, <1>9, <2>1, Widths
<1>11. CASE m + d < Wire
  <2>1. CountCycle(w, o, c) = c
    BY <1>10, <1>11
  <2>2. e + w = n + d /\ w + e = n + d
    <3> HIDE DEF w, m, e
    <3> QED
      BY <1>1, <1>4, <1>5, <1>8, <1>11
  <2>3. Unwrap(w, c) = (w + e) % Word
    BY DEF Unwrap
  <2> HIDE DEF w, o
  <2> QED
    BY <2>1, <2>2, <2>3
<1>12. CASE ~ (m + d < Wire)
  <2>1. CountCycle(w, o, c) = c + 1
    BY <1>10, <1>12
  <2>2. s + w = n + d /\ w + s = n + d
    <3> HIDE DEF w, m, e, s
    <3> QED
      BY <1>1, <1>4, <1>5, <1>8, <1>12, Widths
  <2>3. Unwrap(w, c + 1) = (w + s) % Word
    BY DEF Unwrap
  <2> HIDE DEF w, o
  <2> QED
    BY <2>1, <2>2, <2>3
<1> QED
  BY <1>11, <1>12

(* The scores of a report, which may move either way.                      *)
LEMMA ScoreStep ==
    ASSUME NEW g \in Int, NEW d \in ScoreSteps, NEW c \in Int
    PROVE  LET w1 == g % Wire
               w2 == (g + d) % Wire
               c2 == ScoreCycle(w2, w1, c)
           IN  c2 \in Int /\ c2 * Wire + w2 = (c * Wire + w1) + d
<1> DEFINE w1 == g % Wire
           w2 == (g + d) % Wire
           c2 == ScoreCycle(w2, w1, c)
           k == g \div Wire
           e == k * Wire
           half == Wire \div 2
<1>1. w1 \in 0 .. Wire - 1 /\ k \in Int /\ e \in Int /\ g = e + w1
  BY Widths, Quotient
<1>2. /\ half \in Int /\ 2 * half <= Wire
      /\ d \in Int /\ d <= half - 1 /\ d >= -(half - 1)
  BY Widths, StatsAssumption
<1>3. \A r \in 0 .. Wire - 1 : /\ (e + r) % Wire = r
                              /\ ((e + Wire) + r) % Wire = r
                              /\ ((e - Wire) + r) % Wire = r
  <2> HIDE DEF k
  <2>1. k \in Int /\ k + 1 \in Int /\ k - 1 \in Int /\ Wire \in Nat \ {0} /\ Wire \in Int
    BY <1>1, Widths
  <2>2. (k + 1) * Wire = e + 1 * Wire /\ (k - 1) * Wire = e - 1 * Wire
    BY <2>1, Distr
  <2>3. 1 * Wire = Wire
    BY <2>1
  <2>4. \A r \in 0 .. Wire - 1 : /\ (k * Wire + r) % Wire = r
                                /\ ((k + 1) * Wire + r) % Wire = r
                                /\ ((k - 1) * Wire + r) % Wire = r
    BY <2>1, ModIs
  <2> QED
    BY <2>2, <2>3, <2>4
<1> HIDE DEF e, k
<1>4. w2 = IF w1 + d >= Wire THEN w1 + d - Wire
           ELSE IF w1 + d < 0 THEN w1 + d + Wire ELSE w1 + d
  <2> DEFINE r == IF w1 + d >= Wire THEN w1 + d - Wire
                  ELSE IF w1 + d < 0 THEN w1 + d + Wire ELSE w1 + d
             base == IF w1 + d >= Wire THEN e + Wire
                     ELSE IF w1 + d < 0 THEN e - Wire ELSE e
  <2> HIDE DEF w1, half
  <2>1. r \in 0 .. Wire - 1 /\ g + d = base + r
    BY <1>1, <1>2, Widths
  <2>2. (base + r) % Wire = r
    BY <1>3, <2>1
  <2> HIDE DEF r, base
  <2>3. (g + d) % Wire = r
    BY <2>1, <2>2
  <2> QED
    BY <2>3 DEF r
<1>5. c2 = IF w1 + d >= Wire THEN c + 1 ELSE IF w1 + d < 0 THEN c - 1 ELSE c
  <2>1. c2 = IF AbsI64(w2 - w1) <= half - 1 THEN c ELSE IF w2 > w1 THEN c - 1 ELSE c + 1
    BY DEF ScoreCycle
  <2> HIDE DEF w1, w2, c2, half
  <2> QED
    BY <1>1, <1>2, <1>4, <2>1, Widths DEF AbsI64
<1>6. /\ c * Wire \in Int
      /\ (c + 1) * Wire = c * Wire + Wire /\ (c - 1) * Wire = c * Wire - Wire
  <2>1. 1 * Wire = Wire /\ Wire \in Int
    BY Widths
  <2>2. (c + 1) * Wire = c * Wire + 1 * Wire /\ (c - 1) * Wire = c * Wire - 1 * Wire
    BY <2>1, Distr
  <2> QED
    BY <2>1, <2>2, Distr
<1> HIDE DEF w1, w2, c2
<1>7. c2 \in Int /\ c2 * Wire = IF w1 + d >= Wire THEN c * Wire + Wire
                  ELSE IF w1 + d < 0 THEN c * Wire - Wire ELSE c * Wire
  BY <1>1, <1>2, <1>5, <1>6
<1> DEFINE x == c * Wire
           y == c2 * Wire
<1>8. x \in Int /\ y = IF w1 + d >= Wire THEN x + Wire ELSE IF w1 + d < 0 THEN x - Wire ELSE x
  BY <1>6, <1>7
<1> HIDE DEF x, y
<1>9. y + w2 = (x + w1) + d
  BY <1>1, <1>2, <1>4, <1>8, Widths
<1> QED
  BY <1>7, <1>9 DEF x, y, c2, w1, w2

(* Casualties: of the m made pop are alive, and b were lost at first.      *)
Losses(cas, m, pop, b) == cas \in Int /\ (cas - (m - pop - b)) % Word = 0

NextLosses(cas, m1, m2, pop1, pop2) ==
    cas + (((m2 % Word) - (m1 % Word)) % Word) - ((pop2 - pop1) % Word)

LEMMA LossStep ==
    ASSUME NEW cas, NEW m1 \in Int, NEW m2 \in Int, NEW pop1 \in 0 .. Wire - 1,
           NEW pop2 \in 0 .. Wire - 1, NEW b \in Int, Losses(cas, m1, pop1, b)
    PROVE  Losses(NextLosses(cas, m1, m2, pop1, pop2), m2, pop2, b)
<1>a. cas \in Int /\ (cas - (m1 - pop1 - b)) % Word = 0
  BY DEF Losses
<1> DEFINE x == cas - (m1 - pop1 - b)
           d == ((m2 % Word) - (m1 % Word)) % Word
           q == (pop2 - pop1) % Word
           y == d - (m2 - m1)
           z == q - (pop2 - pop1)
<1>1. Word \in Nat \ {0} /\ pop1 % Word = pop1 /\ pop2 % Word = pop2
  BY Widths, ModRange
<1>2. d \in Int /\ y % Word = 0
  BY <1>1, ModDifference
<1>3. q \in Int /\ z % Word = 0
  BY <1>1, ModDifference
<1> HIDE DEF d, q
<1>4. x \in Int /\ y \in Int /\ z \in Int
  BY <1>a, <1>2, <1>3
<1>5. (cas + d - q) - (m2 - pop2 - b) = (x + y) - z
  BY <1>a, <1>2, <1>3
<1>6. x % Word = 0
  BY <1>a
<1> HIDE DEF x, y, z
<1>7. (x + y) % Word = 0 /\ x + y \in Int
  BY <1>1, <1>2, <1>4, <1>6, MultiplesAdd
<1>8. ((x + y) - z) % Word = 0
  BY <1>1, <1>3, <1>4, <1>7, MultiplesAdd
<1>9. cas + d - q \in Int /\ ((cas + d - q) - (m2 - pop2 - b)) % Word = 0
  BY <1>a, <1>2, <1>3, <1>5, <1>8
<1> QED
  BY <1>9 DEF d, q, Losses, NextLosses

LEMMA ModSum ==
    ASSUME NEW n \in Nat \ {0}, NEW a \in Int, NEW b \in Int
    PROVE  ((a % n) + (b % n)) % n = (a + b) % n
<1> DEFINE k == a \div n
           j == b \div n
           i == (a + b) \div n
           u == a % n
           v == b % n
           x == (a + b) % n
           q == (i - k) - j
<1>1. /\ k \in Int /\ k * n \in Int /\ a = k * n + u /\ u \in Int
      /\ j \in Int /\ j * n \in Int /\ b = j * n + v /\ v \in Int
  BY Quotient
<1>2. a + b \in Int
  OBVIOUS
<1>3. i \in Int /\ i * n \in Int /\ a + b = i * n + x /\ x \in 0 .. n - 1
  BY <1>2, Quotient
<1> HIDE DEF k, j, i, u, v, x
<1>4. q \in Int /\ q * n = (i * n - k * n) - j * n
  <2>1. i - k \in Int /\ (i - k) * n = i * n - k * n
    BY <1>1, <1>3, Distr
  <2>2. ((i - k) - j) * n = (i - k) * n - j * n
    BY <1>1, <2>1, Distr
  <2> QED
    BY <1>1, <2>1, <2>2
<1> HIDE DEF q
<1>5. (q * n + x) % n = x
  BY <1>3, <1>4, ModIs
<1> DEFINE kn == k * n
           jn == j * n
           in == i * n
           qn == q * n
<1> HIDE DEF kn, jn, in, qn
<1>6. u + v = qn + x
  <2>1. /\ kn \in Int /\ a = kn + u /\ jn \in Int /\ b = jn + v
        /\ in \in Int /\ a + b = in + x /\ qn = (in - kn) - jn
    BY <1>1, <1>3, <1>4 DEF kn, jn, in, qn
  <2> QED
    BY <1>1, <1>3, <2>1
<1> QED
  BY <1>5, <1>6 DEF qn, u, v, x

----------------------------------------------------------------------------
(* A report.                                                               *)

(* Go's nil has no fields.                                                 *)
NilStat == "casuality" \notin DOMAIN NoStat /\ "losses" \notin DOMAIN NoStat

RecordFields == {"timeTick", "theam", "color", "zombie", "stat", "cycle", "history", "sum"}

Base == [losses : Int, scores : Int]

Game == [time : Nat, peasants : Nat, units : Nat, scores : Int,
         population : 0 .. Wire - 1, sent : Nat, base : {NoStat} \cup Base]

(* A counter v with c overflows of a game that counted n.                  *)
Counts(c, v, n) == c \in Nat /\ c * Wire + (n % Wire) = n /\ v = n % Word

(* The record r follows the game g.                                        *)
Sampled(r, g) ==
    /\ g.base \in Base /\ g.base # NoStat
    /\ r.timeTick = g.time
    /\ Counts(r.cycle.peasants, r.stat.peasants, g.peasants)
    /\ Counts(r.cycle.units, r.stat.units, g.units)
    /\ r.cycle.scores \in Int
    /\ r.stat.scores = g.scores % Wire
    /\ r.stat.realScores = g.scores + g.base.scores
    /\ r.cycle.scores * Wire + (g.scores % Wire) = g.scores + g.base.scores
    /\ r.stat.population = g.population
    /\ r.stat.population2 = (g.units + g.peasants) % Word
    /\ Losses(r.stat.casuality, g.units + g.peasants, g.population, g.base.losses)

Follows(r, g) ==
    IF r.stat = NoStat
    THEN r.cycle = NoCycle /\ r.timeTick = 0 /\ g = NewGame
    ELSE Sampled(r, g)

(* What ApplyStat makes of a record.                                       *)
LEMMA AppliedFields ==
    ASSUME NEW p \in Player, DOMAIN rec[p] = RecordFields, NEW w
    PROVE  LET a == ApplyStat(p, w)
               old == OldStat(rec[p].stat, w)
               cyc == NextCycle(rec[p].cycle, old, w)
               new == Sample(w, old, cyc)
           IN  /\ DOMAIN a = RecordFields
               /\ a.timeTick = w.time /\ a.cycle = cyc
               /\ DOMAIN a.stat = DOMAIN new
               /\ \A x \in DOMAIN new : x # "rate" => a.stat[x] = new[x]
<1> DEFINE a == ApplyStat(p, w)
           old == OldStat(rec[p].stat, w)
           cyc == NextCycle(rec[p].cycle, old, w)
           new == Sample(w, old, cyc)
<1>1. DOMAIN a = RecordFields
  BY DEF ApplyStat
<1>2. a.timeTick = w.time
  BY DEF ApplyStat, RecordFields
<1>3. a.cycle = cyc
  BY DEF ApplyStat, RecordFields
<1>4. \E rate : a.stat = [new EXCEPT !.rate = rate]
  BY DEF ApplyStat, RecordFields
<1> HIDE DEF a, new, cyc
<1>5. DOMAIN a.stat = DOMAIN new /\ \A x \in DOMAIN new : x # "rate" => a.stat[x] = new[x]
  BY <1>4
<1> QED
  BY <1>1, <1>2, <1>3, <1>5 DEF a, new, cyc

(* The game and its report.                                                *)
LEMMA PlayedFields ==
    ASSUME NilStat, NEW g0 \in Game, NEW dt \in TimeSteps, NEW dp \in CountSteps,
           NEW du \in CountSteps, NEW ds \in ScoreSteps, NEW pop \in Populations
    PROVE  LET g == Played(g0, dt, dp, du, ds, pop)
           IN  /\ g \in Game /\ g.time = g0.time + dt
               /\ g.peasants = g0.peasants + dp /\ g.units = g0.units + du
               /\ g.scores = g0.scores + ds /\ g.population = pop
               /\ g.base \in Base /\ g.base # NoStat
               /\ IF g0.base # NoStat THEN g.base = g0.base
                  ELSE g.base = [losses |-> g.peasants + g.units - pop,
                                 scores |-> (g.scores % Wire) - g.scores]
<1> DEFINE g == Played(g0, dt, dp, du, ds, pop)
           sc == (g0.scores + ds) % Wire
           b == IF g0.base # NoStat THEN g0.base
                ELSE [losses |-> g0.peasants + dp + g0.units + du - pop,
                      scores |-> sc - (g0.scores + ds)]
<1>1. /\ dt \in Nat /\ dp \in Nat /\ du \in Nat /\ ds \in Int /\ pop \in 0 .. Wire - 1
      /\ pop \in Int
  BY GameAssumption, StatsAssumption, Widths
<1>2. /\ g0.time \in Nat /\ g0.peasants \in Nat /\ g0.units \in Nat /\ g0.scores \in Int
      /\ g0.sent \in Nat /\ (g0.base # NoStat => g0.base \in Base)
  BY DEF Game
<1>b. g0.scores + ds \in Int
  BY <1>1, <1>2
<1>3. g0.scores + ds \in Int /\ sc \in Int
  <2> DEFINE s == g0.scores + ds
  <2>1. s \in Int /\ Wire \in Nat \ {0}
    BY <1>b, Widths
  <2> HIDE DEF s
  <2>2. s % Wire \in 0 .. Wire - 1
    BY <2>1, Quotient
  <2>3. s % Wire \in Int
    BY <2>1, <2>2
  <2> QED
    BY <2>1, <2>3 DEF s
<1> HIDE DEF sc
<1>4. b \in Base /\ b # NoStat
  BY <1>1, <1>2, <1>3 DEF Base, NilStat
<1>5. g = [g0 EXCEPT !.time = @ + dt, !.peasants = @ + dp, !.units = @ + du,
                     !.scores = @ + ds, !.population = pop, !.sent = @ + 1, !.base = b]
  BY DEF Played, sc
<1> HIDE DEF b, g
<1>6. g \in Game
  <2>1. /\ g0.time + dt \in Nat /\ g0.peasants + dp \in Nat /\ g0.units + du \in Nat
        /\ g0.scores + ds \in Int /\ g0.sent + 1 \in Nat /\ b \in {NoStat} \cup Base
    BY <1>1, <1>2, <1>4
  <2> QED
    BY <1>1, <1>5, <2>1 DEF Game
<1>a. DOMAIN g0 = {"time", "peasants", "units", "scores", "population", "sent", "base"}
  BY DEF Game
<1>7. /\ g.time = g0.time + dt
      /\ g.peasants = g0.peasants + dp /\ g.units = g0.units + du
      /\ g.scores = g0.scores + ds /\ g.population = pop /\ g.base = b
  BY <1>5, <1>a
<1>8. ASSUME g0.base = NoStat
      PROVE  b = [losses |-> g.peasants + g.units - pop, scores |-> (g.scores % Wire) - g.scores]
  <2>1. b = [losses |-> g0.peasants + dp + g0.units + du - pop, scores |-> sc - (g0.scores + ds)]
    BY <1>8 DEF b
  <2>2. g0.peasants + dp + g0.units + du - pop = g.peasants + g.units - pop
    BY <1>1, <1>2, <1>7
  <2>3. sc - (g0.scores + ds) = (g.scores % Wire) - g.scores
    BY <1>7 DEF sc
  <2> QED
    BY <2>1, <2>2, <2>3
<1>9. ASSUME g0.base # NoStat
      PROVE  b = g0.base
  BY <1>9 DEF b
<1> QED
  BY <1>4, <1>6, <1>7, <1>8, <1>9 DEF g

LEMMA ReportFields ==
    ASSUME NEW g \in Game, g.time <= MaxTime, NEW res
    PROVE  LET w == DecodeStat(g, res)
           IN  /\ w.time = g.time /\ w.population = g.population
               /\ w.scores = g.scores % Wire /\ w.scores \in 0 .. Wire - 1
               /\ w.peasants = g.peasants % Wire /\ w.peasants \in 0 .. Wire - 1
               /\ w.units = g.units % Wire /\ w.units \in 0 .. Wire - 1
<1>1. /\ g.time \in 0 .. Word - 1 /\ g.population \in 0 .. Wire - 1 /\ g.scores \in Int
      /\ g.peasants \in Int /\ g.units \in Int
  BY GameAssumption, Widths DEF Game
<1>2. g.time % Word = g.time /\ g.population % Wire = g.population
  BY <1>1, Widths, ModRange
<1>3. /\ g.scores % Wire \in 0 .. Wire - 1 /\ g.peasants % Wire \in 0 .. Wire - 1
      /\ g.units % Wire \in 0 .. Wire - 1
  BY <1>1, Widths, Quotient
<1> QED
  BY <1>2, <1>3 DEF DecodeStat

(* The fields of a sample.                                                 *)
LEMMA SampleFields ==
    ASSUME NEW w, NEW old, NEW cyc
    PROVE  LET new == Sample(w, old, cyc)
           IN  /\ DOMAIN new = {"time", "scores", "realScores", "population", "peasants",
                                "units", "population2", "casuality", "res", "rate"}
               /\ new.scores = w.scores
               /\ new.realScores = cyc.scores * Wire + w.scores
               /\ new.population = w.population
               /\ new.peasants = Unwrap(w.peasants, cyc.peasants)
               /\ new.units = Unwrap(w.units, cyc.units)
               /\ new.population2 = (new.units + new.peasants) % Word
               /\ new.casuality = Casuality(new.population2, old, w)
BY DEF Sample

LEMMA FirstSample ==
    ASSUME NilStat, NEW g \in Game, g.time <= MaxTime, NEW res,
           g.peasants \in 0 .. Wire - 1, g.units \in 0 .. Wire - 1,
           g.base = [losses |-> g.peasants + g.units - g.population,
                     scores |-> (g.scores % Wire) - g.scores],
           NEW a,
           LET w == DecodeStat(g, res)
               old == OldStat(NoStat, w)
               cyc == NextCycle(NoCycle, old, w)
               new == Sample(w, old, cyc)
           IN  /\ a.timeTick = w.time /\ a.cycle = cyc
               /\ \A x \in DOMAIN new : x # "rate" => a.stat[x] = new[x]
    PROVE  Sampled(a, g)
<1> DEFINE w == DecodeStat(g, res)
           old == OldStat(NoStat, w)
           cyc == NextCycle(NoCycle, old, w)
           new == Sample(w, old, cyc)
           made == (g.units + g.peasants) % Word
<1>1. /\ w.time = g.time /\ w.population = g.population
      /\ w.scores = g.scores % Wire /\ w.scores \in Int
      /\ w.peasants = g.peasants /\ w.units = g.units
      /\ g.peasants % Wire = g.peasants /\ g.units % Wire = g.units
      /\ g.peasants % Word = g.peasants /\ g.units % Word = g.units
  <2>1. g.peasants \in 0 .. Word - 1 /\ g.units \in 0 .. Word - 1
    BY Widths
  <2>2. /\ g.peasants % Wire = g.peasants /\ g.units % Wire = g.units
        /\ g.peasants % Word = g.peasants /\ g.units % Word = g.units
    BY <2>1, ModRange, Widths
  <2>3. /\ w.time = g.time /\ w.population = g.population
        /\ w.scores = g.scores % Wire /\ w.scores \in 0 .. Wire - 1
        /\ w.peasants = g.peasants % Wire /\ w.units = g.units % Wire
    BY ReportFields
  <2> HIDE DEF w
  <2> QED
    BY <2>2, <2>3, Widths
<1>2. /\ old.scores = w.scores /\ old.population = w.population
      /\ old.peasants = w.peasants /\ old.units = w.units
      /\ old.population2 = (w.units + w.peasants) % Word /\ old.casuality = 0
  BY DEF OldStat
<1>3. /\ g.scores \in Int /\ g.peasants \in Int /\ g.units \in Int /\ g.population \in Int
      /\ made \in Int
  <2>1. g.scores \in Int /\ g.peasants \in Int /\ g.units \in Int /\ g.population \in Int
    BY Widths DEF Game
  <2> DEFINE s == g.units + g.peasants
  <2>2. s \in Int /\ Word \in Nat \ {0}
    BY <2>1, Widths
  <2> HIDE DEF s
  <2>3. s % Word \in 0 .. Word - 1
    BY <2>2, Quotient
  <2>4. s % Word \in Int
    BY <2>2, <2>3
  <2> QED
    BY <2>1, <2>4 DEF s
<1> HIDE DEF w, old
<1>4. cyc = NoCycle
  <2>1. CountCycle(g.peasants, g.peasants, 0) = 0 /\ CountCycle(g.units, g.units, 0) = 0
    <3>1. 0 * Wire = 0 /\ g.peasants - 0 = g.peasants /\ g.units - 0 = g.units
      BY <1>3, Widths
    <3>2. /\ CountCycle(g.peasants, g.peasants, 0) =
                 IF g.peasants < g.peasants % Word THEN 1 ELSE 0
          /\ CountCycle(g.units, g.units, 0) = IF g.units < g.units % Word THEN 1 ELSE 0
      BY <3>1 DEF CountCycle
    <3> QED
      BY <1>1, <1>3, <3>2
  <2>2. ScoreCycle(w.scores, w.scores, 0) = 0
    <3>1. Wire \div 2 >= 1
      BY Widths
    <3> DEFINE s == w.scores
               half == Wire \div 2
    <3>2. s \in Int /\ half \in Int /\ half >= 1
      BY <1>1, <3>1, Widths
    <3>3. ScoreCycle(s, s, 0) =
             IF AbsI64(s - s) <= half - 1 THEN 0 ELSE IF s > s THEN 0 - 1 ELSE 0 + 1
      BY DEF ScoreCycle
    <3> HIDE DEF s, half
    <3> QED
      BY <3>2, <3>3 DEF AbsI64, s
  <2> QED
    BY <1>1, <1>2, <2>1, <2>2 DEF NextCycle, NoCycle
<1>5. 0 * Wire = 0 /\ Wire \in Int
  BY Widths
<1>6. Unwrap(g.peasants, 0) = g.peasants /\ Unwrap(g.units, 0) = g.units
  BY <1>1, <1>3, <1>5 DEF Unwrap
<1> HIDE DEF cyc, new
<1>7. /\ DOMAIN new = {"time", "scores", "realScores", "population", "peasants", "units",
                       "population2", "casuality", "res", "rate"}
      /\ new.scores = w.scores /\ new.realScores = 0 * Wire + w.scores
      /\ new.population = w.population
      /\ new.peasants = g.peasants /\ new.units = g.units
      /\ new.population2 = made
      /\ new.casuality = Casuality(made, old, w)
  BY <1>1, <1>4, <1>6, SampleFields DEF new, NoCycle
<1> HIDE DEF made
<1>8. new.casuality = 0
  <2>1. old.population2 = made
    BY <1>1, <1>2 DEF made
  <2>2. made - made = 0 /\ w.population - w.population = 0 /\ 0 % Word = 0
    BY <1>1, <1>3, Widths, ModRange
  <2> QED
    BY <1>2, <1>7, <2>1, <2>2 DEF Casuality
<1>9. /\ a.timeTick = g.time /\ a.cycle = NoCycle
      /\ a.stat.scores = w.scores /\ a.stat.realScores = 0 * Wire + w.scores
      /\ a.stat.population = w.population /\ a.stat.peasants = g.peasants
      /\ a.stat.units = g.units /\ a.stat.population2 = made /\ a.stat.casuality = 0
  BY <1>1, <1>4, <1>7, <1>8 DEF new, cyc, old, w
<1>10. g.base \in Base /\ g.base # NoStat
  BY <1>1, <1>3 DEF Base, NilStat
<1>11. /\ Counts(a.cycle.peasants, a.stat.peasants, g.peasants)
       /\ Counts(a.cycle.units, a.stat.units, g.units)
  <2>1. \A n \in Int : n % Wire = n /\ n % Word = n => Counts(0, n, n)
    <3> SUFFICES ASSUME NEW n \in Int, n % Wire = n, n % Word = n
                 PROVE  0 * Wire + (n % Wire) = n
      BY DEF Counts
    <3>1. 0 * Wire + n = n
      BY <1>5
    <3> QED
      BY <3>1
  <2>2. a.cycle.peasants = 0 /\ a.cycle.units = 0
    BY <1>9 DEF NoCycle
  <2> QED
    BY <1>1, <1>3, <1>9, <2>1, <2>2
<1>12. /\ a.cycle.scores = 0 /\ a.stat.scores = g.scores % Wire
       /\ a.stat.realScores = g.scores + g.base.scores
       /\ a.cycle.scores * Wire + (g.scores % Wire) = g.scores + g.base.scores
  <2> DEFINE s == g.scores % Wire
  <2>1. a.cycle.scores = 0 /\ a.stat.scores = s /\ a.stat.realScores = 0 * Wire + s
    BY <1>1, <1>9 DEF NoCycle
  <2>2. g.base.scores = s - g.scores /\ s \in Int
    BY <1>1
  <2> HIDE DEF s
  <2>3. g.scores + g.base.scores = s /\ 0 * Wire + s = s
    BY <1>3, <1>5, <2>2
  <2> QED
    BY <2>1, <2>3 DEF s
<1>13. Losses(a.stat.casuality, g.units + g.peasants, g.population, g.base.losses)
  <2>1. a.stat.casuality - ((g.units + g.peasants) - g.population - g.base.losses) = 0
    BY <1>3, <1>9
  <2>2. 0 % Word = 0
    BY Widths, ModRange
  <2> QED
    BY <1>9, <2>1, <2>2 DEF Losses
<1> QED
  BY <1>1, <1>9, <1>10, <1>11, <1>12, <1>13 DEF Sampled, made

LEMMA NextSample ==
    ASSUME NilStat, NEW r, NEW g0 \in Game, r.stat # NoStat, Sampled(r, g0),
           NEW g \in Game, g.time <= MaxTime, NEW res,
           NEW dp \in CountSteps, g.peasants = g0.peasants + dp,
           NEW du \in CountSteps, g.units = g0.units + du,
           NEW ds \in ScoreSteps, g.scores = g0.scores + ds,
           g.base = g0.base, NEW a,
           LET w == DecodeStat(g, res)
               old == OldStat(r.stat, w)
               cyc == NextCycle(r.cycle, old, w)
               new == Sample(w, old, cyc)
           IN  /\ a.timeTick = w.time /\ a.cycle = cyc
               /\ \A x \in DOMAIN new : x # "rate" => a.stat[x] = new[x]
    PROVE  Sampled(a, g)
<1> DEFINE w == DecodeStat(g, res)
           old == OldStat(r.stat, w)
           cyc == NextCycle(r.cycle, old, w)
           new == Sample(w, old, cyc)
<1>1. /\ w.time = g.time /\ w.population = g.population
      /\ w.scores = g.scores % Wire /\ w.peasants = g.peasants % Wire
      /\ w.units = g.units % Wire
  BY ReportFields
<1>2. old = r.stat
  BY DEF OldStat
<1>3. /\ g0.peasants \in Nat /\ g0.units \in Nat /\ g0.scores \in Int
      /\ g0.population \in 0 .. Wire - 1 /\ g.population \in 0 .. Wire - 1
      /\ g.peasants \in Nat /\ g.units \in Nat /\ g.scores \in Int
      /\ g.units + g.peasants \in Int /\ g0.units + g0.peasants \in Int
  BY DEF Game
<1> HIDE DEF w, old
<1>4. /\ cyc.peasants = CountCycle(g.peasants % Wire, g0.peasants % Word, r.cycle.peasants)
      /\ cyc.units = CountCycle(g.units % Wire, g0.units % Word, r.cycle.units)
      /\ cyc.scores = ScoreCycle(g.scores % Wire, g0.scores % Wire, r.cycle.scores)
  BY <1>1, <1>2 DEF NextCycle, Sampled, Counts
<1>5. /\ cyc.peasants \in Nat /\ cyc.peasants * Wire + (g.peasants % Wire) = g.peasants
      /\ Unwrap(g.peasants % Wire, cyc.peasants) = g.peasants % Word
  BY <1>3, <1>4, CountStep DEF Sampled, Counts
<1>6. /\ cyc.units \in Nat /\ cyc.units * Wire + (g.units % Wire) = g.units
      /\ Unwrap(g.units % Wire, cyc.units) = g.units % Word
  BY <1>3, <1>4, CountStep DEF Sampled, Counts
<1>7. /\ cyc.scores \in Int
      /\ cyc.scores * Wire + (g.scores % Wire) = g.scores + g.base.scores
  <2>1. /\ cyc.scores \in Int
        /\ cyc.scores * Wire + (g.scores % Wire)
               = (r.cycle.scores * Wire + (g0.scores % Wire)) + ds
    <3> DEFINE c2 == ScoreCycle((g0.scores + ds) % Wire, g0.scores % Wire, r.cycle.scores)
    <3>1. r.cycle.scores \in Int
      BY DEF Sampled
    <3>2. /\ c2 \in Int
          /\ c2 * Wire + ((g0.scores + ds) % Wire)
                 = (r.cycle.scores * Wire + (g0.scores % Wire)) + ds
      BY <1>3, <3>1, ScoreStep
    <3> HIDE DEF cyc, c2
    <3>3. g.scores % Wire = (g0.scores + ds) % Wire
      OBVIOUS
    <3>4. cyc.scores = c2
      BY <1>4, <3>3 DEF c2
    <3> QED
      BY <3>2, <3>3, <3>4
  <2>2. (r.cycle.scores * Wire + (g0.scores % Wire)) + ds = (g0.scores + g0.base.scores) + ds
    BY DEF Sampled
  <2>3. (g0.scores + g0.base.scores) + ds = g.scores + g.base.scores
    <3>1. g0.base.scores \in Int /\ ds \in Int
      BY StatsAssumption DEF Sampled, Base
    <3> QED
      BY <1>3, <3>1
  <2> QED
    BY <2>1, <2>2, <2>3
<1> HIDE DEF cyc, new
<1>8. /\ DOMAIN new = {"time", "scores", "realScores", "population", "peasants", "units",
                       "population2", "casuality", "res", "rate"}
      /\ new.scores = g.scores % Wire
      /\ new.realScores = cyc.scores * Wire + (g.scores % Wire)
      /\ new.population = g.population
      /\ new.peasants = g.peasants % Word /\ new.units = g.units % Word
      /\ new.population2 = ((g.units % Word) + (g.peasants % Word)) % Word
      /\ new.casuality = Casuality(new.population2, old, w)
  BY <1>1, <1>5, <1>6, SampleFields, SMTT(30) DEF new
<1>9. new.population2 = (g.units + g.peasants) % Word
  <2>1. ((g.units % Word) + (g.peasants % Word)) % Word = (g.units + g.peasants) % Word
    BY <1>3, Widths, ModSum
  <2> QED
    BY <1>8, <2>1
<1>10. Losses(new.casuality, g.units + g.peasants, g.population, g.base.losses)
  <2> DEFINE m1 == g0.units + g0.peasants
             m2 == g.units + g.peasants
             b == g.base.losses
             cas == r.stat.casuality
             q1 == g0.population
             q2 == g.population
  <2>1. /\ Losses(cas, m1, q1, b) /\ b \in Int
        /\ r.stat.population2 = m1 % Word /\ r.stat.population = q1
    BY DEF Sampled, Base
  <2>2. new.casuality = NextLosses(cas, m1, m2, q1, q2)
    BY <1>1, <1>2, <1>8, <1>9, <2>1 DEF Casuality, NextLosses
  <2>3. m1 \in Int /\ m2 \in Int /\ q1 \in 0 .. Wire - 1 /\ q2 \in 0 .. Wire - 1
    BY <1>3
  <2> HIDE DEF m1, m2, b, cas, q1, q2
  <2>4. Losses(NextLosses(cas, m1, m2, q1, q2), m2, q2, b)
    BY <2>1, <2>3, LossStep
  <2> QED
    BY <2>2, <2>4 DEF m2, b, q2
<1>11. /\ a.timeTick = g.time /\ a.cycle = cyc
       /\ a.stat.scores = g.scores % Wire
       /\ a.stat.realScores = cyc.scores * Wire + (g.scores % Wire)
       /\ a.stat.population = g.population /\ a.stat.peasants = g.peasants % Word
       /\ a.stat.units = g.units % Word
       /\ a.stat.population2 = (g.units + g.peasants) % Word
       /\ a.stat.casuality = new.casuality
  BY <1>1, <1>8, <1>9 DEF new, cyc, old, w
<1> QED
  BY <1>5, <1>6, <1>7, <1>10, <1>11 DEF Sampled, Counts

(* A report of a player in the first game of its record counts, and the    *)
(* record follows the game through it.                                     *)
LEMMA ReportFollows ==
    ASSUME NilStat, NEW p \in Player, DOMAIN rec[p] = RecordFields, game[p] \in Game,
           Follows(rec[p], game[p]), NEW dt \in TimeSteps, NEW dp \in CountSteps,
           NEW du \in CountSteps, NEW ds \in ScoreSteps, NEW pop \in Populations, NEW res,
           Played(game[p], dt, dp, du, ds, pop).time <= MaxTime
    PROVE  LET g == Played(game[p], dt, dp, du, ds, pop)
               w == DecodeStat(g, res)
           IN  TickAccepted(rec[p], w) /\ Follows(ApplyStat(p, w), g)
<1> DEFINE g0 == game[p]
           g == Played(g0, dt, dp, du, ds, pop)
           w == DecodeStat(g, res)
           r == rec[p]
           a == ApplyStat(p, w)
<1>1. /\ g \in Game /\ g.time = g0.time + dt
      /\ g.peasants = g0.peasants + dp /\ g.units = g0.units + du
      /\ g.scores = g0.scores + ds /\ g.population = pop
      /\ g.base \in Base /\ g.base # NoStat
      /\ IF g0.base # NoStat THEN g.base = g0.base
         ELSE g.base = [losses |-> g.peasants + g.units - pop,
                        scores |-> (g.scores % Wire) - g.scores]
  BY PlayedFields
<1>2. g.time <= MaxTime
  OBVIOUS
<1> HIDE DEF g
<1>3. w.time = g.time
  BY <1>1, <1>2, ReportFields
<1> DEFINE old == OldStat(r.stat, w)
           cyc == NextCycle(r.cycle, old, w)
           new == Sample(w, old, cyc)
<1>4. /\ a.timeTick = w.time /\ a.cycle = cyc
      /\ DOMAIN a.stat = DOMAIN new
      /\ \A x \in DOMAIN new : x # "rate" => a.stat[x] = new[x]
  BY AppliedFields
<1>5. a.stat # NoStat
  <2>1. "casuality" \in DOMAIN new
    BY SampleFields
  <2> QED
    BY <1>4, <2>1 DEF NilStat
<1>6. TickAccepted(r, w)
  <2>1. g0.time \in Nat /\ dt \in Nat /\ (r.timeTick = 0 \/ r.timeTick = g0.time)
    BY GameAssumption DEF Game, Follows, Sampled
  <2> HIDE DEF w
  <2> QED
    BY <1>1, <1>3, <2>1 DEF TickAccepted
<1>7. CASE r.stat = NoStat
  <2>1. r.cycle = NoCycle /\ g0 = NewGame
    BY <1>7 DEF Follows
  <2>2. /\ g0.base = NoStat /\ g.peasants \in 0 .. Wire - 1 /\ g.units \in 0 .. Wire - 1
    BY <1>1, <2>1, Widths DEF NewGame
  <2>3. Sampled(a, g)
    <3> HIDE DEF a
    <3> QED
      BY <1>1, <1>2, <1>4, <1>7, <2>1, <2>2, FirstSample
  <2> QED
    BY <1>5, <1>6, <2>3 DEF Follows, g
<1>8. CASE r.stat # NoStat
  <2>1. Sampled(r, g0) /\ g0.base # NoStat
    BY <1>8 DEF Follows, Sampled
  <2>2. Sampled(a, g)
    <3> HIDE DEF a, r, g0
    <3>1. g0 \in Game
      BY DEF g0
    <3> QED
      BY <1>1, <1>2, <1>4, <1>8, <2>1, <3>1, NextSample
  <2> QED
    BY <1>5, <1>6, <2>2 DEF Follows, g
<1> QED
  BY <1>7, <1>8

----------------------------------------------------------------------------
(* The invariant: in the first game of a record the record follows.        *)
RecordsOK ==
    /\ DOMAIN rec = Player /\ \A p \in Player : DOMAIN rec[p] = RecordFields
    /\ game \in [Player -> Game]
    /\ match \in [Player -> Nat \ {0}]

RecordsFollow == \A p \in Player : match[p] = 1 => Follows(rec[p], game[p])

FollowInv == RecordsOK /\ RecordsFollow

LEMMA InitFollow == Init => FollowInv
<1> SUFFICES ASSUME Init
             PROVE  FollowInv
  OBVIOUS
<1>1. DOMAIN FreshPlayer = RecordFields /\ Follows(FreshPlayer, NewGame)
  BY DEF FreshPlayer, RecordFields, Follows
<1>2. NewGame \in Game
  BY Widths DEF NewGame, Game
<1> QED
  BY <1>1, <1>2 DEF Init, FollowInv, RecordsOK, RecordsFollow

LEMMA SameFollows ==
    ASSUME NEW r, NEW s, NEW g, Follows(r, g),
           s.stat = r.stat, s.cycle = r.cycle, s.timeTick = r.timeTick
    PROVE  Follows(s, g)
BY DEF Follows, Sampled

(* A start list gives teams and colours and nothing else.                  *)
LEMMA StartFollow ==
    ASSUME FollowInv, NEW l \in StartLists, Start(l)
    PROVE  FollowInv'
<1>1. game' = game /\ match' = match
  BY DEF Start
<1>2. CASE rec' = rec
  BY <1>1, <1>2 DEF FollowInv, RecordsOK, RecordsFollow
<1>3. CASE rec' = ApplyStartedUsers(rec, l.list, l.count)
  <2>1. DOMAIN rec' = Player
    BY <1>3 DEF ApplyStartedUsers
  <2>2. ASSUME NEW p \in Player
        PROVE  /\ DOMAIN rec'[p] = RecordFields
               /\ rec'[p].stat = rec[p].stat /\ rec'[p].cycle = rec[p].cycle
               /\ rec'[p].timeTick = rec[p].timeTick
    <3>1. PICK x, y : \/ rec'[p] = rec[p]
                      \/ rec'[p] = [rec[p] EXCEPT !.theam = x, !.color = y]
      BY <1>3 DEF ApplyStartedUsers
    <3>2. DOMAIN rec[p] = RecordFields
      BY DEF FollowInv, RecordsOK
    <3> QED
      BY <3>1, <3>2 DEF RecordFields
  <2>3. RecordsFollow'
    <3> SUFFICES ASSUME NEW p \in Player, match[p] = 1
                 PROVE  Follows(rec'[p], game[p])
      BY <1>1 DEF RecordsFollow
    <3>1. Follows(rec[p], game[p])
      BY DEF FollowInv, RecordsFollow
    <3> QED
      BY <2>2, <3>1, SameFollows
  <2> QED
    BY <1>1, <2>1, <2>2, <2>3 DEF FollowInv, RecordsOK
<1> QED
  BY <1>2, <1>3 DEF Start

LEMMA StatsFollow ==
    ASSUME NilStat, FollowInv, NEW p \in Player, NEW dt \in TimeSteps,
           NEW dp \in CountSteps, NEW du \in CountSteps, NEW ds \in ScoreSteps,
           NEW pop \in Populations, NEW res, Stats(p, dt, dp, du, ds, pop, res)
    PROVE  /\ FollowInv'
           /\ match' = match /\ game'[p].time = game[p].time + dt
           /\ \A q \in Player : q # p => game'[q] = game[q]
           /\ room' = [room EXCEPT !.timeTick = RoomTick(@, [time |-> game'[p].time])]
           /\ last'.player = p
           /\ last'.result = "tick_ahead" => match[p] # 1
<1> DEFINE g == Played(game[p], dt, dp, du, ds, pop)
           w == DecodeStat(g, res)
<1>1. game[p] \in Game /\ DOMAIN rec = Player /\ DOMAIN rec[p] = RecordFields
  BY DEF FollowInv, RecordsOK
<1>a. /\ g \in Game /\ g.time = game[p].time + dt
      /\ g.peasants = game[p].peasants + dp /\ g.units = game[p].units + du
      /\ g.scores = game[p].scores + ds /\ g.population = pop
      /\ g.base \in Base /\ g.base # NoStat
      /\ IF game[p].base # NoStat THEN g.base = game[p].base
         ELSE g.base = [losses |-> g.peasants + g.units - pop,
                        scores |-> (g.scores % Wire) - g.scores]
  BY <1>1, PlayedFields
<1>2. g \in Game /\ g.time = game[p].time + dt
  <2> HIDE DEF g
  <2> QED
    BY <1>a
<1>3. /\ game' = [game EXCEPT ![p] = g] /\ match' = match /\ g.time <= MaxTime
      /\ rec' = IF TickAccepted(rec[p], w) THEN [rec EXCEPT ![p] = ApplyStat(p, w)] ELSE rec
      /\ room' = [room EXCEPT !.timeTick = RoomTick(@, w)]
      /\ last'.player = p
      /\ last'.result = IF TickAccepted(rec[p], w) THEN "applied" ELSE "tick_ahead"
  BY DEF Stats
<1>4. match[p] = 1 => TickAccepted(rec[p], w) /\ Follows(ApplyStat(p, w), g)
  BY <1>1, <1>3, ReportFollows DEF FollowInv, RecordsFollow
<1>5. DOMAIN ApplyStat(p, w) = RecordFields
  BY <1>1, AppliedFields
<1>6. w.time = g.time
  BY <1>2, <1>3, ReportFields
<1> HIDE DEF g, w
<1>7. game' \in [Player -> Game] /\ game'[p] = g /\ \A q \in Player : q # p => game'[q] = game[q]
  BY <1>2, <1>3 DEF FollowInv, RecordsOK
<1>8. RecordsOK'
  BY <1>1, <1>3, <1>5, <1>7 DEF FollowInv, RecordsOK
<1>9. RecordsFollow'
  <2> SUFFICES ASSUME NEW q \in Player, match[q] = 1
               PROVE  Follows(rec'[q], game'[q])
    BY <1>3 DEF RecordsFollow
  <2>1. CASE q = p
    BY <1>1, <1>3, <1>4, <1>7, <2>1
  <2>2. CASE q # p
    BY <1>1, <1>3, <1>7, <2>2 DEF FollowInv, RecordsFollow
  <2> QED
    BY <2>1, <2>2
<1>10. RoomTick(room.timeTick, w) = RoomTick(room.timeTick, [time |-> game'[p].time])
  BY <1>6, <1>7 DEF RoomTick
<1> QED
  BY <1>2, <1>3, <1>4, <1>7, <1>8, <1>9, <1>10 DEF FollowInv

LEMMA NextMatchFollow ==
    ASSUME FollowInv, NEW anew \in SUBSET Player, NextMatch(anew)
    PROVE  FollowInv'
<1>1. DOMAIN FreshPlayer = RecordFields /\ Follows(FreshPlayer, NewGame)
  BY DEF FreshPlayer, RecordFields, Follows
<1>2. NewGame \in Game
  BY Widths DEF NewGame, Game
<1>3. /\ rec' = [p \in Player |-> IF p \in anew THEN FreshPlayer ELSE rec[p]]
      /\ match' = [p \in Player |-> IF p \in anew THEN 1 ELSE match[p] + 1]
      /\ game' = [p \in Player |-> NewGame]
  BY DEF NextMatch
<1>4. RecordsOK'
  BY <1>1, <1>2, <1>3 DEF FollowInv, RecordsOK
<1>5. ASSUME NEW p \in Player, match'[p] = 1
      PROVE  p \in anew
  <2>1. match[p] \in Nat \ {0}
    BY DEF FollowInv, RecordsOK
  <2>2. p \notin anew => match'[p] = match[p] + 1
    BY <1>3
  <2> QED
    BY <1>5, <2>1, <2>2
<1> QED
  BY <1>1, <1>3, <1>4, <1>5 DEF FollowInv, RecordsFollow

LEMMA NextFollow ==
    ASSUME NilStat, FollowInv, [Next]_vars
    PROVE  FollowInv'
<1>1. ASSUME NEW l \in StartLists, Start(l)
      PROVE  FollowInv'
  BY <1>1, StartFollow
<1>2. ASSUME NEW p \in Reporters, Report(p)
      PROVE  FollowInv'
  <2>1. p \in Player
    BY StatsAssumption
  <2>2. PICK dt \in TimeSteps, dp \in CountSteps, du \in CountSteps, ds \in ScoreSteps,
             pop \in Populations, res \in Stores : Stats(p, dt, dp, du, ds, pop, res)
    BY <1>2 DEF Report
  <2> QED
    BY <2>1, <2>2, StatsFollow
<1>3. ASSUME NEW anew \in SUBSET Player, NextMatch(anew)
      PROVE  FollowInv'
  BY <1>3, NextMatchFollow
<1>4. CASE \/ \E p \in Reporters : StatsRefused(p)
           \/ \E p \in Reporters, found \in BOOLEAN : Endgame(p, found)
           \/ UNCHANGED vars
  <2>1. rec' = rec /\ game' = game /\ match' = match
    BY <1>4 DEF StatsRefused, Endgame, vars
  <2> QED
    BY <2>1 DEF FollowInv, RecordsOK, RecordsFollow
<1> QED
  BY <1>1, <1>2, <1>3, <1>4 DEF Next

----------------------------------------------------------------------------
(* The clocks.                                                             *)

LEMMA MaxIs ==
    ASSUME NEW S \in SUBSET Int, NEW m \in S, \A y \in S : m >= y
    PROVE  Max(S) = m
<1>a. \E x \in S : \A y \in S : x >= y
  OBVIOUS
<1>1. Max(S) \in S /\ \A y \in S : Max(S) >= y
  BY <1>a DEF Max
<1>2. Max(S) \in Int /\ m \in Int /\ Max(S) >= m /\ m >= Max(S)
  BY <1>1
<1> QED
  BY <1>2

(* The room's clock is some member's and behind no member's.               *)
ClockInv ==
    /\ "timeTick" \in DOMAIN room
    /\ \E p \in Player : room.timeTick = game[p].time
    /\ \A p \in Player : room.timeTick >= game[p].time
    /\ TickAheadOnlyCarriedOver

LEMMA ClockShows == FollowInv /\ ClockInv => TicksInStep
<1> SUFFICES ASSUME FollowInv, ClockInv
             PROVE  RoomClockLatest
  BY DEF TicksInStep, ClockInv
<1> DEFINE S == {game[p].time : p \in Player}
<1>1. S \in SUBSET Int
  BY DEF FollowInv, RecordsOK, Game
<1>2. room.timeTick \in S /\ \A y \in S : room.timeTick >= y
  BY DEF ClockInv
<1> HIDE DEF S
<1>3. Max(S) = room.timeTick
  BY <1>1, <1>2, MaxIs
<1> QED
  BY <1>3 DEF RoomClockLatest, S

LEMMA InitClock == Init => ClockInv
BY StatsAssumption DEF Init, ClockInv, NewRoom, NewGame, TickAheadOnlyCarriedOver

LEMMA StatsClock ==
    ASSUME NilStat, FollowInv, ClockInv, NEW p \in Player, NEW dt \in TimeSteps,
           NEW dp \in CountSteps, NEW du \in CountSteps, NEW ds \in ScoreSteps,
           NEW pop \in Populations, NEW res, Stats(p, dt, dp, du, ds, pop, res)
    PROVE  ClockInv'
<1>1. /\ FollowInv' /\ match' = match /\ game'[p].time = game[p].time + dt
      /\ \A q \in Player : q # p => game'[q] = game[q]
      /\ room' = [room EXCEPT !.timeTick = RoomTick(@, [time |-> game'[p].time])]
      /\ last'.player = p
      /\ last'.result = "tick_ahead" => match[p] # 1
  BY StatsFollow
<1>2. \A q \in Player : game[q].time \in Nat /\ game'[q].time \in Nat
  BY <1>1 DEF FollowInv, RecordsOK, Game
<1>3. dt \in Nat /\ room.timeTick \in Nat
  BY <1>2, GameAssumption DEF ClockInv
<1>4. room'.timeTick = RoomTick(room.timeTick, [time |-> game'[p].time])
  BY <1>1 DEF ClockInv
<1>5. room'.timeTick = IF room.timeTick >= game'[p].time THEN room.timeTick
                       ELSE game'[p].time
  <2> DEFINE S == {room.timeTick, game'[p].time}
             m == IF room.timeTick >= game'[p].time THEN room.timeTick ELSE game'[p].time
  <2>1. S \in SUBSET Int /\ m \in S /\ \A y \in S : m >= y
    BY <1>2, <1>3
  <2>2. Max(S) = m
    <3> HIDE DEF S, m
    <3> QED
      BY <2>1, MaxIs
  <2> QED
    BY <1>4, <2>2 DEF RoomTick
<1>6. "timeTick" \in DOMAIN room'
  BY <1>1 DEF ClockInv
<1>7. \A q \in Player : room'.timeTick >= game'[q].time
  BY <1>1, <1>2, <1>3, <1>5 DEF ClockInv
<1>8. \E q \in Player : room'.timeTick = game'[q].time
  <2>1. PICK q \in Player : room.timeTick = game[q].time
    BY DEF ClockInv
  <2>2. CASE room.timeTick >= game'[p].time
    <3>1. room'.timeTick = game'[q].time
      BY <1>1, <1>2, <1>3, <1>5, <2>1, <2>2
    <3> QED
      BY <3>1
  <2>3. CASE ~ (room.timeTick >= game'[p].time)
    BY <1>5, <2>3
  <2> QED
    BY <2>2, <2>3
<1>9. TickAheadOnlyCarriedOver'
  <2>1. match[p] \in Nat \ {0}
    BY DEF FollowInv, RecordsOK
  <2> QED
    BY <1>1, <2>1 DEF TickAheadOnlyCarriedOver
<1> QED
  BY <1>6, <1>7, <1>8, <1>9 DEF ClockInv

LEMMA NextClock ==
    ASSUME NilStat, FollowInv, ClockInv, [Next]_vars
    PROVE  ClockInv'
<1>1. ASSUME NEW l \in StartLists, Start(l)
      PROVE  ClockInv'
  <2>1. game' = game /\ match' = match /\ last'.cmd = "start"
    BY <1>1 DEF Start
  <2>2. room'.timeTick = room.timeTick /\ "timeTick" \in DOMAIN room'
    <3>1. \E x : room' = room \/ room' = [room EXCEPT !.startedUsers = x]
      BY <1>1 DEF Start
    <3> QED
      BY <3>1 DEF ClockInv
  <2> QED
    BY <2>1, <2>2 DEF ClockInv, TickAheadOnlyCarriedOver
<1>2. ASSUME NEW p \in Reporters, Report(p)
      PROVE  ClockInv'
  <2>1. p \in Player
    BY StatsAssumption
  <2>2. PICK dt \in TimeSteps, dp \in CountSteps, du \in CountSteps, ds \in ScoreSteps,
             pop \in Populations, res \in Stores : Stats(p, dt, dp, du, ds, pop, res)
    BY <1>2 DEF Report
  <2> QED
    BY <2>1, <2>2, StatsClock
<1>3. ASSUME NEW anew \in SUBSET Player, NextMatch(anew)
      PROVE  ClockInv'
  <2>1. /\ room' = NewRoom /\ game' = [p \in Player |-> NewGame]
        /\ last' = [last EXCEPT !.cmd = "none"]
    BY <1>3 DEF NextMatch
  <2>2. last'.cmd # "stats"
    BY <2>1
  <2> QED
    BY <2>1, <2>2, StatsAssumption
    DEF ClockInv, NewRoom, NewGame, TickAheadOnlyCarriedOver
<1>4. CASE \/ \E p \in Reporters : StatsRefused(p)
           \/ \E p \in Reporters, found \in BOOLEAN : Endgame(p, found)
  <2>1. room' = room /\ game' = game /\ match' = match /\ last'.result # "tick_ahead"
    BY <1>4 DEF StatsRefused, Endgame, EndgameEvent
  <2> QED
    BY <2>1 DEF ClockInv, TickAheadOnlyCarriedOver
<1>5. CASE UNCHANGED vars
  BY <1>5 DEF ClockInv, TickAheadOnlyCarriedOver, vars
<1> QED
  BY <1>1, <1>2, <1>3, <1>4, <1>5 DEF Next

----------------------------------------------------------------------------
LEMMA SampledShows ==
    ASSUME NEW r, NEW g, Sampled(r, g), g.peasants \in Nat, g.units \in Nat,
           g.population \in Nat
    PROVE  /\ r.stat.peasants = g.peasants % Word
           /\ r.stat.units = g.units % Word
           /\ r.stat.realScores = g.scores + g.base.scores
           /\ (r.stat.casuality - (g.peasants + g.units
                   - g.population - g.base.losses)) % Word = 0
<1>1. g.units + g.peasants = g.peasants + g.units
  OBVIOUS
<1>2. /\ r.stat.peasants = g.peasants % Word /\ r.stat.units = g.units % Word
      /\ r.stat.realScores = g.scores + g.base.scores
  BY DEF Sampled, Counts
<1>3. Losses(r.stat.casuality, g.peasants + g.units, g.population, g.base.losses)
  BY <1>1 DEF Sampled
<1>4. (r.stat.casuality - (g.peasants + g.units - g.population - g.base.losses)) % Word = 0
  <2>1. g.base.losses \in Int
    BY DEF Sampled, Base
  <2>2. g.peasants + g.units - g.population - g.base.losses
            = (g.peasants + g.units) - g.population - g.base.losses
    BY <2>1
  <2> QED
    BY <1>3, <2>2, Zenon DEF Losses
<1> QED
  BY <1>2, <1>4, Zenon

LEMMA FollowShows == FollowInv => StatsFollowGame
<1> SUFFICES ASSUME FollowInv, NEW p \in Player, FirstMatch(p)
             PROVE  /\ rec[p].stat.peasants = game[p].peasants % Word
                    /\ rec[p].stat.units = game[p].units % Word
                    /\ rec[p].stat.realScores = game[p].scores + game[p].base.scores
                    /\ (rec[p].stat.casuality - (game[p].peasants + game[p].units
                            - game[p].population - game[p].base.losses)) % Word = 0
  BY DEF StatsFollowGame, CountersUnwrapped, ScoresUnwrapped, CasualityCountsLosses
<1>1. /\ Sampled(rec[p], game[p])
      /\ game[p].peasants \in Nat /\ game[p].units \in Nat
      /\ game[p].population \in Nat
  BY DEF FirstMatch, FollowInv, RecordsFollow, RecordsOK, Follows, Game
<1> QED
  BY <1>1, SampledShows, Zenon

(* Through any number of overflows of the 16-bit fields, UpdateStat keeps  *)
(* the peasants, units, scores and casualties that the player's game has,  *)
(* as long as the record is in its first game.                             *)
THEOREM StatsFollowGameAlways == ASSUME NilStat PROVE Spec => []StatsFollowGame
<1>1. FollowInv /\ [Next]_vars => FollowInv'
  BY NextFollow
<1> QED
  BY <1>1, InitFollow, FollowShows, PTL DEF Spec

(* The room's clock is the latest of its members' games, and only a record *)
(* carried over from an earlier game has a report refused as behind.       *)
THEOREM TicksInStepAlways == ASSUME NilStat PROVE Spec => []TicksInStep
<1>1. Init => FollowInv /\ ClockInv
  BY InitFollow, InitClock
<1>2. FollowInv /\ ClockInv /\ [Next]_vars => FollowInv' /\ ClockInv'
  BY NextFollow, NextClock
<1> QED
  BY <1>1, <1>2, ClockShows, PTL DEF Spec

----------------------------------------------------------------------------
(* The rolling windows.                                                    *)

(* Every set of numbers has a least one: what holds of 0 and passes from n *)
(* to n + 1 has no least exception.                                        *)
LEMMA LeastNumber ==
    ASSUME NEW X \in SUBSET Nat, X # {}
    PROVE  \E n \in X : \A m \in X : n <= m
<1> DEFINE T == {1 .. n : n \in X}
           R == StrictSubsetOrdering(Nat)
<1>1. T \subseteq FiniteSubsetsOf(Nat) /\ T # {}
  <2>1. \A n \in Nat : IsFiniteSet(1 .. n) /\ 1 .. n \subseteq Nat
    BY FS_Interval
  <2> QED
    BY <2>1 DEF FiniteSubsetsOf
<1>2. PICK x \in T : \A y \in T : ~ (<<y, x>> \in R)
  <2> HIDE DEF T, R
  <2>1. IsWellFoundedOn(R, FiniteSubsetsOf(Nat))
    BY FS_StrictSubsetOrderingWellFounded DEF R
  <2> QED
    BY <1>1, <2>1, WFMin, Zenon
<1>3. PICK n \in X : x = 1 .. n
  BY <1>2
<1>4. ASSUME NEW m \in X, m < n
      PROVE  FALSE
  <2>1. 1 .. m \in T /\ 1 .. m \subseteq 1 .. n /\ 1 .. m # 1 .. n
    <3>1. n \in 1 .. n /\ n \notin 1 .. m /\ n \in Nat /\ m \in Nat
      BY <1>4
    <3> QED
      BY <3>1, <1>4
  <2>2. <<1 .. m, x>> \in R
    BY <1>3, <2>1 DEF StrictSubsetOrdering
  <2> QED
    BY <1>2, <2>1, <2>2
<1> QED
  BY <1>4

Point == [change : Int, time : Nat, interval : Nat \ {0}]

(* f adds up the changes of the first m points of h.                       *)
Totals(h, m, f) ==
    /\ f \in [0 .. m -> Int]
    /\ f[0] = 0
    /\ \A n \in 1 .. m : f[n] = f[n - 1] + h[n].change

LEMMA TotalsExist ==
    ASSUME NEW h \in Seq(Point), NEW m \in 0 .. Len(h)
    PROVE  \E f : Totals(h, m, f)
<1> DEFINE X == {k \in 0 .. Len(h) : ~ \E f : Totals(h, k, f)}
<1> SUFFICES ASSUME X # {}
             PROVE  FALSE
  OBVIOUS
<1>1. Len(h) \in Nat /\ X \in SUBSET Nat
  OBVIOUS
<1>2. PICK k \in X : \A j \in X : k <= j
  <2> HIDE DEF X
  <2> QED
    BY <1>1, LeastNumber
<1>3. k # 0
  <2>1. Totals(h, 0, [n \in 0 .. 0 |-> 0])
    BY DEF Totals
  <2> QED
    BY <2>1
<1>4. k \in 1 .. Len(h) /\ k - 1 \in 0 .. Len(h) /\ k - 1 \notin X
  BY <1>1, <1>2, <1>3
<1>5. PICK f : Totals(h, k - 1, f)
  BY <1>4
<1> DEFINE g == [n \in 0 .. k |-> IF n = k THEN f[k - 1] + h[k].change ELSE f[n]]
<1>6. h[k].change \in Int
  <2>1. h[k] \in Point
    BY <1>4
  <2> QED
    BY <2>1 DEF Point
<1>7. f[k - 1] \in Int /\ \A n \in 0 .. k - 1 : f[n] \in Int
  BY <1>4, <1>5 DEF Totals
<1>8. Totals(h, k, g)
  <2>1. g \in [0 .. k -> Int]
    BY <1>4, <1>6, <1>7
  <2>2. g[0] = 0
    BY <1>4, <1>5 DEF Totals
  <2>3. ASSUME NEW n \in 1 .. k
        PROVE  g[n] = g[n - 1] + h[n].change
    <3>1. g[n - 1] = f[n - 1]
      BY <1>4
    <3>2. CASE n = k
      BY <1>4, <3>1, <3>2
    <3>3. CASE n # k
      <4>1. n \in 1 .. k - 1 /\ g[n] = f[n]
        BY <1>4, <3>3
      <4> QED
        BY <1>5, <3>1, <4>1 DEF Totals
    <3> QED
      BY <3>2, <3>3
  <2> QED
    BY <2>1, <2>2, <2>3 DEF Totals
<1> QED
  BY <1>8

LEMMA ChangesTotals ==
    ASSUME NEW h \in Seq(Point)
    PROVE  Totals(h, Len(h), Changes(h))
<1> DEFINE Adds(f) == f = [n \in 0 .. Len(h) |->
                              IF n = 0 THEN 0 ELSE f[n - 1] + h[n].change]
<1>1. Len(h) \in Nat
  OBVIOUS
<1>2. PICK f : Totals(h, Len(h), f)
  BY <1>1, TotalsExist
<1>3. Adds(f)
  <2>1. f = [n \in 0 .. Len(h) |-> f[n]]
    BY <1>2 DEF Totals
  <2>2. \A n \in 0 .. Len(h) : f[n] = IF n = 0 THEN 0 ELSE f[n - 1] + h[n].change
    BY <1>1, <1>2 DEF Totals
  <2> QED
    BY <2>1, <2>2
<1>4. Adds(Changes(h))
  <2>1. Changes(h) = CHOOSE x : Adds(x)
    BY DEF Changes
  <2>2. Adds(CHOOSE x : Adds(x))
    BY <1>3
  <2> QED
    BY <2>1, <2>2
<1> DEFINE c == Changes(h)
<1>5. /\ c = [n \in 0 .. Len(h) |-> c[n]]
      /\ c[0] = 0
      /\ \A n \in 1 .. Len(h) : c[n] = c[n - 1] + h[n].change
  <2> HIDE DEF c
  <2>1. Adds(c)
    BY <1>4 DEF c
  <2> QED
    BY <1>1, <2>1
<1>6. \A n \in 0 .. Len(h) : c[n] \in Int
  <2> HIDE DEF c
  <2> DEFINE X == {k \in 0 .. Len(h) : c[k] \notin Int}
  <2> SUFFICES ASSUME X # {}
               PROVE  FALSE
    OBVIOUS
  <2>1. X \in SUBSET Nat
    BY <1>1
  <2>2. PICK k \in X : \A j \in X : k <= j
    <3> HIDE DEF X
    <3> QED
      BY <2>1, LeastNumber
  <2>3. k \in 1 .. Len(h) /\ k - 1 \in 0 .. Len(h) /\ k - 1 \notin X
    BY <1>1, <1>5, <2>2
  <2>4. h[k].change \in Int
    <3>1. h[k] \in Point
      BY <2>3
    <3> QED
      BY <3>1 DEF Point
  <2>5. c[k - 1] \in Int /\ c[k] = c[k - 1] + h[k].change
    BY <1>5, <2>3
  <2> QED
    BY <2>2, <2>4, <2>5
<1> QED
  BY <1>5, <1>6 DEF Totals

(* Two sums that take the same steps stay as far apart as they begin.      *)
LEMMA SameSteps ==
    ASSUME NEW m \in Nat, NEW F \in [0 .. m -> Int], NEW G \in [0 .. m -> Int],
           \A n \in 1 .. m : F[n] - F[n - 1] = G[n] - G[n - 1]
    PROVE  F[m] - F[0] = G[m] - G[0]
<1> DEFINE X == {k \in 0 .. m : F[k] - F[0] # G[k] - G[0]}
<1> SUFFICES ASSUME X # {}
             PROVE  FALSE
  BY SMTT(30)
<1>1. X \in SUBSET Nat
  OBVIOUS
<1>2. PICK k \in X : \A j \in X : k <= j
  <2> HIDE DEF X
  <2> QED
    BY <1>1, LeastNumber
<1>3. F[0] \in Int /\ G[0] \in Int
  OBVIOUS
<1>4. k \in 1 .. m /\ k - 1 \in 0 .. m /\ k - 1 \notin X
  BY <1>2, <1>3
<1>5. F[k - 1] - F[0] = G[k - 1] - G[0] /\ F[k] - F[k - 1] = G[k] - G[k - 1]
  BY <1>4
<1>6. F[k - 1] \in Int /\ G[k - 1] \in Int /\ F[k] \in Int /\ G[k] \in Int
  BY <1>4
<1>7. F[k] - F[0] = G[k] - G[0]
  <2> DEFINE a == F[k - 1]
             b == F[0]
             c == F[k]
             x == G[k - 1]
             y == G[0]
             z == G[k]
  <2>1. /\ a \in Int /\ b \in Int /\ c \in Int /\ x \in Int /\ y \in Int /\ z \in Int
        /\ a - b = x - y /\ c - a = z - x
    BY <1>3, <1>5, <1>6
  <2> HIDE DEF a, b, c, x, y, z
  <2>2. c - b = z - y
    BY <2>1
  <2> QED
    BY <2>2 DEF b, c, y, z
<1> QED
  BY <1>2, <1>7

(* The points Roll drops are the first n, all of them behind the cutoff,   *)
(* and the next one is not.                                                *)
LEMMA ExpiredHead ==
    ASSUME NEW h \in Seq(Point), NEW time, NEW window,
           NEW cut \in Int, cut = (time - window) % Word
    PROVE  LET n == Expired(h, time, window)
           IN  /\ n \in 0 .. Len(h)
               /\ \A j \in 1 .. n : h[j].time < cut
               /\ n < Len(h) => h[n + 1].time >= cut
<1> DEFINE D == {i \in DOMAIN h : \A j \in 1 .. i : h[j].time < cut}
           X == {k \in 0 .. Len(h) : k + 1 \notin D}
<1>1. Len(h) \in Nat /\ DOMAIN h = 1 .. Len(h)
  OBVIOUS
<1>2. X \in SUBSET Nat /\ Len(h) \in X
  BY <1>1
<1>3. PICK n \in X : \A k \in X : n <= k
  <2> HIDE DEF X
  <2> QED
    BY <1>2, LeastNumber
<1>4. n \in 0 .. Len(h)
  OBVIOUS
<1>5. D = 1 .. n
  <2>1. ASSUME NEW i \in 1 .. n
        PROVE  i \in D
    <3>1. i - 1 \in 0 .. Len(h) /\ (i - 1) + 1 = i /\ ~ (n <= i - 1)
      BY <1>1, <1>4
    <3>2. i - 1 \notin X
      <4> HIDE DEF X
      <4> QED
        BY <1>3, <3>1
    <3> QED
      BY <3>1, <3>2
  <2>2. ASSUME NEW i \in D
        PROVE  i \in 1 .. n
    <3>1. i \in 1 .. Len(h) /\ \A j \in 1 .. i : h[j].time < cut
      BY <1>1
    <3>2. CASE i > n
      <4>1. n + 1 \in 1 .. i /\ n + 1 \in DOMAIN h /\ \A j \in 1 .. n + 1 : j \in 1 .. i
        BY <1>1, <1>4, <3>1, <3>2
      <4>2. n + 1 \in D
        BY <3>1, <4>1
      <4> QED
        BY <1>3, <4>2
    <3> QED
      BY <1>4, <3>1, <3>2
  <2> HIDE DEF D
  <2> QED
    BY <2>1, <2>2
<1>6. Expired(h, time, window) = n
  <2>1. Cardinality(1 .. n) = n
    BY <1>4, FS_Interval
  <2> QED
    BY <1>5, <2>1 DEF Expired
<1>7. \A j \in 1 .. n : h[j].time < cut
  <2> SUFFICES ASSUME NEW j \in 1 .. n
               PROVE  h[j].time < cut
    OBVIOUS
  <2>1. j \in D /\ j \in 1 .. j
    BY <1>4, <1>5
  <2> QED
    BY <2>1
<1>8. ASSUME n < Len(h)
      PROVE  h[n + 1].time >= cut
  <2>1. n + 1 \in DOMAIN h /\ n + 1 \notin D
    BY <1>1, <1>3, <1>4, <1>8
  <2>2. PICK j \in 1 .. n + 1 : ~ (h[j].time < cut)
    BY <2>1
  <2>3. j = n + 1
    BY <1>4, <1>7, <2>2
  <2>4. h[n + 1] \in Point
    BY <2>1
  <2>5. h[n + 1].time \in Nat
    BY <2>4 DEF Point
  <2> QED
    BY <2>2, <2>3, <2>5
<1> QED
  BY <1>4, <1>6, <1>7, <1>8

(* A new point adds its change to those of the history.                    *)
LEMMA ChangesAppend ==
    ASSUME NEW h \in Seq(Point), NEW pt \in Point
    PROVE  Changes(Append(h, pt))[Len(h) + 1] = Changes(h)[Len(h)] + pt.change
<1> DEFINE a == Append(h, pt)
           F == Changes(a)
           G == Changes(h)
           m == Len(h)
<1>1. /\ a \in Seq(Point) /\ m \in Nat /\ Len(a) = m + 1 /\ a[m + 1] = pt
      /\ \A n \in 1 .. m : a[n] = h[n]
  OBVIOUS
<1>2. /\ F \in [0 .. m + 1 -> Int] /\ F[0] = 0
      /\ \A n \in 1 .. m + 1 : F[n] = F[n - 1] + a[n].change
  <2>1. Totals(a, Len(a), F)
    BY <1>1, ChangesTotals
  <2> HIDE DEF F, a, m
  <2> QED
    BY <1>1, <2>1 DEF Totals
<1>3. /\ G \in [0 .. m -> Int] /\ G[0] = 0
      /\ \A n \in 1 .. m : G[n] = G[n - 1] + h[n].change
  <2>1. Totals(h, m, G)
    BY ChangesTotals
  <2> HIDE DEF G, m
  <2> QED
    BY <2>1 DEF Totals
<1> HIDE DEF F, G, a, m
<1>4. \A n \in 0 .. m : F[n] \in Int /\ G[n] \in Int
  BY <1>1, <1>2, <1>3
<1>5. \A n \in 1 .. m : F[n] - F[n - 1] = G[n] - G[n - 1]
  <2> SUFFICES ASSUME NEW n \in 1 .. m
               PROVE  F[n] - F[n - 1] = G[n] - G[n - 1]
    OBVIOUS
  <2>1. n \in 1 .. m + 1 /\ n \in 0 .. m /\ n - 1 \in 0 .. m /\ a[n] = h[n]
    BY <1>1
  <2>2. F[n] = F[n - 1] + a[n].change /\ G[n] = G[n - 1] + a[n].change
    BY <1>2, <1>3, <2>1
  <2>3. h[n] \in Point
    BY <1>1 DEF m
  <2>4. a[n].change \in Int
    BY <2>1, <2>3 DEF Point
  <2>5. F[n - 1] \in Int /\ G[n - 1] \in Int
    BY <1>4, <2>1
  <2> HIDE DEF Point
  <2> QED
    BY <2>2, <2>4, <2>5
<1>6. F[m] - F[0] = G[m] - G[0]
  <2> DEFINE K == [n \in 0 .. m |-> F[n]]
  <2>1. K \in [0 .. m -> Int] /\ K[m] = F[m] /\ K[0] = F[0]
    BY <1>1, <1>4
  <2>2. \A n \in 1 .. m : K[n] - K[n - 1] = G[n] - G[n - 1]
    <3>1. \A n \in 1 .. m : n \in 0 .. m /\ n - 1 \in 0 .. m
      BY <1>1
    <3> QED
      BY <1>5, <3>1
  <2> HIDE DEF K
  <2>3. K[m] - K[0] = G[m] - G[0]
    BY <1>1, <1>3, <2>1, <2>2, SameSteps
  <2> QED
    BY <2>1, <2>3
<1>7. F[m + 1] = F[m] + pt.change
  <2>1. m + 1 \in 1 .. m + 1 /\ (m + 1) - 1 = m
    BY <1>1
  <2> QED
    BY <1>1, <1>2, <2>1
<1>8. F[m] = G[m]
  <2>1. m \in 0 .. m
    BY <1>1
  <2>2. F[m] \in Int /\ G[m] \in Int
    BY <1>4, <2>1
  <2> QED
    BY <1>2, <1>3, <1>6, <2>2
<1>9. F[m + 1] = G[m] + pt.change
  BY <1>7, <1>8
<1> QED
  BY <1>9 DEF F, G, m, a

(* Without its first n points a history has the other changes.             *)
LEMMA ChangesTail ==
    ASSUME NEW h \in Seq(Point), NEW n \in 0 .. Len(h)
    PROVE  LET t == SubSeq(h, n + 1, Len(h))
           IN  /\ t \in Seq(Point) /\ Len(t) = Len(h) - n
               /\ \A i \in 1 .. Len(h) - n : t[i] = h[n + i]
               /\ Changes(t)[Len(t)] = Changes(h)[Len(h)] - Changes(h)[n]
<1> DEFINE t == SubSeq(h, n + 1, Len(h))
           m == Len(h) - n
           C == Changes(h)
           F == Changes(t)
           G == [i \in 0 .. m |-> C[n + i]]
<1>1. Len(h) \in Nat /\ n \in Nat /\ m \in Nat /\ n + m = Len(h)
  OBVIOUS
<1>2. t \in Seq(Point) /\ Len(t) = m /\ \A i \in 1 .. m : t[i] = h[n + i]
  <2> DEFINE b == n + 1
             e == Len(h)
  <2>1. b \in Int /\ e \in Int /\ \A i \in b .. e : h[i] \in Point
    BY <1>1
  <2>2. /\ t \in Seq(Point)
        /\ Len(t) = IF b <= e THEN e - b + 1 ELSE 0
        /\ \A i \in 1 .. e - b + 1 : t[i] = h[b + i - 1]
    <3> HIDE DEF b, e, Point, m
    <3>1. /\ SubSeq(h, b, e) \in Seq(Point)
          /\ Len(SubSeq(h, b, e)) = IF b <= e THEN e - b + 1 ELSE 0
          /\ \A i \in 1 .. e - b + 1 : SubSeq(h, b, e)[i] = h[b + i - 1]
      BY <2>1, SubSeqProperties
    <3> QED
      BY <3>1 DEF b, e
  <2>3. \A i \in 1 .. m : b + i - 1 = n + i
    BY <1>1
  <2>4. e - b + 1 = m /\ (~ (b <= e) => m = 0)
    <3>1. \A x, y \in Nat : x <= y => /\ y - (x + 1) + 1 = y - x
                                      /\ (~ (x + 1 <= y) => y - x = 0)
      OBVIOUS
    <3>2. n <= Len(h)
      OBVIOUS
    <3> QED
      BY <1>1, <3>1, <3>2, Zenon
  <2> HIDE DEF t, m, b, e
  <2>5. Len(t) = m
    BY <2>2, <2>4
  <2>6. \A i \in 1 .. m : t[i] = h[n + i]
    BY <2>2, <2>3, <2>4
  <2> QED
    BY <2>2, <2>5, <2>6
<1>3. /\ C \in [0 .. Len(h) -> Int]
      /\ \A i \in 1 .. Len(h) : C[i] = C[i - 1] + h[i].change
  <2>1. Totals(h, Len(h), C)
    BY ChangesTotals
  <2> HIDE DEF C
  <2> QED
    BY <2>1 DEF Totals
<1>4. /\ F \in [0 .. m -> Int] /\ F[0] = 0
      /\ \A i \in 1 .. m : F[i] = F[i - 1] + t[i].change
  <2>1. Totals(t, Len(t), F)
    BY <1>2, ChangesTotals
  <2> HIDE DEF F, t, m
  <2> QED
    BY <1>2, <2>1 DEF Totals
<1> HIDE DEF F, C, t, m
<1>5. G \in [0 .. m -> Int]
  <2>1. \A i \in 0 .. m : n + i \in 0 .. Len(h)
    BY <1>1
  <2>2. \A i \in 0 .. m : C[n + i] \in Int
    BY <1>3, <2>1
  <2> QED
    BY <2>2
<1>6. \A i \in 1 .. m : F[i] - F[i - 1] = G[i] - G[i - 1]
  <2> SUFFICES ASSUME NEW i \in 1 .. m
               PROVE  F[i] - F[i - 1] = G[i] - G[i - 1]
    OBVIOUS
  <2>1. n + i \in 1 .. Len(h) /\ i - 1 \in 0 .. m /\ i \in 0 .. m /\ (n + i) - 1 = n + (i - 1)
    BY <1>1
  <2>2. F[i] = F[i - 1] + t[i].change /\ t[i] = h[n + i]
    BY <1>2, <1>4
  <2>3. G[i] = G[i - 1] + h[n + i].change
    BY <1>3, <2>1
  <2>4. h[n + i] \in Point
    BY <2>1
  <2>5. h[n + i].change \in Int
    BY <2>4 DEF Point
  <2> HIDE DEF G, Point
  <2>6. F[i - 1] \in Int /\ G[i - 1] \in Int
    BY <1>4, <1>5, <2>1
  <2> QED
    BY <2>2, <2>3, <2>5, <2>6
<1>7. F[m] - F[0] = G[m] - G[0]
  <2> HIDE DEF G
  <2> QED
    BY <1>1, <1>4, <1>5, <1>6, SameSteps
<1>8. G[m] = C[Len(h)] /\ G[0] = C[n]
  BY <1>1
<1>9. F[m] = C[Len(h)] - C[n]
  <2>1. m \in 0 .. m /\ 0 \in 0 .. m
    BY <1>1
  <2> HIDE DEF G
  <2>2. F[m] \in Int /\ G[m] \in Int /\ G[0] \in Int
    BY <1>4, <1>5, <2>1
  <2> QED
    BY <1>4, <1>7, <1>8, <2>2
<1> QED
  BY <1>2, <1>9 DEF F, C, t, m

(* A history of a window at a player's tick: whole, in order, and summed   *)
(* up.  No point is from before the window has passed once, so none covers *)
(* more ticks than there were.                                             *)
InWindow(h, tick, window) ==
    /\ h \in Seq(Point)
    /\ \A i \in 1 .. Len(h) :
           /\ h[i].time >= window /\ h[i].time <= tick /\ h[i].time >= tick - window
           /\ h[i].interval <= h[i].time
    /\ \A i, j \in 1 .. Len(h) : i <= j => h[i].time <= h[j].time
    /\ \A i \in 2 .. Len(h) : h[i].interval = Interval(h[i].time, h[i - 1].time)
    /\ h # <<>> => h[Len(h)].time = tick

Summed(h, sum) == sum = Changes(h)[Len(h)]

(* Ticks between two samples of a player.                                  *)
LEMMA IntervalIs ==
    ASSUME NEW tick \in 0 .. Word - 1, NEW time \in tick .. Word - 1
    PROVE  Interval(time, tick) = IF time = tick THEN 1 ELSE time - tick
<1>1. time - tick \in 0 .. Word - 1 /\ Word \in Nat \ {0}
  BY Widths
<1>2. (time - tick) % Word = time - tick
  BY <1>1, ModRange
<1> QED
  BY <1>2 DEF Interval

(* The cutoff of updateRolling, with the uint32 borrow of a window that    *)
(* has not passed once: then even the new point is behind it.              *)
LEMMA CutoffIs ==
    ASSUME NEW time \in 0 .. Word - 1, NEW window \in 1 .. Word - 1
    PROVE  (time - window) % Word = IF time < window THEN (time - window) + Word
                                    ELSE time - window
<1>0. Word \in Nat \ {0}
  BY Widths
<1>1. CASE time < window
  <2> DEFINE r == (time - window) + Word
  <2>1. r \in 0 .. Word - 1
    BY <1>0, <1>1
  <2>2. 0 - 1 \in Int /\ (0 - 1) * Word = 0 - Word
    BY <1>0
  <2> HIDE DEF r
  <2>3. ((0 - 1) * Word + r) % Word = r
    BY <1>0, <2>1, <2>2, ModIs
  <2>4. (0 - 1) * Word + r = time - window
    BY <1>0, <2>2 DEF r
  <2> QED
    BY <1>1, <2>3, <2>4 DEF r
<1>2. CASE ~ (time < window)
  <2>1. time - window \in 0 .. Word - 1
    BY <1>0, <1>2
  <2> QED
    BY <1>0, <1>2, <2>1, ModRange
<1> QED
  BY <1>1, <1>2

(* updateRolling keeps a history of the window, summed up.                 *)
LEMMA RollKeeps ==
    ASSUME NEW tick \in 0 .. Word - 1, NEW time \in tick .. Word - 1,
           NEW window \in 1 .. Word - 1, NEW cur \in Int, NEW prev \in Int,
           NEW h, NEW sum, InWindow(h, tick, window), Summed(h, sum)
    PROVE  LET r == Roll(h, sum, cur, prev, time, Interval(time, tick), window)
           IN  InWindow(r.history, time, window) /\ Summed(r.history, r.sum)
<1> DEFINE int == Interval(time, tick)
           pt == [change |-> cur - prev, time |-> time, interval |-> int]
           all == Append(h, pt)
           n == Expired(all, time, window)
           t == SubSeq(all, n + 1, Len(all))
           cut == (time - window) % Word
           L == Len(h)
<1>1. Roll(h, sum, cur, prev, time, int, window)
          = [history |-> t, sum |-> (sum + (cur - prev)) - Changes(all)[n]]
  BY DEF Roll, WithPoint
<1>2. Word \in Nat \ {0} /\ time \in 0 .. Word - 1 /\ time \in Nat /\ tick \in Nat /\ tick <= time
  BY Widths
<1>3. int = IF time = tick THEN 1 ELSE time - tick
  BY IntervalIs
<1>4. pt \in Point /\ pt.time = time /\ pt.interval = int /\ pt.change = cur - prev
  <2> HIDE DEF int
  <2>1. int \in Nat \ {0} /\ cur - prev \in Int
    BY <1>2, <1>3
  <2> QED
    BY <1>2, <2>1 DEF Point
<1>5. cut \in Int /\ cut = IF time < window THEN (time - window) + Word ELSE time - window
  <2>1. cut = IF time < window THEN (time - window) + Word ELSE time - window
    BY <1>2, CutoffIs
  <2> HIDE DEF cut
  <2> QED
    BY <1>2, <2>1
<1> HIDE DEF int, pt, cut
<1>6. /\ h \in Seq(Point) /\ L \in Nat /\ all \in Seq(Point) /\ Len(all) = L + 1
      /\ all[L + 1] = pt /\ \A i \in 1 .. L : all[i] = h[i]
  BY <1>4, AppendProperties DEF InWindow
<1>7. Changes(all)[L + 1] = sum + (cur - prev)
  BY <1>4, <1>6, ChangesAppend DEF Summed
<1>8. /\ n \in 0 .. L + 1
      /\ \A j \in 1 .. n : all[j].time < cut
      /\ n < L + 1 => all[n + 1].time >= cut
  <2> HIDE DEF all, L
  <2> QED
    BY <1>5, <1>6, ExpiredHead DEF cut
<1>9. /\ t \in Seq(Point) /\ Len(t) = (L + 1) - n
      /\ \A i \in 1 .. (L + 1) - n : t[i] = all[n + i]
      /\ Changes(t)[Len(t)] = (sum + (cur - prev)) - Changes(all)[n]
  <2> HIDE DEF all, L, n
  <2>1. n \in 0 .. Len(all)
    BY <1>6, <1>8
  <2>2. /\ t \in Seq(Point) /\ Len(t) = Len(all) - n
        /\ \A i \in 1 .. Len(all) - n : t[i] = all[n + i]
        /\ Changes(t)[Len(t)] = Changes(all)[Len(all)] - Changes(all)[n]
    <3> HIDE DEF Point
    <3> QED
      BY <1>6, <2>1, ChangesTail
  <2> HIDE DEF t
  <2>3. Len(all) = L + 1
    BY <1>6
  <2> DEFINE x == sum + (cur - prev)
  <2>4. Changes(all)[Len(all)] = x
    BY <1>7, <2>3, Zenon
  <2> HIDE DEF x
  <2>5. Changes(t)[Len(t)] = x - Changes(all)[n]
    BY <2>2, <2>4
  <2>6. /\ t \in Seq(Point) /\ Len(t) = (L + 1) - n
        /\ \A i \in 1 .. (L + 1) - n : t[i] = all[n + i]
    BY <2>2, <2>3
  <2> QED
    BY <2>5, <2>6, Zenon DEF x
<1> HIDE DEF all, t, n, L
<1>10. \A i \in 1 .. L + 1 : all[i].time \in Nat /\ all[i].time <= time
  <2> SUFFICES ASSUME NEW i \in 1 .. L + 1
               PROVE  all[i].time \in Nat /\ all[i].time <= time
    OBVIOUS
  <2>1. CASE i = L + 1
    BY <1>2, <1>4, <1>6, <2>1
  <2>2. CASE i # L + 1
    <3>1. i \in 1 .. L /\ all[i] = h[i] /\ h[i] \in Point
      BY <1>6, <2>2 DEF L
    <3>2. h[i].time <= tick /\ h[i].time \in Nat
      BY <3>1 DEF InWindow, L, Point
    <3> QED
      BY <1>2, <3>1, <3>2
  <2> QED
    BY <2>1, <2>2
<1>11. \A i, j \in 1 .. L + 1 : i <= j => all[i].time <= all[j].time
  <2> SUFFICES ASSUME NEW i \in 1 .. L + 1, NEW j \in 1 .. L + 1, i <= j
               PROVE  all[i].time <= all[j].time
    OBVIOUS
  <2>1. CASE j = L + 1
    BY <1>4, <1>6, <1>10, <2>1
  <2>2. CASE j # L + 1
    <3>1. i \in 1 .. L /\ j \in 1 .. L
      BY <1>6, <2>2
    <3> QED
      BY <1>6, <3>1 DEF InWindow, L
  <2> QED
    BY <2>1, <2>2
<1>12. \A i \in 2 .. L + 1 : all[i].interval = Interval(all[i].time, all[i - 1].time)
  <2> SUFFICES ASSUME NEW i \in 2 .. L + 1
               PROVE  all[i].interval = Interval(all[i].time, all[i - 1].time)
    OBVIOUS
  <2>1. CASE i = L + 1
    <3>1. L \in 1 .. L /\ h # <<>> /\ i - 1 = L
      BY <1>6, <2>1 DEF L
    <3>2. all[i - 1].time = tick
      BY <1>6, <3>1 DEF InWindow, L
    <3> QED
      BY <1>4, <1>6, <2>1, <3>2 DEF int
  <2>2. CASE i # L + 1
    <3>1. i \in 2 .. L /\ i \in 1 .. L /\ i - 1 \in 1 .. L
      BY <1>6, <2>2
    <3> QED
      BY <1>6, <3>1 DEF InWindow, L
  <2> QED
    BY <2>1, <2>2
<1>13. ASSUME time < window
       PROVE  n = L + 1
  <2> SUFFICES ASSUME n < L + 1
               PROVE  FALSE
    BY <1>6, <1>8
  <2>1. n + 1 \in 1 .. L + 1 /\ all[n + 1].time >= cut
    BY <1>6, <1>8
  <2>2. all[n + 1].time \in Nat /\ all[n + 1].time <= time
    BY <1>10, <2>1
  <2>3. cut = (time - window) + Word /\ window < Word
    BY <1>2, <1>5, <1>13
  <2> QED
    BY <1>2, <2>1, <2>2, <2>3
<1>14. ASSUME NEW i \in n + 1 .. L + 1
       PROVE  /\ time >= window
              /\ all[i].time >= window /\ all[i].time <= time /\ all[i].time >= time - window
              /\ all[i].interval <= all[i].time
  <2>1. n < L + 1 /\ n + 1 \in 1 .. L + 1 /\ i \in 1 .. L + 1 /\ n + 1 <= i
    BY <1>6, <1>8
  <2>2. time >= window /\ cut = time - window
    BY <1>2, <1>5, <1>6, <1>8, <1>13, <2>1
  <2>3. all[n + 1].time >= cut /\ all[n + 1].time <= all[i].time
    BY <1>8, <1>11, <2>1
  <2>4. all[n + 1].time \in Nat /\ all[i].time \in Nat /\ all[i].time <= time
    BY <1>10, <2>1
  <2>5. all[i].time >= time - window
    BY <1>2, <2>2, <2>3, <2>4
  <2>6. CASE i = L + 1
    <3>1. all[i].time = time /\ all[i].interval = int
      BY <1>4, <1>6, <2>6
    <3>2. int <= time
      BY <1>2, <1>3, <2>2
    <3> QED
      BY <2>2, <2>4, <2>5, <3>1, <3>2
  <2>7. CASE i # L + 1
    <3>1. i \in 1 .. L /\ all[i] = h[i]
      BY <1>6, <2>1, <2>7
    <3>2. h[i].time >= window /\ h[i].interval <= h[i].time
      BY <3>1 DEF InWindow, L
    <3> QED
      BY <2>2, <2>4, <2>5, <3>1, <3>2
  <2> QED
    BY <2>6, <2>7
<1>15. \A i \in 1 .. Len(t) : n + i \in n + 1 .. L + 1 /\ n + i \in 1 .. L + 1 /\ t[i] = all[n + i]
  BY <1>6, <1>8, <1>9, SMTT(30)
<1>16. InWindow(t, time, window)
  <2>1. ASSUME NEW i \in 1 .. Len(t)
        PROVE  /\ t[i].time >= window /\ t[i].time <= time /\ t[i].time >= time - window
               /\ t[i].interval <= t[i].time
    BY <1>14, <1>15
  <2>2. ASSUME NEW i \in 1 .. Len(t), NEW j \in 1 .. Len(t), i <= j
        PROVE  t[i].time <= t[j].time
    <3>1. n + i \in 1 .. L + 1 /\ n + j \in 1 .. L + 1 /\ n + i <= n + j
      BY <1>8, <1>15, <2>2
    <3> QED
      BY <1>11, <1>15, <3>1
  <2>3. ASSUME NEW i \in 2 .. Len(t)
        PROVE  t[i].interval = Interval(t[i].time, t[i - 1].time)
    <3>1. i \in 1 .. Len(t) /\ i - 1 \in 1 .. Len(t)
      BY <1>9
    <3>2. t[i] = all[n + i] /\ t[i - 1] = all[n + (i - 1)] /\ n + (i - 1) = (n + i) - 1
      BY <1>8, <1>15, <3>1
    <3>3. n + i \in 2 .. L + 1
      BY <1>6, <1>8, <1>15, <3>1
    <3> QED
      BY <1>12, <3>2, <3>3
  <2>4. ASSUME t # <<>>
        PROVE  t[Len(t)].time = time
    <3>1. Len(t) \in 1 .. Len(t)
      BY <1>9, <2>4
    <3>2. n + Len(t) = L + 1
      BY <1>6, <1>8, <1>9
    <3> QED
      BY <1>4, <1>6, <1>15, <3>1, <3>2
  <2> QED
    BY <1>9, <2>1, <2>2, <2>3, <2>4 DEF InWindow
<1>17. Summed(t, (sum + (cur - prev)) - Changes(all)[n])
  BY <1>9 DEF Summed
<1> QED
  BY <1>1, <1>16, <1>17 DEF int

(* A record whose windows are whole, with the rates of its last sample.    *)
Readings(stat) == \A s \in Series : Reading(stat, s) \in Int

Rolls(r) ==
    /\ r.timeTick \in 0 .. Word - 1
    /\ r.cycle.peasants \in Int /\ r.cycle.units \in Int
    /\ \A s \in Series : /\ InWindow(r.history[s], r.timeTick, Window[s])
                         /\ Summed(r.history[s], r.sum[s])
    /\ r.stat # NoStat =>
           /\ Readings(r.stat)
           /\ \A s \in Series :
                  r.stat.rate[s] = Rate(r.history[s], r.sum[s], r.timeTick)

LEMMA FreshRolls == Rolls(FreshPlayer)
<1>1. 0 \in 0 .. Word - 1
  BY Widths
<1>2. \A window : InWindow(<<>>, 0, window)
  BY DEF InWindow
<1>3. Summed(<<>>, 0)
  <2>1. <<>> \in Seq(Point) /\ Len(<<>>) = 0
    OBVIOUS
  <2>2. Totals(<<>>, Len(<<>>), Changes(<<>>))
    BY <2>1, ChangesTotals
  <2> QED
    BY <2>1, <2>2 DEF Totals, Summed
<1>4. /\ FreshPlayer.timeTick = 0 /\ FreshPlayer.stat = NoStat
      /\ FreshPlayer.cycle.peasants = 0 /\ FreshPlayer.cycle.units = 0
      /\ \A s \in Series : FreshPlayer.history[s] = <<>> /\ FreshPlayer.sum[s] = 0
  BY DEF FreshPlayer, NoCycle
<1> QED
  BY <1>1, <1>2, <1>3, <1>4 DEF Rolls

LEMMA SameRolls ==
    ASSUME NEW r, NEW s, Rolls(r), s.timeTick = r.timeTick, s.cycle = r.cycle,
           s.history = r.history, s.sum = r.sum, s.stat = r.stat
    PROVE  Rolls(s)
BY DEF Rolls

(* The series a sample is read for.                                        *)
LEMMA ReadingsAre ==
    ASSUME NEW stat, stat.peasants \in Int, stat.units \in Int, stat.population2 \in Int,
           \A r \in Resource : stat.res[r] \in Int
    PROVE  Readings(stat)
BY DEF Readings, Reading, Series, Resource

LEMMA WordRemainder ==
    ASSUME NEW a \in Int
    PROVE  a % Word \in Int
<1>1. a % Word \in 0 .. Word - 1 /\ Word \in Nat \ {0}
  BY Widths, Quotient
<1> QED
  BY <1>1

(* The readings of a report, and of the sample made of it.                 *)
LEMMA ReportReadings ==
    ASSUME NEW g \in Game, g.time <= MaxTime, NEW res \in Stores,
           NEW r, Rolls(r)
    PROVE  LET w == DecodeStat(g, res)
               old == OldStat(r.stat, w)
               cyc == NextCycle(r.cycle, old, w)
           IN  /\ cyc.peasants \in Int /\ cyc.units \in Int
               /\ Readings(old) /\ Readings(Sample(w, old, cyc))
<1> DEFINE w == DecodeStat(g, res)
           old == OldStat(r.stat, w)
           cyc == NextCycle(r.cycle, old, w)
           new == Sample(w, old, cyc)
<1>1. w.peasants \in Int /\ w.units \in Int
  <2>1. w.peasants \in 0 .. Wire - 1 /\ w.units \in 0 .. Wire - 1 /\ Wire \in Int
    BY ReportFields, Widths
  <2> HIDE DEF w
  <2> QED
    BY <2>1
<1>2. \A x \in Resource : w.res[x] \in Int
  <2> SUFFICES ASSUME NEW x \in Resource
               PROVE  w.res[x] \in Int
    OBVIOUS
  <2>1. res[x] \in Int
    BY GameAssumption
  <2>2. w.res[x] = res[x] % Word
    BY DEF DecodeStat
  <2> QED
    BY <2>1, <2>2, WordRemainder
<1> HIDE DEF w
<1>3. Readings(old)
  <2>1. CASE r.stat # NoStat
    BY <2>1 DEF OldStat, Rolls
  <2>2. CASE r.stat = NoStat
    <3>1. /\ old.peasants = w.peasants /\ old.units = w.units /\ old.res = w.res
          /\ old.population2 = (w.units + w.peasants) % Word
      BY <2>2 DEF OldStat
    <3>2. w.units + w.peasants \in Int
      BY <1>1
    <3>3. (w.units + w.peasants) % Word \in Int
      BY <3>2, WordRemainder
    <3> HIDE DEF old
    <3> QED
      BY <1>1, <1>2, <3>1, <3>3, ReadingsAre
  <2> QED
    BY <2>1, <2>2
<1>4. cyc.peasants \in Int /\ cyc.units \in Int
  <2>1. r.cycle.peasants \in Int /\ r.cycle.units \in Int
    BY DEF Rolls
  <2>2. \A x, y : \A c \in Int : CountCycle(x, y, c) \in Int
    BY DEF CountCycle
  <2>3. /\ cyc.peasants = CountCycle(w.peasants, old.peasants, r.cycle.peasants)
        /\ cyc.units = CountCycle(w.units, old.units, r.cycle.units)
    BY DEF NextCycle
  <2> HIDE DEF cyc
  <2> QED
    BY <2>1, <2>2, <2>3
<1> HIDE DEF cyc, old
<1>5. \A x, c \in Int : Unwrap(x, c) \in Int
  <2> SUFFICES ASSUME NEW x \in Int, NEW c \in Int
               PROVE  Unwrap(x, c) \in Int
    OBVIOUS
  <2>1. c * Wire \in Int
    BY Widths, Distr
  <2>2. x + c * Wire \in Int
    BY <2>1
  <2> QED
    BY <2>2, WordRemainder DEF Unwrap
<1>6. /\ new.peasants = Unwrap(w.peasants, cyc.peasants)
      /\ new.units = Unwrap(w.units, cyc.units)
      /\ new.population2 = (new.units + new.peasants) % Word
      /\ new.res = w.res
  BY DEF Sample
<1> HIDE DEF new
<1>7. new.peasants \in Int /\ new.units \in Int
  BY <1>1, <1>4, <1>5, <1>6
<1>8. new.units + new.peasants \in Int
  BY <1>7
<1>9. new.population2 \in Int
  BY <1>6, <1>8, WordRemainder
<1>10. Readings(new)
  BY <1>2, <1>6, <1>7, <1>9, ReadingsAre
<1> QED
  BY <1>3, <1>4, <1>10 DEF new, cyc, old, w

(* A report that counts rolls every window of the record on.               *)
LEMMA AppliedRolls ==
    ASSUME NEW p \in Player, DOMAIN rec[p] = RecordFields, Rolls(rec[p]),
           NEW g \in Game, g.time <= MaxTime, NEW res \in Stores,
           TickAccepted(rec[p], DecodeStat(g, res))
    PROVE  Rolls(ApplyStat(p, DecodeStat(g, res)))
<1> DEFINE w == DecodeStat(g, res)
           r == rec[p]
           a == ApplyStat(p, w)
           old == OldStat(r.stat, w)
           cyc == NextCycle(r.cycle, old, w)
           new == Sample(w, old, cyc)
           int == Interval(w.time, r.timeTick)
           rolled == [s \in Series |->
                         Roll(r.history[s], r.sum[s], Reading(new, s), Reading(old, s),
                              w.time, int, Window[s])]
           rate == [s \in Series \cup Resource |->
                       IF s \in Series THEN Rate(rolled[s].history, rolled[s].sum, w.time)
                       ELSE <<w.res[s] - old.res[s], int>>]
<1>1. /\ a.timeTick = w.time /\ a.cycle = cyc /\ DOMAIN a.stat = DOMAIN new
      /\ \A x \in DOMAIN new : x # "rate" => a.stat[x] = new[x]
  BY AppliedFields
<1>2. /\ a.history = [s \in Series |-> rolled[s].history]
      /\ a.sum = [s \in Series |-> rolled[s].sum]
      /\ a.stat = [new EXCEPT !.rate = rate]
  <2> HIDE DEF rolled, rate, new, cyc
  <2>1. \E z, c : a = [r EXCEPT !.zombie = z, !.color = c, !.cycle = cyc,
                        !.history = [s \in Series |-> rolled[s].history],
                        !.sum = [s \in Series |-> rolled[s].sum],
                        !.timeTick = w.time, !.stat = [new EXCEPT !.rate = rate]]
    BY DEF ApplyStat, rolled, rate, new, cyc
  <2> HIDE DEF a
  <2> QED
    BY <2>1 DEF RecordFields
<1>3. /\ cyc.peasants \in Int /\ cyc.units \in Int /\ Readings(old) /\ Readings(new)
  BY ReportReadings
<1>4. DOMAIN new = {"time", "scores", "realScores", "population", "peasants", "units",
                    "population2", "casuality", "res", "rate"}
  BY SampleFields
<1>5. r.timeTick \in 0 .. Word - 1 /\ w.time \in r.timeTick .. Word - 1 /\ w.time \in 0 .. Word - 1
  <2>1. w.time = g.time
    BY ReportFields
  <2>2. g.time \in 0 .. Word - 1
    <3>1. g.time \in Nat
      BY DEF Game
    <3>2. MaxTime \in Nat /\ MaxTime < Word /\ Word \in Int
      BY GameAssumption, Widths
    <3> QED
      BY <3>1, <3>2
  <2>3. r.timeTick \in 0 .. Word - 1 /\ r.timeTick <= w.time
    BY DEF Rolls, TickAccepted
  <2> HIDE DEF w, r
  <2> QED
    BY <2>1, <2>2, <2>3
<1> HIDE DEF a, new, cyc, old, w
<1>6. ASSUME NEW s \in Series
      PROVE  /\ InWindow(rolled[s].history, w.time, Window[s])
             /\ Summed(rolled[s].history, rolled[s].sum)
  <2>1. /\ Window[s] \in 1 .. Word - 1
        /\ Reading(new, s) \in Int /\ Reading(old, s) \in Int
        /\ InWindow(r.history[s], r.timeTick, Window[s]) /\ Summed(r.history[s], r.sum[s])
    BY <1>3, StatsAssumption DEF Rolls, Readings
  <2>2. rolled[s] = Roll(r.history[s], r.sum[s], Reading(new, s), Reading(old, s), w.time,
                         Interval(w.time, r.timeTick), Window[s])
    OBVIOUS
  <2> HIDE DEF rolled, r
  <2> QED
    BY <1>5, <2>1, <2>2, RollKeeps
<1>7. \A s \in Series : rate[s] = Rate(rolled[s].history, rolled[s].sum, w.time)
  OBVIOUS
<1> HIDE DEF rolled, rate, int, r
<1>8. Readings(a.stat)
  <2>1. \A x \in {"peasants", "units", "population2", "res"} : a.stat[x] = new[x]
    BY <1>1, <1>4
  <2>2. \A s \in Series : Reading(a.stat, s) = Reading(new, s)
    BY <2>1 DEF Reading, Series, Resource
  <2> QED
    BY <1>3, <2>2 DEF Readings
<1>9. a.stat.rate = rate
  BY <1>2, <1>4
<1>10. \A s \in Series : a.history[s] = rolled[s].history /\ a.sum[s] = rolled[s].sum
  BY <1>2
<1>11. Rolls(a)
  BY <1>1, <1>3, <1>5, <1>6, <1>7, <1>8, <1>9, <1>10 DEF Rolls
<1> QED
  BY <1>11 DEF a, w

WindowsInv == \A p \in Player : Rolls(rec[p])

LEMMA InitWindows == Init => WindowsInv
BY FreshRolls DEF Init, WindowsInv

LEMMA NextWindows ==
    ASSUME NilStat, FollowInv, WindowsInv, [Next]_vars
    PROVE  WindowsInv'
<1>1. ASSUME NEW l \in StartLists, Start(l)
      PROVE  WindowsInv'
  <2>1. CASE rec' = rec
    BY <2>1 DEF WindowsInv
  <2>2. CASE rec' = ApplyStartedUsers(rec, l.list, l.count)
    <3> SUFFICES ASSUME NEW p \in Player
                 PROVE  Rolls(rec'[p])
      BY DEF WindowsInv
    <3>1. PICK x, y : \/ rec'[p] = rec[p]
                      \/ rec'[p] = [rec[p] EXCEPT !.theam = x, !.color = y]
      BY <2>2 DEF ApplyStartedUsers
    <3>2. DOMAIN rec[p] = RecordFields /\ Rolls(rec[p])
      BY DEF FollowInv, RecordsOK, WindowsInv
    <3>3. /\ rec'[p].timeTick = rec[p].timeTick /\ rec'[p].cycle = rec[p].cycle
          /\ rec'[p].history = rec[p].history /\ rec'[p].sum = rec[p].sum
          /\ rec'[p].stat = rec[p].stat
      BY <3>1, <3>2 DEF RecordFields
    <3> QED
      BY <3>2, <3>3, SameRolls
  <2> QED
    BY <1>1, <2>1, <2>2 DEF Start
<1>2. ASSUME NEW p \in Reporters, Report(p)
      PROVE  WindowsInv'
  <2>1. p \in Player
    BY StatsAssumption
  <2>2. PICK dt \in TimeSteps, dp \in CountSteps, du \in CountSteps, ds \in ScoreSteps,
             pop \in Populations, res \in Stores : Stats(p, dt, dp, du, ds, pop, res)
    BY <1>2 DEF Report
  <2> DEFINE g == Played(game[p], dt, dp, du, ds, pop)
             w == DecodeStat(g, res)
  <2>3. game[p] \in Game /\ DOMAIN rec = Player /\ DOMAIN rec[p] = RecordFields
    BY <2>1 DEF FollowInv, RecordsOK
  <2>4. g \in Game
    BY <2>3, PlayedFields
  <2>5. /\ g.time <= MaxTime
        /\ rec' = IF TickAccepted(rec[p], w) THEN [rec EXCEPT ![p] = ApplyStat(p, w)] ELSE rec
    BY <2>2 DEF Stats
  <2> HIDE DEF g
  <2>6. TickAccepted(rec[p], w) => Rolls(ApplyStat(p, w))
    BY <2>1, <2>3, <2>4, <2>5, AppliedRolls DEF WindowsInv
  <2> HIDE DEF w
  <2> QED
    BY <2>3, <2>5, <2>6 DEF WindowsInv
<1>3. ASSUME NEW anew \in SUBSET Player, NextMatch(anew)
      PROVE  WindowsInv'
  BY <1>3, FreshRolls DEF NextMatch, WindowsInv
<1>4. CASE \/ \E p \in Reporters : StatsRefused(p)
           \/ \E p \in Reporters, found \in BOOLEAN : Endgame(p, found)
           \/ UNCHANGED vars
  <2>1. rec' = rec
    BY <1>4 DEF StatsRefused, Endgame, vars
  <2> QED
    BY <2>1 DEF WindowsInv
<1> QED
  BY <1>1, <1>2, <1>3, <1>4 DEF Next

LEMMA WindowsShow == WindowsInv => RollingExact
<1> SUFFICES ASSUME WindowsInv, NEW p \in Player, NEW s \in Series
             PROVE  LET h == rec[p].history[s]
                        tick == rec[p].timeTick
                        den == rec[p].stat.rate[s][2]
                    IN  /\ rec[p].sum[s] = Changes(h)[Len(h)]
                        /\ h # <<>> => tick >= Window[s] /\ Last(h).time = tick
                        /\ \A i \in DOMAIN h :
                            /\ h[i].time >= tick - Window[s]
                            /\ i > 1 => h[i].interval = Interval(h[i].time, h[i - 1].time)
                        /\ rec[p].stat # NoStat => (h # <<>> =>
                            /\ den <= Window[s] + Head(h).interval
                            /\ den >= tick - Head(h).time + Head(h).interval)
  BY DEF RollingExact, RollingSumsExact, RatesCoverWindow
<1> DEFINE h == rec[p].history[s]
           tick == rec[p].timeTick
           window == Window[s]
           rate == rec[p].stat.rate[s]
<1>1. /\ tick \in 0 .. Word - 1
      /\ InWindow(h, tick, window) /\ Summed(h, rec[p].sum[s])
      /\ rec[p].stat # NoStat => rate = Rate(h, rec[p].sum[s], tick)
  BY DEF WindowsInv, Rolls
<1>2. window \in 1 .. Word - 1 /\ Word \in Nat \ {0}
  BY StatsAssumption, Widths
<1> HIDE DEF h, tick, window, rate
<1>3. rec[p].sum[s] = Changes(h)[Len(h)]
  BY <1>1 DEF Summed
<1>4. h \in Seq(Point) /\ Len(h) \in Nat /\ DOMAIN h = 1 .. Len(h)
  BY <1>1 DEF InWindow
<1>5. ASSUME h # <<>>
      PROVE  tick >= window /\ Last(h).time = tick
  <2>1. Len(h) \in 1 .. Len(h)
    BY <1>4, <1>5
  <2> QED
    BY <1>1, <1>5, <2>1 DEF InWindow, Last
<1>6. ASSUME NEW i \in DOMAIN h
      PROVE  /\ h[i].time >= tick - window
             /\ i > 1 => h[i].interval = Interval(h[i].time, h[i - 1].time)
  <2>1. i \in 1 .. Len(h) /\ (i > 1 => i \in 2 .. Len(h))
    BY <1>4
  <2> QED
    BY <1>1, <2>1 DEF InWindow
<1>7. ASSUME h # <<>>, rec[p].stat # NoStat
      PROVE  rate[2] = tick - Head(h).time + Head(h).interval
             /\ rate[2] <= window + Head(h).interval
  <2> DEFINE time == Head(h).time
             int == Head(h).interval
             x == tick - (time - int)
  <2>1. 1 \in 1 .. Len(h) /\ Head(h) = h[1] /\ h[1] \in Point
    BY <1>4, <1>7
  <2>2. /\ time \in Nat /\ int \in Nat \ {0} /\ int <= time /\ time <= tick
        /\ time >= tick - window
    BY <1>1, <2>1 DEF InWindow, Point
  <2>3. rate = <<rec[p].sum[s], Max({1, x % Word})>>
    BY <1>1, <1>7 DEF Rate
  <2> HIDE DEF time, int
  <2>4. /\ x \in 0 .. Word - 1 /\ x >= 1 /\ x = tick - time + int
        /\ x <= window + int
    BY <1>1, <1>2, <2>2
  <2> HIDE DEF x
  <2>5. x % Word = x
    BY <1>2, <2>4, ModRange
  <2>6. Max({1, x}) = x
    <3>1. {1, x} \in SUBSET Int /\ x \in {1, x} /\ \A y \in {1, x} : x >= y
      BY <2>4
    <3> QED
      BY <3>1, MaxIs
  <2>7. rate[2] = x
    BY <2>3, <2>5, <2>6
  <2> QED
    BY <2>4, <2>7 DEF time, int
<1>8. ASSUME h # <<>>, rec[p].stat # NoStat
      PROVE  /\ rate[2] <= window + Head(h).interval
             /\ rate[2] >= tick - Head(h).time + Head(h).interval
  <2>1. rate[2] = tick - Head(h).time + Head(h).interval /\ rate[2] <= window + Head(h).interval
    BY <1>7, <1>8
  <2>2. rate[2] \in Int
    <3>1. Head(h) = h[1] /\ h[1] \in Point
      BY <1>4, <1>8
    <3>2. Head(h).time \in Int /\ Head(h).interval \in Int
      BY <3>1 DEF Point
    <3> QED
      BY <1>1, <2>1, <3>2
  <2> QED
    BY <2>1, <2>2
<1> QED
  BY <1>3, <1>5, <1>6, <1>8 DEF h, tick, window, rate

(* Every rolling series holds the consecutive samples of its window and    *)
(* none from before the window has passed once, its sum is exactly their   *)
(* changes, and its rate divides by the ticks they cover, for every window *)
(* and through the uint32 cutoff of updateRolling.                         *)
THEOREM RollingExactAlways == ASSUME NilStat PROVE Spec => []RollingExact
<1>1. Init => FollowInv /\ WindowsInv
  BY InitFollow, InitWindows
<1>2. FollowInv /\ WindowsInv /\ [Next]_vars => FollowInv' /\ WindowsInv'
  BY NextFollow, NextWindows
<1> QED
  BY <1>1, <1>2, WindowsShow, PTL DEF Spec
=============================================================================
