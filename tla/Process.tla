------------------------------- MODULE Process -------------------------------
(***************************************************************************)
(* The process cossacksd: it reads its configuration, starts the listeners *)
(* that configuration asks for in one errgroup and ends when all of them   *)
(* have returned.  Any of them may fail to bind its address or fail later; *)
(* the first error cancels the group's context, which the HTTP servers and *)
(* the chat proxy heed and the game and hole punching servers do not.      *)
(***************************************************************************)
EXTENDS Integers, FiniteSets

CONSTANTS
    Configs,        \* bound: settings of the three layers
    Foreign,        \* bound: addresses other programs may hold
    MaxInflight     \* bound: probe requests under way at a server

VARIABLES
    phase,      \* load, run, or the exit code of the process
    cfg,        \* the settings of the file, the environment and the flags
    taken,      \* addresses other programs hold
    svc,        \* listeners: off, starting, serving, nil or error (returned)
    stop,       \* listeners whose closing goroutine has acted
    groupDone,  \* the errgroup's context
    inflight,   \* requests the HTTP servers are working on
    cut         \* history: servers shut down that lost requests in the exit

processVars == <<phase, cfg, taken, svc, stop, groupDone, inflight, cut>>

Services == {"stun", "tcp", "metrics", "probes", "irc"}
Http == {"metrics", "probes"}

(* strOr, parseBoolish                                                     *)
StrOr(v, d) == IF v = "" THEN d ELSE v
ParseBoolish(v) == v \notin {"", "0", "false", "no", "off"}

(* configFromRaw: the settings of the file, with defaults.                 *)
ConfigFromRaw(raw) ==
    [raw EXCEPT !.ircOn = ParseBoolish(raw.ircOn),
                !.ircListen = StrOr(raw.ircListen, ":6667")]

(* Config.ApplyEnv: what the environment sets replaces the file's setting. *)
ApplyEnv(c, e) ==
    [metrics |-> StrOr(e.metrics, c.metrics), probe |-> StrOr(e.probe, c.probe),
     ircOn |-> IF e.ircOn # "" THEN ParseBoolish(e.ircOn) ELSE c.ircOn,
     ircListen |-> StrOr(e.ircListen, c.ircListen),
     ircAddr |-> StrOr(e.ircAddr, c.ircAddr)]

(* config.Load with WithEnvOverrides                                       *)
Loaded == ApplyEnv(ConfigFromRaw(cfg.file), cfg.env)

(* metrics.ResolveAddr, health.ResolveProbeAddr: the flag wins.            *)
MetricsAddr == StrOr(cfg.flag.metrics, Loaded.metrics)
ProbeAddr == StrOr(cfg.flag.probe, Loaded.probe)

(* MUTANT: the comparison with the metrics address is missing.             *)
OwnProbesAlways == ProbeAddr # ""

(* main: a probes server of its own, unless the metrics server has the     *)
(* same address.                                                           *)
OwnProbes == ProbeAddr # "" /\ (MetricsAddr = "" \/ ProbeAddr # MetricsAddr)

(* main: the chat proxy needs an upstream, and the flag switches it on.    *)
IrcWanted ==
    cfg.flag.ircAddr # "" \/ (Loaded.ircOn /\ Loaded.ircAddr # "")

(* The listeners g.Go is called for.                                       *)
Wanted ==
    {"stun", "tcp"}
        \cup (IF MetricsAddr # "" THEN {"metrics"} ELSE {})
        \cup (IF OwnProbes THEN {"probes"} ELSE {})
        \cup (IF IrcWanted THEN {"irc"} ELSE {})

Address(s) ==
    CASE s = "metrics" -> MetricsAddr
      [] s = "probes" -> ProbeAddr
      [] s = "irc" -> Loaded.ircListen
      [] OTHER -> s

ProcessInit ==
    /\ phase = "load"
    /\ cfg \in Configs
    /\ taken \in SUBSET Foreign
    /\ svc = [s \in Services |-> "off"]
    /\ stop = {}
    /\ groupDone = FALSE
    /\ inflight = [s \in Http |-> 0]
    /\ cut = {}

----------------------------------------------------------------------------
(* config.Load, the logger or the metrics storage fails.                   *)
LoadFails ==
    /\ phase = "load"
    /\ phase' = "exit 1"
    /\ UNCHANGED <<cfg, taken, svc, stop, groupDone, inflight, cut>>

(* The group is started.                                                   *)
Start ==
    /\ phase = "load"
    /\ phase' = "run"
    /\ svc' = [s \in Services |-> IF s \in Wanted THEN "starting" ELSE "off"]
    /\ UNCHANGED <<cfg, taken, stop, groupDone, inflight, cut>>

(* errgroup: a listener returns; the first error cancels the context.      *)
Returns(s, result) ==
    /\ svc' = [svc EXCEPT ![s] = result]
    /\ groupDone' = (groupDone \/ result = "error")

Free(s) ==
    /\ Address(s) \notin taken
    /\ \A t \in Services : svc[t] = "serving" => Address(t) # Address(s)

(* A listener binds its address.  An HTTP server that was shut down before *)
(* it listened returns at once.                                            *)
Listen(s) ==
    /\ phase = "run" /\ svc[s] = "starting"
    /\ IF s \in Http /\ s \in stop THEN Returns(s, "nil")
       ELSE IF Free(s) THEN svc' = [svc EXCEPT ![s] = "serving"] /\ UNCHANGED groupDone
       ELSE Returns(s, "error")
    /\ UNCHANGED <<phase, cfg, taken, stop, inflight, cut>>

(* MUTANT: the metrics server does not watch the context.                  *)
HeedsDeaf == {"probes", "irc"}

(* The listeners that have a goroutine waiting for the context.            *)
Heeds == {"metrics", "probes", "irc"}

(* That goroutine closes the listener; for HTTP, Shutdown.                 *)
Stop(s) ==
    /\ phase = "run" /\ groupDone
    /\ s \in Heeds \ stop
    /\ svc[s] \in IF s \in Http THEN {"starting", "serving"} ELSE {"serving"}
    /\ stop' = stop \cup {s}
    /\ UNCHANGED <<phase, cfg, taken, svc, groupDone, inflight, cut>>

(* Accept on the closed listener: ErrServerClosed and a cancelled context  *)
(* both count as no error.  The requests under way are still worked on.    *)
Closed(s) ==
    /\ phase = "run" /\ svc[s] = "serving" /\ s \in stop
    /\ Returns(s, "nil")
    /\ UNCHANGED <<phase, cfg, taken, stop, inflight, cut>>

(* Accept or ReadFromUDP fails; the chat proxy asks for the context.       *)
Fails(s) ==
    /\ phase = "run" /\ svc[s] = "serving" /\ s \notin stop
    /\ Returns(s, IF s = "irc" /\ groupDone THEN "nil" ELSE "error")
    /\ UNCHANGED <<phase, cfg, taken, stop, inflight, cut>>

(* MountProbes: both HTTP servers answer /livez and /readyz.               *)
ProbesAt(s) == s \in Http /\ svc[s] = "serving"

(* A probe or a scrape begins and is answered.                             *)
Request(s) ==
    /\ phase = "run" /\ svc[s] = "serving" /\ s \notin stop
    /\ inflight[s] < MaxInflight
    /\ inflight' = [inflight EXCEPT ![s] = @ + 1]
    /\ UNCHANGED <<phase, cfg, taken, svc, stop, groupDone, cut>>

Respond(s) ==
    /\ phase = "run" /\ inflight[s] > 0
    /\ inflight' = [inflight EXCEPT ![s] = @ - 1]
    /\ UNCHANGED <<phase, cfg, taken, svc, stop, groupDone, cut>>

(* g.Wait returns.                                                         *)
AllReturned == \A s \in Services : svc[s] \in {"off", "nil", "error"}

(* main ends, with 1 if some listener returned an error.                   *)
Exit ==
    /\ phase = "run" /\ AllReturned
    /\ phase' = IF \E s \in Services : svc[s] = "error" THEN "exit 1" ELSE "exit 0"
    /\ cut' = {s \in Http : svc[s] = "nil" /\ inflight[s] > 0}
    /\ inflight' = [s \in Http |-> 0]
    /\ UNCHANGED <<cfg, taken, svc, stop, groupDone>>

ProcessNext ==
    \/ LoadFails \/ Start \/ Exit
    \/ \E s \in Services : Listen(s) \/ Stop(s) \/ Closed(s) \/ Fails(s)
    \/ \E s \in Http : Request(s) \/ Respond(s)

(* The goroutines run; requests and failures are nobody's duty.            *)
ProcessFairness ==
    /\ WF_processVars(Exit)
    /\ \A s \in Services : WF_processVars(Listen(s)) /\ WF_processVars(Stop(s)) /\ WF_processVars(Closed(s))

ProcessSpec == ProcessInit /\ [][ProcessNext]_processVars /\ ProcessFairness

----------------------------------------------------------------------------
(* Properties                                                              *)

Exited == phase \in {"exit 0", "exit 1"}

(* The process never ends under a listener that still serves, and when it  *)
(* ends after it ran it reports an error: nothing asks it to stop.         *)
ExitsLast ==
    /\ Exited => \A s \in Services : svc[s] # "serving"
    /\ phase # "exit 0"

(* Whatever the layers say of metrics and probes, the two HTTP servers     *)
(* never fight for an address: one the other serves is not asked for.      *)
(* (Nothing keeps an operator from giving it to the chat proxy as well.)   *)
NoSelfConflict ==
    \A s, t \in Http :
        svc[s] = "starting" /\ svc[t] = "serving" => Address(s) # Address(t)

(* Once a listener has failed, the ones that watch the context all end,    *)
(* also one that had not bound its address when the context was cancelled. *)
CancelStopsListeners ==
    groupDone ~> \A s \in {"metrics", "probes", "irc"} : svc[s] \in {"off", "nil", "error"}

(* A server listens where the strongest of flag, environment and file says *)
(* it should, and the metrics server only if one of them says so.          *)
StrongestLayer ==
    svc["metrics"] = "serving" =>
        /\ Address("metrics") # ""
        /\ cfg.env.metrics # "" /\ cfg.flag.metrics = ""
            => Address("metrics") = cfg.env.metrics
        /\ cfg.flag.metrics # "" => Address("metrics") = cfg.flag.metrics

(* Listeners are where the configuration puts them and the process stays   *)
(* as long as they do.                                                     *)
ListenersSound == NoSelfConflict /\ StrongestLayer /\ ExitsLast

----------------------------------------------------------------------------
(* What the repository says and the code does not do.                      *)

(* PROBE_ADDR moves the probes: with one of its own the metrics address    *)
(* does not answer /livez and /readyz.                                     *)
ProbesMoved ==
    ProbeAddr # "" /\ ProbeAddr # MetricsAddr => ~ ProbesAt("metrics")

(* As long as the game is served, so are the metrics METRICS_ADDR asks for.*)
MetricsPublished ==
    svc["tcp"] = "serving" /\ MetricsAddr # "" => svc["metrics"] # "nil"

(* Shutdown of the HTTP servers lets requests finish.                      *)
GracefulShutdown == cut = {}
=============================================================================
