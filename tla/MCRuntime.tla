------------------------------ MODULE MCRuntime ------------------------------
(* The process and its listeners (Process, with the constants of the       *)
(* configuration) and one of these listeners in full, the chat proxy       *)
(* (IrcProxy).  Process sees of a listener only whether it serves; one of  *)
(* the two moves, the other stays in its first state.                      *)
EXTENDS Process

VARIABLES
    part,                                               \* the part that moves
    ctxDone, listener, serve, lnCloser, pipe, sock,     \* IrcProxy
    peer, copier, closer, ended, done

proxyVars == <<ctxDone, listener, serve, lnCloser, pipe, sock, peer, copier,
               closer, ended, done>>

(* Two clients; the peers of the second never close by themselves.         *)
Proxy == INSTANCE IrcProxy WITH Clients <- {1, 2}, cancelled <- ended

SecondStays == peer'[2] = peer[2]

(* An upstream "hub" comes with the address the metrics may have as well.  *)
Layer(m, p, on, addr) ==
    [metrics |-> m, probe |-> p, ircOn |-> on, ircAddr |-> addr,
     ircListen |-> IF addr = "hub" THEN "b" ELSE ""]

Nothing == Layer("", "", "", "")

(* Metrics and probes off, on, on one address, moved by a stronger layer;  *)
(* the proxy on, off and switched on by its flag.                          *)
Layers ==
    {[file |-> f, env |-> e, flag |-> g] :
        f \in {Nothing, Layer("a", "", "1", "ergo"), Layer("a", "b", "1", "")},
        e \in {Nothing, Layer("b", "", "0", ""), Layer("", "a", "", ""),
               Layer("", "", "1", "hub")},
        g \in {Nothing, Layer("b", "", "", ""), Layer("", "a", "", "ergo")}}

----------------------------------------------------------------------------
MCInit ==
    /\ part \in {"proxy", "process"}
    /\ Proxy!Init /\ ProcessInit
    /\ part = "proxy" => cfg = [file |-> Nothing, env |-> Nothing, flag |-> Nothing]
                        /\ taken = {}

MCNext ==
    \/ part = "proxy" /\ Proxy!Next /\ SecondStays /\ UNCHANGED <<part, processVars>>
    \/ part = "process" /\ ProcessNext /\ UNCHANGED <<part, proxyVars>>

MCSpec ==
    /\ MCInit /\ [][MCNext]_<<part, processVars, proxyVars>>
    /\ Proxy!Fairness /\ ProcessFairness

----------------------------------------------------------------------------
(* IrcProxy: a pipe is torn down, sockets and all, once one side closes.   *)
PipeEnds == Proxy!PipeEnds

(* IrcProxy: cancelling the root context ends accept loop and pipes.       *)
ProxyStops == Proxy!ProxyStops
=============================================================================
