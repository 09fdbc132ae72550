------------------------------ MODULE IrcProxy ------------------------------
(***************************************************************************)
(* The TCP proxy in front of the chat server: an accept loop, and for each *)
(* client a pipe of four goroutines (pipe itself, two copying loops and    *)
(* one that closes both sockets when the pipe's context ends).  Peers      *)
(* close their ends whenever they like, the upstream may refuse to be      *)
(* dialled, and the process may cancel the root context at any time.       *)
(***************************************************************************)
EXTENDS Integers, FiniteSets

CONSTANTS
    Clients         \* bound: client connections

VARIABLES
    ctxDone,    \* the root context is cancelled
    listener,   \* open or closed
    serve,      \* ListenAndServe: accepting, or what it returned
    lnCloser,   \* the goroutine that closes the listener: wait or done
    pipe,       \* pipe of each client: none, dial, copying, done
    sock,       \* the proxy's two sockets: none, open, closed
    peer,       \* the other ends: open or closed
    copier,     \* the copying loop that reads from a side: none, copy, send, done
    closer,     \* none, wait, second, done
    cancelled,  \* the pipe's own context
    done        \* tokens in the channel done

vars == <<ctxDone, listener, serve, lnCloser, pipe, sock, peer, copier, closer,
          cancelled, done>>

Sides == {"client", "remote"}
Other(s) == IF s = "client" THEN "remote" ELSE "client"

Init ==
    /\ ctxDone = FALSE
    /\ listener = "open" /\ serve = "accepting" /\ lnCloser = "wait"
    /\ pipe = [c \in Clients |-> "none"]
    /\ sock = [c \in Clients |-> [s \in Sides |-> "none"]]
    /\ peer = [c \in Clients |-> [s \in Sides |-> "open"]]
    /\ copier = [c \in Clients |-> [s \in Sides |-> "none"]]
    /\ closer = [c \in Clients |-> "none"]
    /\ cancelled = [c \in Clients |-> FALSE]
    /\ done = [c \in Clients |-> 0]

----------------------------------------------------------------------------
(* The environment.                                                        *)
Cancel ==
    /\ ~ ctxDone
    /\ ctxDone' = TRUE
    /\ UNCHANGED <<listener, serve, lnCloser, pipe, sock, peer, copier, closer,
                   cancelled, done>>

PeerCloses(c, s) ==
    /\ sock[c][s] = "open" /\ peer[c][s] = "open"
    /\ peer' = [peer EXCEPT ![c][s] = "closed"]
    /\ UNCHANGED <<ctxDone, listener, serve, lnCloser, pipe, sock, copier,
                   closer, cancelled, done>>

----------------------------------------------------------------------------
(* ListenAndServe: a client is accepted and gets its pipe.                 *)
Accept(c) ==
    /\ serve = "accepting" /\ listener = "open" /\ pipe[c] = "none"
    /\ pipe' = [pipe EXCEPT ![c] = "dial"]
    /\ sock' = [sock EXCEPT ![c]["client"] = "open"]
    /\ UNCHANGED <<ctxDone, listener, serve, lnCloser, peer, copier, closer,
                   cancelled, done>>

CloseListener ==
    /\ lnCloser = "wait" /\ ctxDone
    /\ lnCloser' = "done"
    /\ listener' = "closed"
    /\ UNCHANGED <<ctxDone, serve, pipe, sock, peer, copier, closer, cancelled,
                   done>>

(* Accept fails, because the listener was closed or for a reason of its    *)
(* own; once the context is cancelled that counts as a clean end.          *)
AcceptFails ==
    /\ serve = "accepting"
    /\ serve' = IF ctxDone THEN "nil" ELSE "error"
    /\ UNCHANGED <<ctxDone, listener, lnCloser, pipe, sock, peer, copier, closer,
                   cancelled, done>>

(* The sockets pipe closes when it returns: defer runs in reverse order.   *)
Closed(c) == [s \in Sides |-> IF sock[c][s] = "none" THEN "none" ELSE "closed"]

(* MUTANT: nothing is closed when the upstream cannot be dialled.          *)
DialFailsOpen(c) ==
    /\ pipe[c] = "dial"
    /\ pipe' = [pipe EXCEPT ![c] = "done"]
    /\ UNCHANGED <<ctxDone, listener, serve, lnCloser, sock, peer, copier, closer,
                   cancelled, done>>

(* pipe: the upstream cannot be dialled.                                   *)
DialFails(c) ==
    /\ pipe[c] = "dial"
    /\ pipe' = [pipe EXCEPT ![c] = "done"]
    /\ sock' = [sock EXCEPT ![c] = Closed(c)]
    /\ UNCHANGED <<ctxDone, listener, serve, lnCloser, peer, copier, closer,
                   cancelled, done>>

(* pipe: the three other goroutines start.                                 *)
Dialled(c) ==
    /\ pipe[c] = "dial"
    /\ pipe' = [pipe EXCEPT ![c] = "copying"]
    /\ sock' = [sock EXCEPT ![c]["remote"] = "open"]
    /\ copier' = [copier EXCEPT ![c] = [s \in Sides |-> "copy"]]
    /\ closer' = [closer EXCEPT ![c] = "wait"]
    /\ UNCHANGED <<ctxDone, listener, serve, lnCloser, peer, cancelled, done>>

(* The pipe's context is derived from the root context.                    *)
Done(c) == cancelled[c] \/ ctxDone

(* The closing goroutine, socket by socket.                                *)
CloseFirst(c) ==
    /\ closer[c] = "wait" /\ Done(c)
    /\ closer' = [closer EXCEPT ![c] = "second"]
    /\ sock' = [sock EXCEPT ![c]["client"] = "closed"]
    /\ UNCHANGED <<ctxDone, listener, serve, lnCloser, pipe, peer, copier,
                   cancelled, done>>

CloseSecond(c) ==
    /\ closer[c] = "second"
    /\ closer' = [closer EXCEPT ![c] = "done"]
    /\ sock' = [sock EXCEPT ![c]["remote"] = "closed"]
    /\ UNCHANGED <<ctxDone, listener, serve, lnCloser, pipe, peer, copier,
                   cancelled, done>>

(* io.Copy from side s blocks in Read: it ends when the peer there closed  *)
(* or our own socket was closed.  It may also end because what it read     *)
(* cannot be written to the other side.                                    *)
ReadEnds(c, s) == sock[c][s] = "closed" \/ peer[c][s] = "closed"

CopyEnds(c, s) ==
    /\ copier[c][s] = "copy"
    /\ \E t \in Sides : ReadEnds(c, t)
    /\ copier' = [copier EXCEPT ![c][s] = "send"]
    /\ UNCHANGED <<ctxDone, listener, serve, lnCloser, pipe, sock, peer, closer,
                   cancelled, done>>

(* MUTANT: an unbuffered channel.                                          *)
DoneCapNone == 0

(* make(chan struct{}, 2)                                                  *)
DoneCap == 2

(* A copying loop reports; without room in the channel pipe must be        *)
(* receiving.                                                              *)
Send(c, s) ==
    /\ copier[c][s] = "send"
    /\ done[c] < DoneCap \/ (pipe[c] = "copying" /\ done[c] = 0)
    /\ copier' = [copier EXCEPT ![c][s] = "done"]
    /\ done' = [done EXCEPT ![c] = @ + 1]
    /\ UNCHANGED <<ctxDone, listener, serve, lnCloser, pipe, sock, peer, closer,
                   cancelled>>

(* The deferred cancel.                                                    *)
ReturnCancels(c) == [cancelled EXCEPT ![c] = TRUE]

(* pipe: the first report ends it.                                         *)
Return(c) ==
    /\ pipe[c] = "copying" /\ done[c] > 0
    /\ pipe' = [pipe EXCEPT ![c] = "done"]
    /\ done' = [done EXCEPT ![c] = @ - 1]
    /\ cancelled' = ReturnCancels(c)
    /\ sock' = [sock EXCEPT ![c] = Closed(c)]
    /\ UNCHANGED <<ctxDone, listener, serve, lnCloser, peer, copier, closer>>

Next ==
    \/ Cancel \/ CloseListener \/ AcceptFails
    \/ \E c \in Clients :
        \/ Accept(c) \/ DialFails(c) \/ Dialled(c) \/ Return(c)
        \/ CloseFirst(c) \/ CloseSecond(c)
        \/ \E s \in Sides : PeerCloses(c, s) \/ CopyEnds(c, s) \/ Send(c, s)

(* Goroutines that can run do run: closing, dialling (which succeeds or    *)
(* fails in the end), a read that has ended, sending and receiving.  A     *)
(* write that fails is not promised, nor that anybody closes a connection. *)
Fairness ==
    /\ WF_vars(CloseListener)
    /\ WF_vars(listener = "closed" /\ AcceptFails)
    /\ \A c \in Clients :
        /\ WF_vars(DialFails(c) \/ Dialled(c))
        /\ WF_vars(Return(c))
        /\ WF_vars(CloseFirst(c) \/ CloseSecond(c))
        /\ \A s \in Sides :
            WF_vars((ReadEnds(c, s) /\ CopyEnds(c, s)) \/ Send(c, s))

Spec == Init /\ [][Next]_vars /\ Fairness

----------------------------------------------------------------------------
(* Properties                                                              *)

(* Every goroutine of the pipe has ended, and with them both sockets,      *)
(* whichever of them closes it, also when the upstream could not be        *)
(* dialled.                                                                *)
Ended(c) ==
    /\ pipe[c] \in {"none", "done"}
    /\ closer[c] \in {"none", "done"}
    /\ \A s \in Sides : copier[c][s] \in {"none", "done"}
    /\ \A s \in Sides : sock[c][s] # "open"

(* A pipe is torn down completely once one side closes: no copying loop    *)
(* stays blocked on its socket or on the channel, and the closing          *)
(* goroutine does not wait for a context nobody cancels.                   *)
PipeEnds ==
    \A c \in Clients :
        (pipe[c] = "copying" /\ \E s \in Sides : peer[c][s] = "closed") ~> Ended(c)

(* Cancelling the root context ends the accept loop and every pipe, the    *)
(* ones still dialling too.                                                *)
ProxyStops ==
    ctxDone ~> (serve # "accepting" /\ \A c \in Clients : Ended(c))
=============================================================================
