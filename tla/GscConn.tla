------------------------------ MODULE GscConn ------------------------------
(***************************************************************************)
(* One connection of the TCP server: the read loop of tcp.Server, the      *)
(* dispatch of a request to its command or route, the proxy command that   *)
(* cancels the connection, and the deferred clean-up.  Requests are what   *)
(* the reader of GscStream.tla delivers; what the room commands do to the  *)
(* lobby is in Lobby.tla.                                                  *)
(***************************************************************************)
EXTENDS Integers, Sequences

CONSTANTS
    Requests,       \* bound: the requests a client sends
    MaxRequests     \* bound: requests per connection

(* The registry of commands and the table of routes.                       *)
Commands == {"login", "echo", "url", "proxy", "leave", "alive", "endgame",
             "GETTBL", "start", "open", "go"}

OpenRoutes == {"enter", "try_enter", "startup", "games", "rooms_table_dgl",
               "resize", "new_room_dgl", "reg_new_room", "join_game",
               "room_info_dgl", "join_pl_cmd", "user_details", "users_list",
               "tournaments", "lcn_registration_dgl", "gg_cup_thanks_dgl"}

UnimplementedOpenRoutes ==
    {"direct", "direct_ping", "direct_join", "started_room_message"}

UnimplementedCommands == {"upfile", "unsync"}

VARIABLES
    pc,         \* read, handle, write, cleanup, gauge, close, done
    inbox,      \* client side: requests written and not read
    sent,       \* client side: all requests, in order
    num,        \* requests read so far
    result,     \* HandleResult of the current request
    cancelled,  \* the context of the connection is cancelled
    endpoint,   \* whose address the connection has: own or proxied
    replies,    \* responses on the wire, [num, win, commands]
    gauge,      \* the connected-clients metric, of this connection
    peer        \* client side: open, or closed

vars == <<pc, inbox, sent, num, result, cancelled, endpoint, replies, gauge,
          peer>>

NoResult == [hasResponse |-> FALSE, commands |-> 0]

Init ==
    /\ pc = "read"
    /\ inbox = <<>>
    /\ sent = <<>>
    /\ num = 0
    /\ result = NoResult
    /\ cancelled = FALSE
    /\ endpoint = "own"
    /\ replies = <<>>
    /\ gauge = 1
    /\ peer = "open"

----------------------------------------------------------------------------
Silent == NoResult
Answer(n) == [hasResponse |-> TRUE, commands |-> n]

(* Registry.Lookup: the name is in the table of commands.                  *)
Lookup(name) == name \in Commands

(* The last two arguments of a command are the window and the key; with    *)
(* fewer than two the command is dispatched with what it has.              *)
CoreArgs(r) == IF r.argc >= 2 THEN r.argc - 2 ELSE r.argc
Win(r) == IF r.argc >= 2 THEN r.win ELSE ""

(* Controller.dispatchOpen: a stub answers without a command, and so do    *)
(* the two routes that look for a player and find none; a route answers    *)
(* with one page, anything else with the "Page Not Found" alert.           *)
DispatchOpen(r) ==
    IF \/ r.route \in UnimplementedOpenRoutes
       \/ r.route \in {"join_pl_cmd", "user_details"} /\ ~ r.ok
    THEN Answer(0) ELSE Answer(1)

(* Open.Handle and Go.Handle                                               *)
HandleRoute(r) == IF CoreArgs(r) < 1 THEN Answer(0) ELSE DispatchOpen(r)

(* Proxy.Handle accepts: three arguments, the configured key, an IPv4      *)
(* address and a port.                                                     *)
ProxyAccepted(r) == CoreArgs(r) >= 3 /\ r.ok

(* What the commands of the registry return.                               *)
CommandResult(r) ==
    CASE r.name \in {"open", "go"} -> HandleRoute(r)
      [] r.name \in {"login", "echo"} -> Answer(1)
      [] r.name = "url" -> IF CoreArgs(r) = 0 THEN Silent ELSE Answer(1)
      [] r.name = "GETTBL" -> IF CoreArgs(r) < 3 THEN Answer(0) ELSE Answer(2)
      [] OTHER -> Silent

(* MUTANT: an unknown command is not answered.                             *)
HandleWithMetaQuiet(r) == IF Lookup(r.name) THEN CommandResult(r) ELSE Silent

(* Controller.HandleWithMeta: stats first, then the registry, then the     *)
(* documented no-ops; an unknown command gets an empty response.           *)
HandleWithMeta(r) ==
    IF r.name = "stats" THEN Silent
    ELSE IF Lookup(r.name) THEN CommandResult(r)
    ELSE IF r.name \in UnimplementedCommands THEN Silent
    ELSE Answer(0)

----------------------------------------------------------------------------
(* The client                                                              *)
Send(r) ==
    /\ peer = "open"
    /\ Len(sent) < MaxRequests
    /\ inbox' = Append(inbox, r)
    /\ sent' = Append(sent, r)
    /\ UNCHANGED <<pc, num, result, cancelled, endpoint, replies, gauge, peer>>

ClientClose ==
    /\ peer = "open"
    /\ peer' = "closed"
    /\ UNCHANGED <<pc, inbox, sent, num, result, cancelled, endpoint, replies,
                   gauge>>

----------------------------------------------------------------------------
(* The loop of handleConn                                                  *)
Current == sent[num]

(* ReadFrom returned a stream: one without commands is skipped.            *)
ReadRequest ==
    /\ pc = "read"
    /\ inbox # <<>> /\ Head(inbox).name # "garbage"
    /\ inbox' = Tail(inbox)
    /\ num' = num + 1
    /\ pc' = IF Head(inbox).name = "none" THEN "read" ELSE "handle"
    /\ UNCHANGED <<sent, result, cancelled, endpoint, replies, gauge, peer>>

(* ReadFrom returned an error: the client is gone, or its bytes are no     *)
(* stream.                                                                 *)
ReadError ==
    /\ pc = "read"
    /\ IF inbox = <<>> THEN peer = "closed" ELSE Head(inbox).name = "garbage"
    /\ pc' = "cleanup"
    /\ UNCHANGED <<inbox, sent, num, result, cancelled, endpoint, replies,
                   gauge, peer>>

(* MUTANT: a request without response is handled again.                    *)
AfterHandleAgain(res) == IF res.hasResponse THEN "write" ELSE "handle"

(* A request without response goes back to reading at once.                *)
AfterHandle(res) == IF res.hasResponse THEN "write" ELSE "read"

(* The handler runs: only the first command of the set.  A refused proxy   *)
(* request cancels the connection's context.                               *)
Handle ==
    /\ pc = "handle"
    /\ LET refused == Current.name = "proxy" /\ ~ ProxyAccepted(Current)
       IN  /\ cancelled' = (cancelled \/ refused)
           /\ endpoint' = IF Current.name = "proxy" /\ ~ refused THEN "proxied"
                          ELSE endpoint
           /\ result' = HandleWithMeta(Current)
           /\ pc' = AfterHandle(result')
    /\ UNCHANGED <<inbox, sent, num, replies, gauge, peer>>

(* Connection.IsClosed: the context of the connection is done.             *)
IsClosed == cancelled

(* MUTANT: the loop goes on after a response whatever the context says.    *)
AfterWriteNever(stop) == "read"

(* IsClosed is consulted after a response only.                            *)
AfterWrite(stop) == IF stop THEN "cleanup" ELSE "read"

(* The response: the request's number, every command with its window.      *)
Reply == [num |-> num, win |-> Win(Current), commands |-> result.commands]

WriteResponse ==
    /\ pc = "write"
    /\ replies' = Append(replies, Reply)
    /\ pc' = AfterWrite(IsClosed)
    /\ UNCHANGED <<inbox, sent, num, result, cancelled, endpoint, gauge, peer>>

(* Marshalling or the write fails: the connection ends.                    *)
WriteError ==
    /\ pc = "write"
    /\ peer = "closed"
    /\ pc' = "cleanup"
    /\ UNCHANGED <<inbox, sent, num, result, cancelled, endpoint, replies,
                   gauge, peer>>

(* Deferred calls run last in, first out: OnDisconnect, then the metric,   *)
(* and nc.Close at the end.                                                *)
CleanupOrder == [cleanup |-> "gauge", gauge |-> "close", close |-> "done"]

OnDisconnect ==
    /\ pc = "cleanup"
    /\ pc' = CleanupOrder["cleanup"]
    /\ UNCHANGED <<inbox, sent, num, result, cancelled, endpoint, replies,
                   gauge, peer>>

ClientDisconnected ==
    /\ pc = "gauge"
    /\ gauge' = gauge - 1
    /\ pc' = CleanupOrder["gauge"]
    /\ UNCHANGED <<inbox, sent, num, result, cancelled, endpoint, replies, peer>>

CloseSocket ==
    /\ pc = "close"
    /\ peer' = "closed_by_server"
    /\ pc' = CleanupOrder["close"]
    /\ UNCHANGED <<inbox, sent, num, result, cancelled, endpoint, replies, gauge>>

Finished == pc = "done" /\ UNCHANGED vars

Server ==
    \/ ReadRequest \/ ReadError \/ Handle \/ WriteResponse \/ WriteError
    \/ OnDisconnect \/ ClientDisconnected \/ CloseSocket

Next == (\E r \in Requests : Send(r)) \/ ClientClose \/ Server \/ Finished

(* The goroutine of the connection keeps running.                          *)
Spec == Init /\ [][Next]_vars /\ WF_vars(Server)

----------------------------------------------------------------------------
(* Properties                                                              *)

(* Requests the code answers, told from the request alone.                 *)
Answered(r) ==
    \/ r.name \in {"login", "echo", "open", "go", "GETTBL"}
    \/ r.name = "url" /\ CoreArgs(r) > 0
    \/ r.name \notin Commands \cup UnimplementedCommands \cup {"stats", "none", "garbage"}

(* Replies come in the order of their requests, at most one for each, only *)
(* to requests that are answered, and with the window the request named.   *)
RepliesMatchRequests ==
    /\ \A i \in DOMAIN replies : i > 1 => replies[i - 1].num < replies[i].num
    /\ \A i \in DOMAIN replies :
           LET r == sent[replies[i].num]
           IN  Answered(r) /\ replies[i].win = Win(r)

(* No request that is answered is skipped among those read.                *)
NoReplySkipped ==
    pc = "read" =>
        \A k \in 1 .. num : Answered(sent[k]) =>
            \E i \in DOMAIN replies : replies[i].num = k

(* A client can pair the replies it gets with the requests it sent.        *)
RepliesPairUp == RepliesMatchRequests /\ NoReplySkipped

(* Once a proxy request was refused, the client is served at most one more *)
(* response.                                                               *)
Refused(r) == r.name = "proxy" /\ ~ ProxyAccepted(r)

CancelledServedOnce ==
    \A k \in 1 .. num : Refused(sent[k]) =>
        \A i, j \in DOMAIN replies :
            replies[i].num > k /\ replies[j].num > k => i = j

(* When the client sees the connection closed by the server, its player    *)
(* has been taken out of the lobby already and the metric is down.         *)
CleanedUpBeforeClose == peer = "closed_by_server" => gauge = 0 /\ pc = "done"

(* How a connection ends: cancelled, it answers once more at most; closed, *)
(* it has left nothing behind.                                             *)
EndsCleanly == CancelledServedOnce /\ CleanedUpBeforeClose

(* Every request sent is handled, or the connection ends.                  *)
RequestsServed ==
    \A k \in 1 .. MaxRequests :
        (Len(sent) >= k) ~> (num >= k /\ pc # "handle") \/ pc = "done"

----------------------------------------------------------------------------
(* What the repository says and the code does not do.                      *)

(* conn.go, Cancel: "signalling the read loop to stop after the current    *)
(* command finishes": no request is handled once the context is cancelled. *)
CancelStopsLoop == [][cancelled => pc' # "handle"]_vars
=============================================================================
