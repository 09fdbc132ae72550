---------------------------- MODULE MCEnterFlow ----------------------------
(* Two instances of EnterFlow: two clients with accounts of both providers *)
(* (the constants of the configuration), and one client that tries every   *)
(* form of request at a server that knows one provider only.               *)
EXTENDS EnterFlow

CONSTANTS c1, c2

As(nick) == [NoRequest EXCEPT !.nick = nick]
Login(type, nick, pw) == [As(nick) EXCEPT !.type = type, !.password = pw]

(* Few enough for two clients.                                             *)
FewRequests ==
    {As(<<"a">>), Login("LCN", <<"1">>, "pw"), Login("WCL", <<"!">>, "pw"),
     [NoRequest EXCEPT !.reset = TRUE]}

AllRequests ==
    {As(<<"a", "1", "-">>), As(<<"1">>), As(<<"a", "!">>), As(<<>>),
     [As(<<"_", "#">>) EXCEPT !.height = 1],
     Login("LCN", <<"!", "-">>, "pw"), Login("WCL", <<"1", "!">>, "pw"),
     Login("LCN", <<"a">>, ""), Login("WCL", <<>>, "pw"),
     [NoRequest EXCEPT !.reset = TRUE], [NoRequest EXCEPT !.loggedIn = TRUE]}

One == INSTANCE EnterFlow WITH
    Requests <- AllRequests, Configured <- {"lcn"}, Known <- {"lcn"},
    IssuedIDs <- {1, 3}

VARIABLE focus      \* "two" or "one": the clients that make requests

MCInit == (focus = "two" /\ Init) \/ (focus = "one" /\ One!Init)

MCNext ==
    /\ UNCHANGED focus
    /\ \/ focus = "two" /\ Next
       \/ focus = "one" /\ One!Next /\ page'[c2] = page[c2] /\ pc'[c2] = "idle"

MCFinish(c) == (focus = "two" /\ Finish(c)) \/ (focus = "one" /\ One!Finish(c))

MCSpec ==
    /\ MCInit /\ [][MCNext]_<<vars, focus>>
    /\ \A c \in Conns : WF_vars(MCFinish(c))
=============================================================================
