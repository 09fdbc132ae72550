------------------------------- MODULE MCWire -------------------------------
(* The way of a request through the server: the text forms of its          *)
(* arguments (GscText), its frame on the socket (GscStream), and the loop  *)
(* of the connection that serves it (GscConn).  Each part gets what the    *)
(* one before it delivers as its input, from the sets below, so one part   *)
(* moves and the others stay in their first state.                         *)
EXTENDS GscConn, GscStream, GscText

VARIABLE part       \* the part that moves

Cmd(name, args) == [name |-> name, args |-> args]

Chars == {"\\", "&", "|", "nul", "^", "=", ":", "0", "2", "5", "6", "7", "C",
          "K", "L", "x", "g", "e"}

(* Arguments over the characters that need escaping and the digits that    *)
(* look like the end of an escape.                                         *)
TextArgs == BoundedSeq({"\\", "&", "nul", "5", "C"}, 3)
            \cup {<<"|">>, <<"\\", "2", "6">>, <<"|", "|">>}

WrittenSets ==
    {<<Cmd(<<"g">>, <<a>>)>> : a \in TextArgs}
    \cup {<<Cmd(<<"g">>, <<a, b>>), Cmd(<<"e">>, <<>>)>> :
             a \in {<<>>, <<"&">>, <<"\\">>}, b \in {<<>>, <<"|">>, <<"x">>}}

Pair(k, v) == [key |-> k, value |-> v]
Values == BoundedSeq({"x", "^", "="}, 3)
OpenParams == {<<Pair("K", v)>> : v \in Values}
              \cup {<<Pair("K", v), Pair("L", w)>> : v \in Values, w \in Values}

GoLists == {<<<<"K", "=", "x">>>>, <<<<"K", ":", "=">>, <<"x", "x">>>>}

(* No command, a command without arguments, empty arguments before and at  *)
(* the end, two commands.                                                  *)
FrameSets ==
    {<<>>, <<Cmd(<<"g">>, <<>>)>>, <<Cmd(<<"g">>, <<<<>>, <<"a", "b">>>>)>>,
     <<Cmd(<<"g">>, <<<<"a">>, <<>>>>)>>,
     <<Cmd(<<>>, <<<<"a">>>>), Cmd(<<"e">>, <<<<"b">>>>)>>}

FrameFaults == {"not_zlib", "too_large", "too_small", "wrong_len"}

(* Fourteen requests: one of each form the dispatcher tells apart, with    *)
(* the arguments on either side of its checks.                             *)
Req(name, argc, win, route, ok) ==
    [name |-> name, argc |-> argc, win |-> win, route |-> route, ok |-> ok]

Plain(name, win) == Req(name, 5, win, "enter", TRUE)

ConnRequests ==
    {Plain(n, "w1") : n \in {"stats", "echo", "GETTBL", "proxy", "none", "garbage"}}
    \cup {Plain(n, "w2") : n \in {"open", "nonsense"}}
    \cup {Req("proxy", 5, "w1", "enter", FALSE), Req("url", 1, "w1", "enter", TRUE),
          Req("url", 2, "w1", "enter", TRUE), Req("go", 3, "w2", "direct", TRUE),
          Req("go", 3, "w2", "join_pl_cmd", FALSE), Req("GETTBL", 0, "w1", "enter", TRUE)}

----------------------------------------------------------------------------
MCInit == part \in {"text", "stream", "loop"} /\ TextInit /\ StreamInit /\ Init

MCNext ==
    \/ part = "text" /\ TextNext /\ UNCHANGED <<part, streamVars, vars>>
    \/ part = "stream" /\ StreamNext /\ UNCHANGED <<part, textVars, vars>>
    \/ part = "loop" /\ Next /\ UNCHANGED <<part, textVars, streamVars>>

(* The fairness of the parts that have a goroutine.                        *)
MCSpec ==
    /\ MCInit /\ [][MCNext]_<<part, textVars, streamVars, vars>>
    /\ StreamFairness /\ WF_vars(Server)
=============================================================================
