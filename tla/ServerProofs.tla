----------------------------- MODULE ServerProofs -----------------------------
(***************************************************************************)
(* The server from the process down to one connection, for any             *)
(* configurations, frames and requests: the listeners of Process, the      *)
(* frames of GscStream on a connection, the loop of GscConn that answers   *)
(* what was read from them, and the text forms of GscText that the         *)
(* requests are written in.                                                *)
(***************************************************************************)
EXTENDS GscConn, GscStream, GscText, Process, SequenceTheorems,
        FiniteSetTheorems, TLAPS

----------------------------------------------------------------------------
(* The loop of one connection (GscConn): RepliesPairUp and EndsCleanly.    *)
(*                                                                         *)
(* The wire protocol has no request ids, so a client pairs replies with    *)
(* requests by counting.  The invariant therefore says, for every point of *)
(* the loop, which of the requests read so far have their reply already.   *)

(* What the proofs ask of a request: a number of arguments.                *)
RequestsTyped == \A r \in Requests : r.argc \in Nat

Loop == {"read", "handle", "write"}
Ending == {"cleanup", "gauge", "close", "done"}

(* The reader hands the requests to the loop in the order sent.            *)
InOrder ==
    /\ sent \in Seq(Requests) /\ inbox \in Seq(Requests)
    /\ num \in Nat /\ Len(sent) = num + Len(inbox)
    /\ \A i \in 1 .. Len(inbox) : inbox[i] = sent[num + i]

(* The request before the handler is one that a handler sees.              *)
Handled ==
    /\ pc \in Loop \cup Ending
    /\ pc \in {"handle", "write"} =>
          num >= 1 /\ Current.name \notin {"none", "garbage"}
    /\ pc = "write" => Answered(Current)

(* The requests whose reply, if they get one, has been written.            *)
Past == IF pc \in {"handle", "write"} THEN num - 1 ELSE num

RepliesOK ==
    /\ \E S : replies \in Seq(S)
    /\ \A i \in 1 .. Len(replies) :
          /\ replies[i].num \in 1 .. Past
          /\ Answered(sent[replies[i].num])
          /\ replies[i].win = Win(sent[replies[i].num])
    /\ \A i, j \in 1 .. Len(replies) : i < j => replies[i].num < replies[j].num

AllReplied ==
    pc \in Loop => \A k \in 1 .. Past : Answered(sent[k]) =>
                      \E i \in 1 .. Len(replies) : replies[i].num = k

(* A refused proxy request cancels when it is handled, and a reply after   *)
(* it is the last.                                                         *)
Cancels ==
    \A k \in 1 .. num : Refused(sent[k]) =>
        /\ k < num \/ pc # "handle" => cancelled
        /\ \A i \in 1 .. Len(replies) : replies[i].num > k => pc \in Ending
        /\ \A i, j \in 1 .. Len(replies) :
              replies[i].num > k /\ replies[j].num > k => i = j

CleanEnd ==
    /\ gauge = IF pc \in {"close", "done"} THEN 0 ELSE 1
    /\ peer = "closed_by_server" => pc = "done"

Inv == InOrder /\ Handled /\ RepliesOK /\ AllReplied /\ Cancels /\ CleanEnd

----------------------------------------------------------------------------
(* The dispatcher answers exactly the requests that Answered tells from    *)
(* the request alone.                                                      *)
LEMMA AnsweredByHandler ==
    ASSUME NEW r, r.argc \in Nat, r.name \notin {"none", "garbage"}
    PROVE  HandleWithMeta(r).hasResponse <=> Answered(r)
<1>1. CoreArgs(r) \in Nat
  BY DEF CoreArgs
<1>2. ~ Silent.hasResponse /\ \A n : Answer(n).hasResponse
  BY DEF Silent, NoResult, Answer
<1>3. HandleRoute(r).hasResponse
  BY <1>2 DEF HandleRoute, DispatchOpen
<1>4. CASE r.name \in {"open", "go"}
  <2>1. HandleWithMeta(r) = HandleRoute(r)
    BY <1>4 DEF HandleWithMeta, CommandResult, Lookup, Commands
  <2> QED
    BY <1>3, <1>4, <2>1 DEF Answered
<1>5. CASE r.name \in {"login", "echo"}
  <2>1. HandleWithMeta(r) = Answer(1)
    BY <1>5 DEF HandleWithMeta, CommandResult, Lookup, Commands
  <2> QED
    BY <1>2, <1>5, <2>1 DEF Answered
<1>6. CASE r.name = "url"
  <2>1. HandleWithMeta(r) = IF CoreArgs(r) = 0 THEN Silent ELSE Answer(1)
    BY <1>6 DEF HandleWithMeta, CommandResult, Lookup, Commands
  <2>2. CoreArgs(r) = 0 <=> ~ (CoreArgs(r) > 0)
    BY <1>1
  <2>3. Answered(r) <=> CoreArgs(r) > 0
    BY <1>6 DEF Answered, Commands
  <2> QED
    BY <1>2, <2>1, <2>2, <2>3
<1>7. CASE r.name = "GETTBL"
  <2>1. HandleWithMeta(r) = Answer(0) \/ HandleWithMeta(r) = Answer(2)
    BY <1>7 DEF HandleWithMeta, CommandResult, Lookup, Commands
  <2> QED
    BY <1>2, <1>7, <2>1 DEF Answered
<1>8. CASE r.name = "stats"
  <2>1. HandleWithMeta(r) = Silent
    BY <1>8 DEF HandleWithMeta, CommandResult, Lookup, Commands
  <2> QED
    BY <1>2, <1>8, <2>1 DEF Answered
<1>9. CASE /\ r.name \in Commands \cup UnimplementedCommands
           /\ r.name \notin {"open", "go", "login", "echo", "url", "GETTBL", "stats"}
  <2>1. HandleWithMeta(r) = Silent
    BY <1>9 DEF HandleWithMeta, CommandResult, Lookup, Commands, UnimplementedCommands
  <2> QED
    BY <1>2, <1>9, <2>1 DEF Answered
<1>10. CASE r.name \notin Commands \cup UnimplementedCommands \cup {"stats"}
  <2>1. HandleWithMeta(r) = Answer(0)
    BY <1>10 DEF HandleWithMeta, Lookup, Commands, UnimplementedCommands
  <2> QED
    BY <1>2, <1>10, <2>1 DEF Answered
<1> QED
  BY <1>4, <1>5, <1>6, <1>7, <1>8, <1>9, <1>10

(* The loop begins with nothing sent and nothing replied.                  *)
LEMMA InitInv == Init => Inv
<1> SUFFICES ASSUME Init PROVE Inv
  OBVIOUS
<1>1. /\ sent \in Seq(Requests) /\ inbox \in Seq(Requests) /\ replies \in Seq({})
      /\ Len(sent) = 0 /\ Len(inbox) = 0 /\ Len(replies) = 0
  BY EmptySeq DEF Init
<1>2. InOrder
  BY <1>1 DEF Init, InOrder
<1>3. RepliesOK /\ AllReplied /\ Cancels
  BY <1>1 DEF Init, RepliesOK, AllReplied, Cancels, Past
<1>4. Handled /\ CleanEnd
  BY DEF Init, Handled, CleanEnd, Loop, Ending
<1> QED
  BY <1>2, <1>3, <1>4 DEF Inv

----------------------------------------------------------------------------
(* The steps.                                                              *)

(* What Append adds and what it keeps.                                     *)
LEMMA AppendFacts ==
    ASSUME NEW S, NEW s \in Seq(S), NEW e \in S, NEW t, t = Append(s, e)
    PROVE  /\ t \in Seq(S) /\ Len(t) = Len(s) + 1
           /\ \A i \in 1 .. Len(s) : t[i] = s[i]
           /\ t[Len(s) + 1] = e
BY AppendProperties

(* The types that the steps below need of Inv.                             *)
LEMMA Typed ==
    ASSUME Inv
    PROVE  /\ sent \in Seq(Requests) /\ inbox \in Seq(Requests)
           /\ num \in Nat /\ Len(sent) \in Nat /\ Len(inbox) \in Nat
           /\ Len(sent) = num + Len(inbox) /\ Len(replies) \in Nat
           /\ Past \in Int /\ Past <= num
           /\ \A i \in 1 .. Len(replies) : replies[i].num \in 1 .. Past
<1>1. sent \in Seq(Requests) /\ inbox \in Seq(Requests)
  BY DEF Inv, InOrder
<1>2. num \in Nat /\ Len(sent) = num + Len(inbox)
  BY DEF Inv, InOrder
<1>3. Len(sent) \in Nat /\ Len(inbox) \in Nat
  BY <1>1, LenProperties
<1>4. Len(replies) \in Nat
  BY LenProperties DEF Inv, RepliesOK
<1>5. Past \in Int /\ Past <= num
  BY <1>2 DEF Past
<1> QED
  BY <1>1, <1>2, <1>3, <1>4, <1>5 DEF Inv, RepliesOK

(* A client writes another request.                                        *)
LEMMA SendInv ==
    ASSUME Inv, NEW r \in Requests, Send(r)
    PROVE  Inv'
<1>1. InOrder /\ RepliesOK
  BY DEF Inv
<1>2. /\ sent \in Seq(Requests) /\ inbox \in Seq(Requests)
      /\ num \in Nat /\ Len(sent) \in Nat /\ Len(inbox) \in Nat
      /\ Len(sent) = num + Len(inbox)
  BY Typed
<1>a. sent' = Append(sent, r) /\ inbox' = Append(inbox, r) /\ num' = num
  BY DEF Send
<1>3. /\ sent' \in Seq(Requests) /\ Len(sent') = Len(sent) + 1
      /\ \A i \in 1 .. Len(sent) : sent'[i] = sent[i]
      /\ sent'[Len(sent) + 1] = r
  BY <1>2, <1>a, AppendFacts
<1>4. /\ inbox' \in Seq(Requests) /\ Len(inbox') = Len(inbox) + 1
      /\ \A i \in 1 .. Len(inbox) : inbox'[i] = inbox[i]
      /\ inbox'[Len(inbox) + 1] = r
  BY <1>2, <1>a, AppendFacts
<1>5. InOrder'
  <2>1. ASSUME NEW i \in 1 .. Len(inbox')
        PROVE  inbox'[i] = sent'[num' + i]
    <3>1. CASE i = Len(inbox) + 1
      BY <1>2, <1>a, <1>3, <1>4, <3>1
    <3>2. CASE i # Len(inbox) + 1
      <4>1. i \in 1 .. Len(inbox) /\ num + i \in 1 .. Len(sent)
        BY <1>2, <1>4, <3>2
      <4> QED
        BY <1>1, <1>2, <1>a, <1>3, <1>4, <4>1 DEF InOrder
    <3> QED
      BY <3>1, <3>2
  <2>2. Len(sent') = num' + Len(inbox')
    BY <1>2, <1>a, <1>3, <1>4
  <2> QED
    BY <1>2, <1>a, <1>3, <1>4, <2>1, <2>2 DEF InOrder
<1>6. /\ UNCHANGED <<pc, num, cancelled, replies, gauge, peer>> /\ Past' = Past
      /\ \A k \in 1 .. num : sent'[k] = sent[k]
  BY <1>2, <1>a, <1>3 DEF Send, Past
<1>7. Handled'
  <2>1. pc \in {"handle", "write"} => Current' = Current
    BY <1>2, <1>6 DEF Inv, Handled, Current
  <2>2. Handled
    BY DEF Inv
  <2>3. pc' = pc /\ num' = num
    BY <1>6
  <2> QED
    BY <2>1, <2>2, <2>3 DEF Handled, Answered
<1>8. Past \in Int /\ Past <= num
  BY <1>2 DEF Past
<1>9. RepliesOK'
  BY <1>1, <1>2, <1>6, <1>8 DEF RepliesOK
<1>10. AllReplied'
  BY <1>2, <1>6, <1>8 DEF Inv, AllReplied
<1>11. Cancels' /\ CleanEnd'
  BY <1>2, <1>6 DEF Inv, Cancels, CleanEnd
<1> QED
  BY <1>5, <1>7, <1>9, <1>10, <1>11 DEF Inv

(* A step of the server that leaves the requests and the replies alone and *)
(* has nothing more to reply to: AllReplied and Cancels stay true, once    *)
(* the reply of the request before the handler is given up.                *)
LEMMA EndingInv ==
    ASSUME Inv, pc' \in Ending,
           pc \in Ending \cup {"read", "write"},
           UNCHANGED <<inbox, sent, num, cancelled, replies>>,
           CleanEnd'
    PROVE  Inv'
<1>1. InOrder'
  BY DEF Inv, InOrder
<1>2. Handled' /\ AllReplied'
  BY DEF Inv, Handled, AllReplied, Loop, Ending
<1>3. Past' = num /\ Past' \in Nat /\ Past <= Past'
  BY Typed DEF Past, Ending
<1>4. RepliesOK'
  <2>1. ASSUME NEW i \in 1 .. Len(replies)
        PROVE  replies[i].num \in 1 .. Past'
    BY <1>3, <2>1, Typed
  <2> QED
    BY <2>1 DEF Inv, RepliesOK
<1>5. Cancels'
  BY DEF Inv, Cancels, Ending
<1> QED
  BY <1>1, <1>2, <1>4, <1>5 DEF Inv

(* The loop goes on to its end and replies no more.                        *)
LEMMA LeavingInv ==
    ASSUME Inv, ReadError \/ WriteError \/ OnDisconnect \/ ClientDisconnected
                \/ CloseSocket
    PROVE  Inv'
<1>1. CASE ReadError \/ WriteError
  <2>1. CleanEnd'
    BY <1>1 DEF Inv, CleanEnd, ReadError, WriteError
  <2> QED
    BY <1>1, <2>1, EndingInv DEF ReadError, WriteError, Ending
<1>2. CASE OnDisconnect
  <2>1. pc = "cleanup" /\ pc' = "gauge"
    BY <1>2 DEF OnDisconnect, CleanupOrder
  <2>2. CleanEnd'
    BY <1>2, <2>1 DEF Inv, CleanEnd, OnDisconnect
  <2> QED
    BY <1>2, <2>1, <2>2, EndingInv DEF OnDisconnect, Ending
<1>3. CASE ClientDisconnected
  <2>1. pc = "gauge" /\ pc' = "close"
    BY <1>3 DEF ClientDisconnected, CleanupOrder
  <2>2. CleanEnd'
    BY <1>3, <2>1 DEF Inv, CleanEnd, ClientDisconnected
  <2> QED
    BY <1>3, <2>1, <2>2, EndingInv DEF ClientDisconnected, Ending
<1>4. CASE CloseSocket
  <2>1. pc = "close" /\ pc' = "done"
    BY <1>4 DEF CloseSocket, CleanupOrder
  <2>2. CleanEnd'
    BY <1>4, <2>1 DEF Inv, CleanEnd, CloseSocket
  <2> QED
    BY <1>4, <2>1, <2>2, EndingInv DEF CloseSocket, Ending
<1> QED
  BY <1>1, <1>2, <1>3, <1>4

(* The client closes its side.                                             *)
LEMMA ClientCloseInv ==
    ASSUME Inv, ClientClose
    PROVE  Inv'
<1>1. InOrder' /\ Handled' /\ Past' = Past
  BY DEF Inv, InOrder, Handled, Current, Past, ClientClose
<1>2. RepliesOK' /\ AllReplied'
  BY <1>1 DEF Inv, RepliesOK, AllReplied, ClientClose
<1>3. Cancels' /\ CleanEnd'
  BY DEF Inv, Cancels, CleanEnd, ClientClose
<1> QED
  BY <1>1, <1>2, <1>3 DEF Inv

(* The loop takes the next request, or skips an empty one.                 *)
LEMMA ReadRequestInv ==
    ASSUME Inv, ReadRequest
    PROVE  Inv'
<1>1. /\ pc = "read" /\ inbox # <<>> /\ inbox' = Tail(inbox)
      /\ num' = num + 1 /\ Head(inbox).name # "garbage"
      /\ pc' = IF Head(inbox).name = "none" THEN "read" ELSE "handle"
      /\ UNCHANGED <<sent, cancelled, replies, gauge, peer>>
  BY DEF ReadRequest
<1>2. /\ Len(inbox) >= 1 /\ Head(inbox) = inbox[1]
      /\ Tail(inbox) \in Seq(Requests) /\ Len(Tail(inbox)) = Len(inbox) - 1
      /\ \A i \in 1 .. Len(Tail(inbox)) : Tail(inbox)[i] = inbox[i + 1]
  <2>1. inbox \in Seq(Requests) /\ inbox # <<>> /\ Len(inbox) \in Nat
    BY <1>1, Typed
  <2>2. Len(inbox) # 0
    BY <2>1, EmptySeq
  <2> QED
    BY <2>1, <2>2, HeadTailProperties
<1>3. \A i \in 1 .. Len(inbox) : inbox[i] = sent[num + i]
  BY DEF Inv, InOrder
<1>4. Head(inbox) = sent[num + 1]
  BY <1>2, <1>3, Typed
<1>5. InOrder'
  <2>1. ASSUME NEW i \in 1 .. Len(inbox')
        PROVE  inbox'[i] = sent'[num' + i]
    <3>1. i \in 1 .. Len(Tail(inbox)) /\ i + 1 \in 1 .. Len(inbox)
      BY <1>1, <1>2, <2>1, Typed
    <3>2. inbox'[i] = sent[num + (i + 1)]
      BY <1>1, <1>2, <1>3, <3>1
    <3> QED
      <4>1. num \in Int /\ i \in Int /\ num' = num + 1
        BY <1>1, <2>1, Typed
      <4>2. num + (i + 1) = num' + i
        BY <4>1
      <4> QED
        BY <1>1, <3>2, <4>2
  <2>2. num' \in Nat /\ Len(sent') = num' + Len(inbox')
    BY <1>1, <1>2, Typed
  <2>3. sent' \in Seq(Requests) /\ inbox' \in Seq(Requests)
    BY <1>1, <1>2, Typed
  <2> QED
    BY <2>1, <2>2, <2>3 DEF InOrder
<1>6. Handled'
  BY <1>1, <1>4, Typed DEF Handled, Current, Loop
<1>7. /\ Past = num
      /\ Past' = IF Head(inbox).name = "none" THEN num + 1 ELSE num
  BY <1>1, Typed DEF Past
<1>8. RepliesOK'
  <2>1. ASSUME NEW i \in 1 .. Len(replies)
        PROVE  replies[i].num \in 1 .. Past'
    BY <1>7, <2>1, Typed
  <2> QED
    BY <1>1, <2>1 DEF Inv, RepliesOK
<1>9. Head(inbox).name = "none" => ~ Answered(Head(inbox)) /\ ~ Refused(Head(inbox))
  BY DEF Answered, Refused
<1>10. AllReplied'
  <2>1. ASSUME NEW k \in 1 .. Past', Answered(sent[k])
        PROVE  \E i \in 1 .. Len(replies) : replies[i].num = k
    <3>1. k \in 1 .. num
      BY <1>4, <1>7, <1>9, <2>1, Typed
    <3> QED
      BY <1>1, <1>7, <2>1, <3>1 DEF Inv, AllReplied, Loop
  <2> QED
    BY <1>1, <2>1 DEF AllReplied
<1>11. Cancels'
  <2>1. ASSUME NEW k \in 1 .. num + 1, Refused(sent[k])
        PROVE  /\ k < num + 1 \/ pc' # "handle" => cancelled
               /\ \A i \in 1 .. Len(replies) : ~ (replies[i].num > k)
    <3>1. CASE k = num + 1
      <4>1. \A i \in 1 .. Len(replies) : ~ (replies[i].num > k)
        BY <3>1, Typed
      <4> QED
        BY <1>1, <1>4, <1>9, <2>1, <3>1, <4>1, Typed
    <3>2. CASE k # num + 1
      <4>1. k \in 1 .. num
        BY <3>2, Typed
      <4> QED
        BY <1>1, <2>1, <4>1 DEF Inv, Cancels, Ending
    <3> QED
      BY <3>1, <3>2
  <2> QED
    BY <1>1, <2>1 DEF Cancels
<1>12. CleanEnd'
  BY <1>1 DEF Inv, CleanEnd
<1> QED
  BY <1>5, <1>6, <1>8, <1>10, <1>11, <1>12 DEF Inv

(* The request goes to its handler.                                        *)
LEMMA HandleInv ==
    ASSUME RequestsTyped, Inv, Handle
    PROVE  Inv'
<1>1. /\ pc = "handle" /\ num >= 1
      /\ Current.name \notin {"none", "garbage"}
      /\ UNCHANGED <<inbox, sent, num, replies, gauge, peer>>
  BY DEF Inv, Handled, Handle
<1>2. Current.argc \in Nat
  <2>1. num \in 1 .. Len(sent)
    BY <1>1, Typed
  <2>2. sent[num] \in Requests
    BY <2>1, Typed, ElementOfSeq
  <2> QED
    BY <2>2 DEF RequestsTyped, Current
<1>3. pc' = IF HandleWithMeta(Current).hasResponse THEN "write" ELSE "read"
  BY DEF Handle, AfterHandle
<1>4. pc' = IF Answered(Current) THEN "write" ELSE "read"
  BY <1>1, <1>2, <1>3, AnsweredByHandler
<1>5. (cancelled => cancelled') /\ (Refused(Current) => cancelled')
  BY Zenon DEF Handle, Refused
<1>6. InOrder'
  BY <1>1 DEF Inv, InOrder
<1>7. Handled'
  BY <1>1, <1>4 DEF Handled, Current, Loop
<1>8. /\ Past = num - 1
      /\ Past' = IF Answered(Current) THEN num - 1 ELSE num
  BY <1>1, <1>4, Typed DEF Past
<1>9. RepliesOK'
  <2>1. ASSUME NEW i \in 1 .. Len(replies)
        PROVE  replies[i].num \in 1 .. Past'
    BY <1>8, <2>1, Typed
  <2> QED
    BY <1>1, <2>1 DEF Inv, RepliesOK
<1>10. AllReplied'
  <2>1. ASSUME NEW k \in 1 .. Past', Answered(sent[k])
        PROVE  \E i \in 1 .. Len(replies) : replies[i].num = k
    <3>1. k \in 1 .. Past
      BY <1>8, <2>1, Typed DEF Current
    <3> QED
      BY <1>1, <2>1, <3>1 DEF Inv, AllReplied, Loop
  <2> QED
    BY <1>1, <2>1 DEF AllReplied
<1>11. Cancels'
  <2>1. ASSUME NEW k \in 1 .. num, Refused(sent[k])
        PROVE  /\ cancelled'
               /\ \A i \in 1 .. Len(replies) : ~ (replies[i].num > k)
    <3>1. k < num => cancelled
      BY <2>1 DEF Inv, Cancels
    <3>2. k = num => cancelled'
      BY <1>5, <2>1 DEF Current
    <3>3. k < num \/ k = num
      BY Typed
    <3>4. \A i \in 1 .. Len(replies) : ~ (replies[i].num > k)
      BY <1>1, <2>1 DEF Inv, Cancels, Ending
    <3> QED
      BY <1>5, <3>1, <3>2, <3>3, <3>4
  <2> QED
    BY <1>1, <2>1 DEF Cancels
<1>12. CleanEnd'
  BY <1>1, <1>4 DEF Inv, CleanEnd
<1> QED
  BY <1>6, <1>7, <1>9, <1>10, <1>11, <1>12 DEF Inv

(* The reply is written.                                                   *)
LEMMA WriteResponseInv ==
    ASSUME Inv, WriteResponse
    PROVE  Inv'
<1>1. /\ pc = "write" /\ num >= 1 /\ Answered(sent[num])
      /\ replies' = Append(replies, Reply)
      /\ pc' = IF cancelled THEN "cleanup" ELSE "read"
      /\ UNCHANGED <<inbox, sent, num, cancelled, gauge, peer>>
  BY DEF Inv, Handled, WriteResponse, AfterWrite, IsClosed, Current
<1>2. Reply.num = num /\ Reply.win = Win(sent[num])
  BY DEF Reply, Current
<1>3. PICK S : replies \in Seq(S)
  BY DEF Inv, RepliesOK
<1>4. replies \in Seq(S \cup {Reply}) /\ Reply \in S \cup {Reply}
  BY <1>3
<1>5. /\ replies' \in Seq(S \cup {Reply}) /\ Len(replies') = Len(replies) + 1
      /\ \A i \in 1 .. Len(replies) : replies'[i] = replies[i]
      /\ replies'[Len(replies) + 1] = Reply
  BY <1>1, <1>4, AppendFacts
<1>6. InOrder'
  BY <1>1 DEF Inv, InOrder
<1>7. Handled'
  BY <1>1 DEF Handled, Loop, Ending
<1>8. Past = num - 1 /\ Past' = num
  BY <1>1, Typed DEF Past
<1>9. ASSUME NEW i \in 1 .. Len(replies')
      PROVE  \/ i = Len(replies) + 1 /\ replies'[i] = Reply
             \/ i \in 1 .. Len(replies) /\ replies'[i] = replies[i]
  BY <1>5, <1>9, Typed
<1>10. RepliesOK'
  <2>1. ASSUME NEW i \in 1 .. Len(replies')
        PROVE  /\ replies'[i].num \in 1 .. num
               /\ Answered(sent[replies'[i].num])
               /\ replies'[i].win = Win(sent[replies'[i].num])
    <3>1. CASE i = Len(replies) + 1
      BY <1>1, <1>2, <1>5, <3>1, Typed
    <3>2. CASE i \in 1 .. Len(replies)
      <4>1. replies[i].num \in 1 .. num
        BY <1>8, <3>2, Typed
      <4> QED
        BY <1>5, <3>2, <4>1 DEF Inv, RepliesOK
    <3> QED
      BY <1>9, <2>1, <3>1, <3>2
  <2>2. ASSUME NEW i \in 1 .. Len(replies'), NEW j \in 1 .. Len(replies'), i < j
        PROVE  replies'[i].num < replies'[j].num
    <3>1. i \in 1 .. Len(replies) /\ replies'[i] = replies[i]
      BY <1>5, <2>2, Typed
    <3>2. replies[i].num < num
      BY <1>8, <3>1, Typed
    <3>3. CASE j = Len(replies) + 1
      BY <1>2, <1>5, <3>1, <3>2, <3>3
    <3>4. CASE j \in 1 .. Len(replies)
      BY <1>5, <2>2, <3>1, <3>4 DEF Inv, RepliesOK
    <3> QED
      BY <1>9, <2>2, <3>3, <3>4
  <2> QED
    BY <1>1, <1>5, <1>8, <2>1, <2>2 DEF RepliesOK
<1>11. AllReplied'
  <2>1. ASSUME NEW k \in 1 .. num, Answered(sent[k])
        PROVE  \E i \in 1 .. Len(replies') : replies'[i].num = k
    <3>1. CASE k = num
      <4>1. Len(replies) + 1 \in 1 .. Len(replies')
        BY <1>5, Typed
      <4> QED
        BY <1>2, <1>5, <3>1, <4>1
    <3>2. CASE k # num
      <4>1. k \in 1 .. Past
        BY <1>8, <3>2, Typed
      <4>2. PICK i \in 1 .. Len(replies) : replies[i].num = k
        BY <1>1, <2>1, <4>1 DEF Inv, AllReplied, Loop
      <4>3. i \in 1 .. Len(replies') /\ replies'[i].num = k
        BY <1>5, <4>2, Typed
      <4> QED
        BY <4>3
    <3> QED
      BY <3>1, <3>2
  <2> QED
    BY <1>1, <1>8, <2>1 DEF AllReplied
<1>12. Cancels'
  <2>1. ASSUME NEW k \in 1 .. num, Refused(sent[k])
        PROVE  /\ cancelled
               /\ \A i \in 1 .. Len(replies') : replies'[i].num > k => i = Len(replies) + 1
    <3>1. cancelled
      BY <1>1, <2>1 DEF Inv, Cancels
    <3>2. \A i \in 1 .. Len(replies) : ~ (replies[i].num > k)
      BY <1>1, <2>1 DEF Inv, Cancels, Ending
    <3>3. ASSUME NEW i \in 1 .. Len(replies'), replies'[i].num > k
          PROVE  i = Len(replies) + 1
      BY <1>9, <3>2, <3>3
    <3> QED
      BY <3>1, <3>3
  <2> QED
    BY <1>1, <2>1 DEF Cancels, Ending
<1>13. CleanEnd'
  BY <1>1 DEF Inv, CleanEnd
<1> QED
  BY <1>6, <1>7, <1>10, <1>11, <1>12, <1>13 DEF Inv

(* Every step keeps Inv.                                                   *)
LEMMA NextInv ==
    ASSUME RequestsTyped, Inv, [Next]_vars
    PROVE  Inv'
<1>1. CASE UNCHANGED vars
  <2>1. InOrder' /\ Handled' /\ Past' = Past
    BY <1>1 DEF Inv, InOrder, Handled, Current, Past, vars
  <2>2. RepliesOK' /\ AllReplied'
    BY <1>1, <2>1 DEF Inv, RepliesOK, AllReplied, vars
  <2>3. Cancels' /\ CleanEnd'
    BY <1>1 DEF Inv, Cancels, CleanEnd, vars
  <2> QED
    BY <2>1, <2>2, <2>3 DEF Inv
<1>2. CASE Next
  <2>1. CASE \E r \in Requests : Send(r)
    BY <2>1, SendInv
  <2>2. CASE ClientClose
    BY <2>2, ClientCloseInv
  <2>3. CASE ReadRequest
    BY <2>3, ReadRequestInv
  <2>4. CASE Handle
    BY <2>4, HandleInv
  <2>5. CASE WriteResponse
    BY <2>5, WriteResponseInv
  <2>6. CASE ReadError \/ WriteError \/ OnDisconnect \/ ClientDisconnected \/ CloseSocket
    BY <2>6, LeavingInv
  <2>7. CASE Finished
    BY <2>7, <1>1 DEF Finished
  <2> QED
    BY <1>2, <2>1, <2>2, <2>3, <2>4, <2>5, <2>6, <2>7 DEF Next, Server
<1> QED
  BY <1>1, <1>2

(* RepliesPairUp and EndsCleanly are what a client sees of Inv.            *)
LEMMA InvShows ==
    ASSUME Inv
    PROVE  RepliesPairUp /\ EndsCleanly
<1>1. DOMAIN replies = 1 .. Len(replies)
  BY LenProperties DEF Inv, RepliesOK
<1>2. RepliesMatchRequests
  <2>1. ASSUME NEW i \in DOMAIN replies, i > 1
        PROVE  replies[i - 1].num < replies[i].num
    <3>1. i \in 1 .. Len(replies) /\ i - 1 \in 1 .. Len(replies) /\ i - 1 < i
      BY <1>1, <2>1, Typed
    <3> QED
      BY <3>1 DEF Inv, RepliesOK
  <2> QED
    BY <1>1, <2>1 DEF RepliesMatchRequests, Inv, RepliesOK
<1>3. NoReplySkipped
  BY <1>1 DEF NoReplySkipped, Inv, AllReplied, Past, Loop
<1>4. CancelledServedOnce
  BY <1>1 DEF CancelledServedOnce, Inv, Cancels
<1>5. CleanedUpBeforeClose
  BY DEF CleanedUpBeforeClose, Inv, CleanEnd
<1> QED
  BY <1>2, <1>3, <1>4, <1>5 DEF RepliesPairUp, EndsCleanly

----------------------------------------------------------------------------
(* Whatever requests a client sends and however many, the replies come in  *)
(* the order of the requests, at most one for each and none skipped, each  *)
(* with the window of its request: the loop of tcp.Server.handleConn and   *)
(* the dispatch of Controller.HandleWithMeta.                              *)
THEOREM RepliesPairUpAlways == ASSUME RequestsTyped PROVE Spec => []RepliesPairUp
<1>1. Init => Inv
  BY InitInv
<1>2. Inv /\ [Next]_vars => Inv'
  BY NextInv
<1>3. Inv => RepliesPairUp
  BY InvShows
<1> QED
  BY <1>1, <1>2, <1>3, PTL DEF Spec

(* A connection whose proxy request was refused sends at most one more     *)
(* response, and when the client sees the close, the deferred calls of     *)
(* handleConn have run.                                                    *)
THEOREM EndsCleanlyAlways == ASSUME RequestsTyped PROVE Spec => []EndsCleanly
<1>1. Init => Inv
  BY InitInv
<1>2. Inv /\ [Next]_vars => Inv'
  BY NextInv
<1>3. Inv => EndsCleanly
  BY InvShows
<1> QED
  BY <1>1, <1>2, <1>3, PTL DEF Spec

----------------------------------------------------------------------------
(* The listeners of the process (Process): ListenersSound.                 *)
(*                                                                         *)
(* Only what is wanted is started, and the game and hole punching servers, *)
(* always wanted and deaf to the context, end with an error or not at all. *)

Deaf == {"stun", "tcp"}
Returned == {"nil", "error"}

ListenersTyped ==
    /\ phase \in {"load", "run", "exit 0", "exit 1"}
    /\ svc \in [Services -> {"off", "starting", "serving"} \cup Returned]
    /\ stop \subseteq Heeds

OnlyWanted == \A s \in Services : svc[s] # "off" => phase # "load" /\ s \in Wanted

DeafStay == phase = "run" => \A s \in Deaf : svc[s] \in {"starting", "serving", "error"}

AllEnded == Exited => \A s \in Services : svc[s] \notin {"starting", "serving"}

ListenersInv ==
    ListenersTyped /\ OnlyWanted /\ DeafStay /\ AllEnded /\ phase # "exit 0"

(* Before the configuration is loaded nothing listens.                     *)
LEMMA ListenersInit == ProcessInit => ListenersInv
BY DEF ProcessInit, ListenersInv, ListenersTyped, OnlyWanted, DeafStay, AllEnded,
       Exited, Services

(* Every step of the process keeps the invariant.                          *)
LEMMA ListenersNext == ListenersInv /\ [ProcessNext]_processVars => ListenersInv'
<1> SUFFICES ASSUME ListenersInv, [ProcessNext]_processVars
             PROVE  ListenersInv'
  OBVIOUS
<1> USE DEF ListenersInv
<1>0. Deaf \subseteq Services /\ Deaf \cap Heeds = {} /\ Deaf \cap Http = {}
      /\ Http \subseteq Heeds
  BY DEF Deaf, Services, Heeds, Http
<1>1. CASE LoadFails
  <2>1. \A s \in Services : svc[s] = "off"
    BY <1>1 DEF LoadFails, OnlyWanted
  <2> QED
    BY <1>1, <2>1 DEF LoadFails, ListenersTyped, OnlyWanted, DeafStay, AllEnded,
                      Exited
<1>2. CASE Start
  <2>1. Deaf \subseteq Wanted /\ Wanted' = Wanted
    BY <1>2 DEF Start, Wanted, Deaf, MetricsAddr, OwnProbes, ProbeAddr, IrcWanted,
                Loaded
  <2> QED
    BY <1>0, <1>2, <2>1 DEF Start, ListenersTyped, OnlyWanted, DeafStay, AllEnded,
                            Exited, Returned
<1>3. CASE Exit
  <2>1. "tcp" \in Services /\ svc["tcp"] = "error"
    BY <1>0, <1>3 DEF Exit, AllReturned, DeafStay, Deaf
  <2>2. phase' = "exit 1" /\ UNCHANGED <<cfg, svc, stop>>
    BY <1>3, <2>1 DEF Exit
  <2>3. Wanted' = Wanted
    BY <2>2 DEF Wanted, MetricsAddr, OwnProbes, ProbeAddr, IrcWanted, Loaded
  <2> QED
    BY <1>3, <2>2, <2>3 DEF Exit, AllReturned, ListenersTyped, OnlyWanted, DeafStay,
                            AllEnded, Exited
<1>4. ASSUME NEW s \in Services, NEW outcome \in {"serving"} \cup Returned,
             phase = "run", svc[s] \in {"starting", "serving"},
             svc' = [svc EXCEPT ![s] = outcome],
             s \in Deaf => outcome # "nil", UNCHANGED <<phase, cfg, stop>>
      PROVE  ListenersInv'
  <2>1. Wanted' = Wanted
    BY <1>4 DEF Wanted, MetricsAddr, OwnProbes, ProbeAddr, IrcWanted, Loaded
  <2>2. ListenersTyped' /\ OnlyWanted'
    BY <1>4, <2>1 DEF ListenersTyped, OnlyWanted, Returned
  <2>3. DeafStay'
    BY <1>0, <1>4 DEF DeafStay, ListenersTyped, Returned
  <2> QED
    BY <1>4, <2>2, <2>3 DEF AllEnded, Exited
<1>5. ASSUME NEW s \in Services, Listen(s) PROVE ListenersInv'
  <2>1. s \in Deaf => s \notin Http
    BY <1>0
  <2>2. \E outcome \in {"serving"} \cup Returned :
           /\ svc' = [svc EXCEPT ![s] = outcome]
           /\ s \in Deaf => outcome # "nil"
    BY <1>5, <2>1 DEF Listen, Returns, Returned
  <2> QED
    BY <1>4, <1>5, <2>2 DEF Listen
<1>6. ASSUME NEW s \in Services, Closed(s) \/ Fails(s) PROVE ListenersInv'
  <2>1. s \in Deaf => s \notin stop /\ s # "irc"
    BY <1>0 DEF ListenersTyped, Deaf
  <2>2. \E outcome \in Returned :
           /\ svc' = [svc EXCEPT ![s] = outcome]
           /\ s \in Deaf => outcome # "nil"
    BY <1>6, <2>1 DEF Closed, Fails, Returns, Returned
  <2> QED
    BY <1>4, <1>6, <2>2 DEF Closed, Fails
<1>7. ASSUME UNCHANGED <<phase, cfg, svc>>, stop' \subseteq Heeds
      PROVE  ListenersInv'
  <2>1. Wanted' = Wanted
    BY <1>7 DEF Wanted, MetricsAddr, OwnProbes, ProbeAddr, IrcWanted, Loaded
  <2> QED
    BY <1>7, <2>1 DEF ListenersTyped, OnlyWanted, DeafStay, AllEnded, Exited
<1>8. ASSUME NEW s \in Services, Stop(s) PROVE ListenersInv'
  BY <1>7, <1>8 DEF Stop, ListenersTyped
<1>9. ASSUME NEW s \in Http, Request(s) \/ Respond(s) PROVE ListenersInv'
  BY <1>7, <1>9 DEF Request, Respond, ListenersTyped
<1>10. CASE UNCHANGED processVars
  BY <1>7, <1>10 DEF processVars, ListenersTyped
<1> QED
  BY <1>1, <1>2, <1>3, <1>5, <1>6, <1>8, <1>9, <1>10 DEF ProcessNext

(* Whatever file, environment and flags say: the HTTP servers never ask    *)
(* for the same address, the metrics are where the strongest layer wants   *)
(* them, and main (cmd/cossacksd) ends after its last listener and then    *)
(* never with success.                                                     *)
THEOREM ListenersWhereWanted == ProcessSpec => []ListenersSound
<1>1. ListenersInv => ListenersSound
  <2> SUFFICES ASSUME ListenersInv PROVE ListenersSound
    OBVIOUS
  <2>1. /\ "probes" \in Wanted => OwnProbes
        /\ "metrics" \in Wanted => MetricsAddr # ""
    BY DEF Wanted
  <2>2. /\ Address("metrics") = MetricsAddr
        /\ Address("probes") = ProbeAddr
    BY DEF Address
  <2>3. NoSelfConflict
    <3> SUFFICES ASSUME NEW s \in Http, NEW t \in Http,
                        svc[s] = "starting", svc[t] = "serving",
                        Address(s) = Address(t)
                 PROVE  FALSE
      BY DEF NoSelfConflict
    <3>1. s # t /\ s \in Wanted /\ t \in Wanted
      BY DEF ListenersInv, OnlyWanted, Services, Http
    <3>2. OwnProbes /\ MetricsAddr # "" /\ MetricsAddr = ProbeAddr
      BY <2>1, <2>2, <3>1 DEF Http
    <3> QED
      BY <3>2 DEF OwnProbes
  <2>4. StrongestLayer
    <3> SUFFICES ASSUME svc["metrics"] = "serving"
                 PROVE  /\ MetricsAddr # ""
                        /\ cfg.env.metrics # "" /\ cfg.flag.metrics = ""
                            => MetricsAddr = cfg.env.metrics
                        /\ cfg.flag.metrics # "" => MetricsAddr = cfg.flag.metrics
      BY <2>2 DEF StrongestLayer
    <3>1. "metrics" \in Wanted
      BY DEF ListenersInv, OnlyWanted, Services
    <3>2. Loaded.metrics = StrOr(cfg.env.metrics, ConfigFromRaw(cfg.file).metrics)
      BY DEF Loaded, ApplyEnv
    <3> QED
      BY <2>1, <3>1, <3>2 DEF MetricsAddr, StrOr
  <2>5. ExitsLast
    BY DEF ListenersInv, AllEnded, ExitsLast
  <2> QED
    BY <2>3, <2>4, <2>5 DEF ListenersSound
<1> QED
  BY <1>1, ListenersInit, ListenersNext, PTL DEF ProcessSpec

----------------------------------------------------------------------------
(* The frames on a connection (GscStream): FramesAligned.                  *)
(*                                                                         *)
(* As long as the connection can be read, what is left of the stream -     *)
(* the header already read, the cells that have arrived, those still to    *)
(* come - is cut into the frames that have not been read yet, the first of *)
(* which begins where the reader stands.                                   *)

Sent == [set : Sets, fault : {"none"} \cup Faults]

FrameOf(x) == Frame(x.set, x.fault)

Cells == UNION {Range(FrameOf(x)) : x \in Sent}

(* The frames after number from follow each other in w: frame i ends at    *)
(* cell pos[i].                                                            *)
CutAt(w, frames, from, pos) ==
    /\ pos \in [Nat -> Int]
    /\ pos[from] = 0 /\ pos[Len(frames)] = Len(w)
    /\ \A i, j \in from .. Len(frames) : i <= j => pos[i] <= pos[j]
    /\ \A i \in from + 1 .. Len(frames) :
          /\ pos[i] = pos[i - 1] + Len(FrameOf(frames[i]))
          /\ \A c \in 1 .. Len(FrameOf(frames[i])) :
                w[pos[i - 1] + c] = FrameOf(frames[i])[c]

(* What the client has written and the reader has not consumed.            *)
Unread == head \o (net \o todo)

(* The header before the body is one that passed the checks on it.         *)
HeadChecked ==
    head # <<>> => /\ Len(head) = 1
                   /\ ~ TooLarge(head[1]) /\ ~ head[1].size < HeaderSize

StreamTyped ==
    /\ framed \in Seq(Sent) /\ got \in Seq(Sets)
    /\ todo \in Seq(Cells) /\ net \in Seq(Cells) /\ head \in Seq(Cells)
    /\ conn \in {"open", "half", "closed", "aborted"}

StreamInv ==
    /\ StreamTyped
    /\ FramesAligned
    /\ Len(got) <= Len(framed)
    /\ HeadChecked
    /\ conn \in {"open", "half"} =>
          \E pos : CutAt(Unread, framed, Len(got), pos)

(* A frame: the header, the mark of the compression, the payload.          *)
LEMMA FrameFacts ==
    ASSUME NEW x \in Sent
    PROVE  LET b == MarshalSet(x.set)
               f == FrameOf(x) IN
           /\ Len(b) \in Nat /\ b \in Seq(Range(b))
           /\ f \in Seq(Cells)
           /\ Len(f) = Len(b) + 2
           /\ f[1].size = CASE x.fault = "too_large" -> MaxSize + 1
                            [] x.fault = "too_small" -> 0
                            [] OTHER -> Len(b) + 2
           /\ f[1].payloadLen = Len(b) + (IF x.fault = "wrong_len" THEN 1 ELSE 0)
           /\ f[2] = IF x.fault = "not_zlib" THEN "junk" ELSE "zlib"
           /\ \A c \in 1 .. Len(b) : f[c + 2] = b[c]
<1> DEFINE b == MarshalSet(x.set)
           f == FrameOf(x)
           mark == IF x.fault = "not_zlib" THEN "junk" ELSE "zlib"
           body == <<mark>> \o b
           size == CASE x.fault = "too_large" -> MaxSize + 1
                     [] x.fault = "too_small" -> HeaderSize - 1
                     [] OTHER -> Len(body) + HeaderSize
           len == Len(b) + (IF x.fault = "wrong_len" THEN 1 ELSE 0)
           hd == [size |-> size, payloadLen |-> len]
<1>1. x.set \in Sets /\ x.fault \in {"none"} \cup Faults
  BY DEF Sent
<1>2. Len(b) \in Nat /\ b = [i \in 1 .. Len(b) |-> b[i]]
  BY <1>1, CodecAssumption
<1>3. f = <<hd>> \o body
  BY DEF FrameOf, Frame, Deflate
<1> HIDE DEF b, f, mark, hd
<1>4. b \in Seq(Range(b))
  <2> DEFINE S == Range(b)
  <2>1. b \in [1 .. Len(b) -> S]
    BY <1>2 DEF Range
  <2> HIDE DEF S
  <2>2. b \in Seq(S)
    BY <1>2, <2>1, SeqDef
  <2> QED BY <2>2 DEF S
<1>5. PICK S : S = Range(b) \cup {mark, hd}
  OBVIOUS
<1>6. b \in Seq(S) /\ mark \in S /\ hd \in S
  BY <1>4, <1>5, SeqMonotonic
<1>7. <<mark>> \in Seq(S) /\ <<hd>> \in Seq(S)
  BY <1>6
<1>8. /\ body \in Seq(S) /\ Len(body) = Len(b) + 1
      /\ body[1] = mark
      /\ \A c \in 1 .. Len(b) : body[c + 1] = b[c]
  BY <1>2, <1>6, <1>7, ConcatProperties
<1> HIDE DEF body
<1>9. /\ f \in Seq(S) /\ Len(f) = Len(b) + 2
      /\ f[1] = hd /\ f[2] = mark
      /\ \A c \in 1 .. Len(b) : f[c + 2] = b[c]
  <2>1. /\ f \in Seq(S) /\ Len(f) = 1 + Len(body)
        /\ \A c \in 1 .. 1 + Len(body) :
              f[c] = IF c <= 1 THEN <<hd>>[c] ELSE body[c - 1]
    BY <1>3, <1>7, <1>8, ConcatProperties
  <2>2. f[1] = hd /\ f[2] = mark
    BY <1>2, <1>8, <2>1, SMTT(30)
  <2>3. ASSUME NEW c \in 1 .. Len(b) PROVE f[c + 2] = b[c]
    <3>1. f[c + 2] = body[c + 1]
      BY <1>2, <1>8, <2>1, SMTT(30)
    <3> QED BY <1>8, <3>1
  <2> QED
    BY <1>2, <1>8, <2>1, <2>2, <2>3
<1>10. f \in Seq(Cells)
  <2>1. Range(f) \subseteq Cells
    BY DEF Cells, f
  <2>2. f \in [1 .. Len(f) -> Cells] /\ Len(f) \in Nat
    BY <1>2, <1>9, <2>1, LenProperties DEF Range
  <2> QED
    BY <2>2, SeqDef
<1>11. /\ hd.size = CASE x.fault = "too_large" -> MaxSize + 1
                      [] x.fault = "too_small" -> 0
                      [] OTHER -> Len(b) + 2
       /\ hd.payloadLen = len
  BY <1>2, <1>8 DEF hd, HeaderSize
<1> QED
  BY <1>2, <1>4, <1>9, <1>10, <1>11 DEF b, f, mark

(* A frame written goes behind what is unread.                             *)
LEMMA CutSend ==
    ASSUME NEW w \in Seq(Cells), NEW frames \in Seq(Sent), NEW x \in Sent,
           NEW from \in 0 .. Len(frames), NEW pos, CutAt(w, frames, from, pos)
    PROVE  \E pos2 : CutAt(w \o FrameOf(x), Append(frames, x), from, pos2)
<1> DEFINE n == Len(frames)
           f == FrameOf(x)
           l == Len(f)
           w2 == w \o f
           frames2 == Append(frames, x)
           pos2 == [pos EXCEPT ![n + 1] = Len(w) + l]
<1>1. n \in Nat /\ Len(w) \in Nat /\ from \in Nat
  BY LenProperties
<1>2. f \in Seq(Cells) /\ l \in Nat
  BY FrameFacts, LenProperties
<1>3. /\ Len(frames2) = n + 1 /\ frames2[n + 1] = x
      /\ \A i \in 1 .. n : frames2[i] = frames[i]
  BY AppendProperties
<1> HIDE DEF f, n, frames2
<1>4. /\ Len(w2) = Len(w) + l
      /\ \A c \in 1 .. Len(w) : w2[c] = w[c]
      /\ \A c \in 1 .. l : w2[Len(w) + c] = f[c]
  BY <1>1, <1>2, ConcatProperties
<1> HIDE DEF w2, l
<1>5. /\ pos \in [Nat -> Int] /\ pos[from] = 0 /\ pos[n] = Len(w)
      /\ \A i, j \in from .. n : i <= j => pos[i] <= pos[j]
      /\ \A i \in from + 1 .. n :
            /\ pos[i] = pos[i - 1] + Len(FrameOf(frames[i]))
            /\ \A c \in 1 .. Len(FrameOf(frames[i])) :
                  w[pos[i - 1] + c] = FrameOf(frames[i])[c]
  BY DEF CutAt, n
<1>6. /\ pos2 \in [Nat -> Int] /\ pos2[n + 1] = Len(w) + l
      /\ \A i \in 0 .. n : pos2[i] = pos[i]
  BY <1>1, <1>2, <1>5
<1> HIDE DEF pos2
<1>7. from \in 0 .. n
  BY DEF n
<1>8. pos2[from] = 0 /\ pos2[n + 1] = Len(w2)
  BY <1>1, <1>4, <1>5, <1>6, <1>7
<1>9. \A i, j \in from .. n + 1 : i <= j => pos2[i] <= pos2[j]
  <2> SUFFICES ASSUME NEW i \in from .. n + 1, NEW j \in from .. n + 1, i <= j
               PROVE  pos2[i] <= pos2[j]
    OBVIOUS
  <2>1. CASE j <= n
    BY <1>1, <1>5, <1>6, <1>7, <2>1, SMTT(30)
  <2>2. CASE j = n + 1 /\ i <= n
    <3>1. n \in from .. n /\ i \in from .. n
      BY <1>1, <1>7, <2>2
    <3>2. pos[i] <= Len(w) /\ pos[i] \in Int
      BY <1>1, <1>5, <3>1
    <3>3. pos2[i] = pos[i]
      BY <1>1, <1>6, <3>1
    <3> QED
      BY <1>1, <1>2, <1>6, <2>2, <3>2, <3>3, SMTT(30) DEF l
  <2>3. CASE i = n + 1
    <3>1. j = n + 1
      BY <1>1, <1>7, <2>3
    <3> QED
      BY <1>1, <1>2, <1>6, <2>3, <3>1
  <2> QED BY <1>1, <1>7, <2>1, <2>2, <2>3
<1>10. ASSUME NEW i \in from + 1 .. n + 1
       PROVE  /\ pos2[i] = pos2[i - 1] + Len(FrameOf(frames2[i]))
              /\ \A c \in 1 .. Len(FrameOf(frames2[i])) :
                    w2[pos2[i - 1] + c] = FrameOf(frames2[i])[c]
  <2>1. CASE i = n + 1
    <3>1. frames2[i] = x /\ pos2[i - 1] = Len(w) /\ pos2[i] = Len(w) + l
      BY <1>1, <1>3, <1>5, <1>6, <2>1
    <3>2. FrameOf(frames2[i]) = f
      BY <3>1 DEF f
    <3> QED
      BY <1>4, <3>1, <3>2 DEF l
  <2>2. CASE i <= n
    <3>1. /\ i \in from + 1 .. n /\ i \in 1 .. n /\ i - 1 \in 0 .. n
          /\ i - 1 \in from .. n /\ i \in from .. n /\ from \in from .. n
          /\ n \in from .. n /\ i - 1 \in Nat /\ i \in Nat
      BY <1>1, <1>7, <2>2
    <3>2. frames2[i] = frames[i] /\ pos2[i - 1] = pos[i - 1] /\ pos2[i] = pos[i]
      BY <1>1, <1>3, <1>6, <3>1, SMTT(30)
    <3>3. frames[i] \in Sent
      BY <3>1, ElementOfSeq DEF n
    <3>4. Len(FrameOf(frames[i])) \in Nat
      BY <3>3, FrameFacts, LenProperties
    <3>5. 0 <= pos[i - 1] /\ pos[i] <= Len(w) /\ pos[i - 1] \in Int
      <4>1. pos[from] <= pos[i - 1] /\ pos[i] <= pos[n]
        BY <1>1, <1>5, <3>1
      <4> QED BY <1>5, <3>1, <4>1
    <3>6. ASSUME NEW c \in 1 .. Len(FrameOf(frames[i]))
          PROVE  w2[pos[i - 1] + c] = FrameOf(frames[i])[c]
      <4>1. /\ pos[i] = pos[i - 1] + Len(FrameOf(frames[i]))
            /\ w[pos[i - 1] + c] = FrameOf(frames[i])[c]
        BY <1>5, <3>1
      <4>2. pos[i - 1] + c \in 1 .. Len(w)
        BY <1>1, <3>4, <3>5, <4>1, SMTT(30)
      <4> QED
        BY <1>4, <4>1, <4>2
    <3> QED
      BY <1>5, <3>1, <3>2, <3>6
  <2> QED BY <1>1, <1>7, <2>1, <2>2
<1>11. CutAt(w2, frames2, from, pos2)
  BY <1>3, <1>6, <1>8, <1>9, <1>10 DEF CutAt
<1> QED
  BY <1>11 DEF w2, frames2, f

(* A position in what is behind the first l cells.                         *)
LEMMA Shifted ==
    ASSUME NEW a \in Int, NEW l \in Nat, NEW m \in Nat, NEW k \in Nat,
           NEW c \in 1 .. m, l <= a, a + m <= l + k
    PROVE  (a - l) + c \in 1 .. k /\ l + ((a - l) + c) = a + c
OBVIOUS

(* A frame that has been read is gone from what is unread.                 *)
LEMMA CutRead ==
    ASSUME NEW w \in Seq(Cells), NEW w2 \in Seq(Cells), NEW frames \in Seq(Sent),
           NEW from \in 0 .. Len(frames) - 1, NEW pos, CutAt(w, frames, from, pos),
           NEW l, l = Len(FrameOf(frames[from + 1])),
           Len(w) = l + Len(w2),
           \A c \in 1 .. Len(w2) : w2[c] = w[l + c]
    PROVE  \E pos2 : CutAt(w2, frames, from + 1, pos2)
<1> DEFINE n == Len(frames)
           pos2 == [i \in Nat |-> pos[i] - l]
<1>1. n \in Nat /\ Len(w) \in Nat /\ Len(w2) \in Nat /\ from \in Nat /\ from < n
  BY LenProperties
<1>2. from + 1 \in 1 .. n /\ frames[from + 1] \in Sent
  BY <1>1, ElementOfSeq
<1>3. l \in Nat
  BY <1>2, FrameFacts, LenProperties
<1>4. /\ pos \in [Nat -> Int] /\ pos[from] = 0 /\ pos[n] = Len(w)
      /\ \A i, j \in from .. n : i <= j => pos[i] <= pos[j]
      /\ \A i \in from + 1 .. n :
            /\ pos[i] = pos[i - 1] + Len(FrameOf(frames[i]))
            /\ \A c \in 1 .. Len(FrameOf(frames[i])) :
                  w[pos[i - 1] + c] = FrameOf(frames[i])[c]
  BY DEF CutAt
<1> HIDE DEF n
<1>5. pos2 \in [Nat -> Int] /\ \A i \in Nat : pos2[i] = pos[i] - l
  BY <1>3, <1>4
<1> HIDE DEF pos2
<1>6. pos[from + 1] = l
  <2>1. from + 1 \in from + 1 .. n /\ from + 1 - 1 = from
    BY <1>1
  <2>2. pos[from + 1] = pos[from + 1 - 1] + Len(FrameOf(frames[from + 1]))
    BY <1>4, <2>1
  <2> QED BY <1>3, <1>4, <2>1, <2>2
<1>7. pos2[from + 1] = 0 /\ pos2[n] = Len(w2)
  <2>1. from + 1 \in Nat
    BY <1>1
  <2>2. pos2[from + 1] = pos[from + 1] - l /\ pos2[n] = pos[n] - l
    BY <1>1, <1>5, <2>1
  <2>3. Len(w) = l + Len(w2)
    OBVIOUS
  <2> QED BY <1>1, <1>3, <1>4, <1>6, <2>2, <2>3
<1>8. \A i, j \in from + 1 .. n : i <= j => pos2[i] <= pos2[j]
  <2> SUFFICES ASSUME NEW i \in from + 1 .. n, NEW j \in from + 1 .. n, i <= j
               PROVE  pos2[i] <= pos2[j]
    OBVIOUS
  <2>1. /\ i \in from .. n /\ j \in from .. n /\ i \in Nat /\ j \in Nat
    BY <1>1
  <2>2. pos[i] <= pos[j] /\ pos[i] \in Int /\ pos[j] \in Int
    BY <1>4, <2>1
  <2>3. pos2[i] = pos[i] - l /\ pos2[j] = pos[j] - l
    BY <1>5, <2>1
  <2> QED BY <1>3, <2>2, <2>3
<1>9. ASSUME NEW i \in from + 2 .. n
      PROVE  /\ pos2[i] = pos2[i - 1] + Len(FrameOf(frames[i]))
             /\ \A c \in 1 .. Len(FrameOf(frames[i])) :
                   w2[pos2[i - 1] + c] = FrameOf(frames[i])[c]
  <2>1. /\ i \in from + 1 .. n /\ i - 1 \in from .. n /\ i \in from .. n
        /\ from + 1 \in from .. n /\ n \in from .. n /\ i \in 1 .. n
        /\ i - 1 \in Nat /\ i \in Nat /\ from + 1 <= i - 1
    BY <1>1
  <2>2. frames[i] \in Sent
    BY <2>1, ElementOfSeq DEF n
  <2>3. Len(FrameOf(frames[i])) \in Nat
    BY <2>2, FrameFacts, LenProperties
  <2>4. l <= pos[i - 1] /\ pos[i] <= Len(w) /\ pos[i - 1] \in Int /\ pos[i] \in Int
    <3>1. \A k, j \in from .. n : k <= j => pos[k] <= pos[j]
      BY <1>4
    <3>2. pos[from + 1] <= pos[i - 1]
      BY <2>1, <3>1
    <3>3. pos[i] <= pos[n]
      <4>1. i <= n
        BY <1>1
      <4> QED BY <2>1, <3>1, <4>1
    <3> QED BY <1>4, <1>6, <2>1, <3>2, <3>3
  <2>5. pos2[i] = pos[i] - l /\ pos2[i - 1] = pos[i - 1] - l
        /\ pos[i] = pos[i - 1] + Len(FrameOf(frames[i]))
    BY <1>4, <1>5, <2>1
  <2>6. ASSUME NEW c \in 1 .. Len(FrameOf(frames[i]))
        PROVE  w2[pos2[i - 1] + c] = FrameOf(frames[i])[c]
    <3>1. /\ pos2[i - 1] + c \in 1 .. Len(w2)
          /\ l + (pos2[i - 1] + c) = pos[i - 1] + c
      <4>1. PICK m, a : m = Len(FrameOf(frames[i])) /\ a = pos[i - 1]
        OBVIOUS
      <4>2. /\ a \in Int /\ m \in Nat /\ c \in 1 .. m /\ l <= a
            /\ a + m <= l + Len(w2) /\ pos2[i - 1] = a - l
        BY <2>3, <2>4, <2>5, <4>1
      <4>3. (a - l) + c \in 1 .. Len(w2) /\ l + ((a - l) + c) = a + c
        BY <1>1, <1>3, <4>2, Shifted
      <4> QED
        BY <4>1, <4>2, <4>3
    <3>2. w[pos[i - 1] + c] = FrameOf(frames[i])[c]
      BY <1>4, <2>1
    <3> QED BY <3>1, <3>2
  <2>7. pos2[i] = pos2[i - 1] + Len(FrameOf(frames[i]))
    BY <1>3, <2>3, <2>4, <2>5, SMTT(30)
  <2> QED
    BY <2>6, <2>7
<1>10. CutAt(w2, frames, from + 1, pos2)
  <2>1. from + 1 + 1 = from + 2
    BY <1>1
  <2> QED
    BY <1>5, <1>7, <1>8, <1>9, <2>1 DEF CutAt, n
<1> QED BY <1>10

(* Pieces of a sequence.                                                   *)
LEMMA Pieces ==
    ASSUME NEW S, NEW s \in Seq(S), NEW n \in 0 .. Len(s)
    PROVE  /\ SubSeq(s, 1, n) \in Seq(S) /\ Len(SubSeq(s, 1, n)) = n
           /\ \A c \in 1 .. n : SubSeq(s, 1, n)[c] = s[c]
           /\ SubSeq(s, n + 1, Len(s)) \in Seq(S)
           /\ Len(SubSeq(s, n + 1, Len(s))) = Len(s) - n
           /\ \A c \in 1 .. Len(s) - n : SubSeq(s, n + 1, Len(s))[c] = s[n + c]
           /\ SubSeq(s, 1, n) \o SubSeq(s, n + 1, Len(s)) = s
<1> DEFINE l == Len(s)
<1>1. l \in Nat /\ n \in Int /\ n + 1 \in Int /\ n \in 0 .. l
  BY LenProperties
<1>2. \A i \in 1 .. l : s[i] \in S
  BY ElementOfSeq
<1>3. /\ SubSeq(s, 1, n) \in Seq(S)
      /\ Len(SubSeq(s, 1, n)) = IF 1 <= n THEN n - 1 + 1 ELSE 0
      /\ \A c \in 1 .. n - 1 + 1 : SubSeq(s, 1, n)[c] = s[1 + c - 1]
  <2> HIDE DEF l
  <2>1. \A i \in 1 .. n : s[i] \in S
    BY <1>1, <1>2
  <2> QED BY <1>1, <2>1, SubSeqProperties
<1>4. SubSeq(s, 1, n) \o SubSeq(s, n + 1, l) = s
  <2>1. SubSeq(s, 1, n) \o SubSeq(s, n + 1, l) = SubSeq(s, 1, l)
    <3>1. 1 \in 1 .. l + 1 /\ n \in 1 - 1 .. l /\ l \in n .. l
      BY <1>1
    <3> QED BY <3>1, ConcatAdjacentSubSeq
  <2> QED BY <2>1, SubSeqFull
<1> HIDE DEF l
<1>5. /\ SubSeq(s, n + 1, l) \in Seq(S)
      /\ Len(SubSeq(s, n + 1, l)) = IF n + 1 <= l THEN l - (n + 1) + 1 ELSE 0
      /\ \A c \in 1 .. l - (n + 1) + 1 : SubSeq(s, n + 1, l)[c] = s[n + 1 + c - 1]
  <2>1. \A i \in n + 1 .. l : s[i] \in S
    BY <1>1, <1>2
  <2> QED BY <1>1, <2>1, SubSeqProperties
<1>6. Len(SubSeq(s, 1, n)) = n /\ \A c \in 1 .. n : SubSeq(s, 1, n)[c] = s[c]
  BY <1>1, <1>3
<1>7. Len(SubSeq(s, n + 1, l)) = l - n
  BY <1>1, <1>5
<1>8. ASSUME NEW c \in 1 .. l - n PROVE SubSeq(s, n + 1, l)[c] = s[n + c]
  <2>1. c \in 1 .. l - (n + 1) + 1 /\ n + 1 + c - 1 = n + c
    BY <1>1
  <2> QED BY <1>5, <2>1
<1> QED
  BY <1>3, <1>4, <1>5, <1>6, <1>7, <1>8 DEF l

(* The header the reader has is that of the next frame; what it takes for  *)
(* the body is that of this frame, or nothing.                             *)
LEMMA HeaderRead ==
    ASSUME NEW hd, <<hd>> \in Seq(Cells), NEW nt \in Seq(Cells), NEW td \in Seq(Cells),
           NEW frames \in Seq(Sent), NEW from \in 0 .. Len(frames),
           NEW pos, CutAt(<<hd>> \o (nt \o td), frames, from, pos),
           ~ TooLarge(hd), ~ hd.size < HeaderSize,
           Len(nt) >= BodyLen(hd)
    PROVE  LET x == frames[from + 1]
               f == FrameOf(x)
               n == BodyLen(hd) IN
           /\ from < Len(frames) /\ x \in Sent
           /\ hd = f[1]
           /\ n \in 0 .. Len(nt)
           /\ x.fault # "too_small"
           /\ x.fault = "too_large" => n = 0
           /\ x.fault # "too_large" => n = Len(f) - 1
           /\ \A c \in 1 .. n : nt[c] = f[c + 1]
<1> DEFINE w == <<hd>> \o (nt \o td)
           n == BodyLen(hd)
           x == frames[from + 1]
           f == FrameOf(x)
           b == MarshalSet(x.set)
           k == Len(frames)
<1>1. /\ nt \o td \in Seq(Cells)
      /\ Len(nt) \in Nat /\ Len(td) \in Nat /\ k \in Nat /\ from \in Nat
      /\ Len(nt \o td) = Len(nt) + Len(td)
      /\ \A c \in 1 .. Len(nt) : (nt \o td)[c] = nt[c]
  BY LenProperties, ConcatProperties
<1>2. /\ w \in Seq(Cells) /\ Len(w) = 1 + Len(nt) + Len(td)
      /\ w[1] = hd /\ \A c \in 1 .. Len(nt) : w[c + 1] = nt[c]
  <2>1. /\ w \in Seq(Cells) /\ Len(w) = 1 + Len(nt \o td)
        /\ \A c \in 1 .. 1 + Len(nt \o td) :
              w[c] = IF c <= 1 THEN <<hd>>[c] ELSE (nt \o td)[c - 1]
    BY <1>1, ConcatProperties
  <2>2. w[1] = hd
    BY <1>1, <2>1
  <2>3. ASSUME NEW c \in 1 .. Len(nt) PROVE w[c + 1] = nt[c]
    <3>1. w[c + 1] = (nt \o td)[c]
      BY <1>1, <2>1
    <3> QED BY <1>1, <3>1
  <2> QED
    BY <1>1, <2>1, <2>2, <2>3
<1> HIDE DEF w, k
<1>3. /\ pos \in [Nat -> Int] /\ pos[from] = 0 /\ pos[k] = Len(w)
      /\ \A i, j \in from .. k : i <= j => pos[i] <= pos[j]
      /\ \A i \in from + 1 .. k :
            /\ pos[i] = pos[i - 1] + Len(FrameOf(frames[i]))
            /\ \A c \in 1 .. Len(FrameOf(frames[i])) :
                  w[pos[i - 1] + c] = FrameOf(frames[i])[c]
  BY DEF CutAt, w, k
<1>4. from < k
  <2>1. from # k /\ from <= k
    <3>1. Len(w) # 0
      BY <1>1, <1>2
    <3> QED BY <1>1, <1>3, <3>1 DEF k
  <2> QED BY <1>1, <2>1
<1>5. x \in Sent
  BY <1>1, <1>4, ElementOfSeq DEF k
<1>6. /\ Len(b) \in Nat /\ b \in Seq(Range(b))
      /\ f \in Seq(Cells)
      /\ Len(f) = Len(b) + 2
      /\ f[1].size = CASE x.fault = "too_large" -> MaxSize + 1
                       [] x.fault = "too_small" -> 0
                       [] OTHER -> Len(b) + 2
      /\ f[1].payloadLen = Len(b) + (IF x.fault = "wrong_len" THEN 1 ELSE 0)
      /\ f[2] = IF x.fault = "not_zlib" THEN "junk" ELSE "zlib"
      /\ \A c \in 1 .. Len(b) : f[c + 2] = b[c]
  BY <1>5, FrameFacts
<1> HIDE DEF f, b, x
<1>7. Len(f) <= Len(w) /\ \A c \in 1 .. Len(f) : w[c] = f[c]
  <2>1. from + 1 \in from + 1 .. k /\ from + 1 - 1 = from
        /\ from + 1 \in from .. k /\ k \in from .. k /\ from + 1 <= k
    BY <1>1, <1>4
  <2>2. \A i \in from + 1 .. k :
            /\ pos[i] = pos[i - 1] + Len(FrameOf(frames[i]))
            /\ \A c \in 1 .. Len(FrameOf(frames[i])) :
                  w[pos[i - 1] + c] = FrameOf(frames[i])[c]
    BY <1>3
  <2>3. /\ pos[from + 1] = pos[from + 1 - 1] + Len(f)
        /\ \A c \in 1 .. Len(f) : w[pos[from + 1 - 1] + c] = f[c]
    BY <2>1, <2>2 DEF f, x
  <2>4. pos[from + 1 - 1] = 0
    BY <1>3, <2>1
  <2>5. /\ pos[from + 1] = Len(f)
        /\ \A c \in 1 .. Len(f) : w[c] = f[c]
    BY <1>6, <2>3, <2>4
  <2>6. \A i, j \in from .. k : i <= j => pos[i] <= pos[j]
    BY <1>3
  <2>7. pos[from + 1] <= pos[k]
    BY <2>1, <2>6
  <2> QED
    BY <1>3, <2>5, <2>7
<1>8. hd = f[1]
  <2>1. 1 \in 1 .. Len(f)
    BY <1>6
  <2> QED BY <1>2, <1>7, <2>1
<1>9. x.fault # "too_small"
  BY <1>6, <1>8 DEF HeaderSize
<1>10. CASE x.fault = "too_large"
  <2>1. hd.size = MaxSize + 1 /\ MaxSize \in Nat
    BY <1>6, <1>8, <1>10, FramesAssumption
  <2>2. MaxSize = 0
    BY <2>1 DEF TooLarge
  <2>3. n = 0
    BY <2>1, <2>2 DEF BodyLen, HeaderSize
  <2> HIDE DEF n
  <2> QED
    BY <1>1, <1>4, <1>5, <1>8, <1>10, <2>3 DEF k, x, f, n
<1>11. CASE x.fault # "too_large"
  <2>1. hd.size = Len(b) + 2
    BY <1>6, <1>8, <1>9, <1>11
  <2>2. n = Len(b) + 1 /\ n \in 0 .. Len(nt) /\ n = Len(f) - 1
    BY <1>1, <1>6, <2>1 DEF BodyLen, HeaderSize
  <2> HIDE DEF n
  <2>3. ASSUME NEW c \in 1 .. n PROVE nt[c] = f[c + 1]
    <3>1. c \in 1 .. Len(nt) /\ c + 1 \in 1 .. Len(f)
      BY <1>1, <1>6, <2>2
    <3> QED
      BY <1>2, <1>7, <3>1
  <2> QED
    BY <1>4, <1>5, <1>8, <1>9, <1>11, <2>2, <2>3 DEF k, x, f, n
<1> QED BY <1>10, <1>11

(* The reader accepts the body: it has read the next frame, which was      *)
(* readable, and nothing else.                                             *)
LEMMA FrameRead ==
    ASSUME NEW x \in Sent, NEW body, NEW n, n \in Nat, body \in Seq(Cells),
           Len(body) = n,
           x.fault # "too_small",
           x.fault = "too_large" => n = 0,
           x.fault # "too_large" => n = Len(FrameOf(x)) - 1,
           \A c \in 1 .. n : body[c] = FrameOf(x)[c + 1],
           StreamOK(FrameOf(x)[1], body)
    PROVE  /\ Readable(x)
           /\ UnmarshalSet(Inflate(body)) = x.set
           /\ n + 1 = Len(FrameOf(x))
<1> DEFINE f == FrameOf(x)
           b == MarshalSet(x.set)
<1>1. /\ Len(b) \in Nat /\ b \in Seq(Range(b))
      /\ Len(f) = Len(b) + 2
      /\ f[1].payloadLen = Len(b) + (IF x.fault = "wrong_len" THEN 1 ELSE 0)
      /\ f[2] = IF x.fault = "not_zlib" THEN "junk" ELSE "zlib"
      /\ \A c \in 1 .. Len(b) : f[c + 2] = b[c]
  BY FrameFacts
<1>2. /\ x.fault \in {"none", "not_zlib", "too_large", "too_small", "wrong_len"}
      /\ x.set \in Sets
  BY FramesAssumption DEF Sent
<1>3. body # << >> /\ Head(body) = "zlib"
  BY DEF StreamOK, Inflates
<1>4. n > 0 /\ body[1] = "zlib"
  <2>1. n # 0
    BY <1>3, EmptySeq
  <2> QED BY <1>3, <2>1
<1>5. x.fault # "too_large"
  BY <1>4
<1>6. n = Len(b) + 1 /\ n + 1 = Len(f)
  BY <1>1, <1>5
<1>7. \A c \in 1 .. n : body[c] = f[c + 1]
  OBVIOUS
<1>8. StreamOK(f[1], body)
  OBVIOUS
<1> HIDE DEF f, b
<1>9. x.fault # "not_zlib"
  <2>1. 1 \in 1 .. n /\ f[1 + 1] = f[2]
    BY <1>4
  <2>2. f[2] = "zlib"
    BY <1>4, <1>7, <2>1
  <2> QED BY <1>1, <2>2
<1>10. Inflate(body) = b
  <2> DEFINE t == Tail(body)
             S == Cells \cup Range(b)
  <2>1. /\ t \in Seq(Cells) /\ Len(t) = Len(b)
        /\ \A c \in 1 .. Len(b) : t[c] = body[c + 1]
    BY <1>1, <1>3, <1>6, HeadTailProperties
  <2> HIDE DEF t
  <2>2. ASSUME NEW c \in 1 .. Len(b) PROVE t[c] = b[c]
    <3>1. c + 1 \in 1 .. n /\ c + 1 + 1 = c + 2
      BY <1>1, <1>6
    <3>2. t[c] = f[c + 1 + 1]
      BY <1>7, <2>1, <3>1
    <3> QED
      BY <1>1, <3>1, <3>2
  <2>3. t \in Seq(S) /\ b \in Seq(S)
    BY <1>1, <2>1, SeqMonotonic
  <2>4. t = b
    <3> HIDE DEF S
    <3> QED BY <2>1, <2>2, <2>3, SeqEqual
  <2> QED BY <2>4 DEF Inflate, t
<1>11. Len(b) = f[1].payloadLen /\ UnmarshalOK(b)
  BY <1>8, <1>10 DEF StreamOK
<1>12. x.fault = "none"
  BY <1>1, <1>2, <1>5, <1>9, <1>11
<1>13. EndsInBytes(x.set) /\ UnmarshalSet(b) = x.set
  BY <1>2, <1>11, CodecAssumption DEF b
<1> QED
  BY <1>6, <1>10, <1>12, <1>13 DEF Readable, f

(* A connection begins with nothing written.                               *)
LEMMA StreamInitInv == StreamInit => StreamInv
<1> SUFFICES ASSUME StreamInit PROVE StreamInv
  OBVIOUS
<1>1. /\ todo = << >> /\ framed = << >> /\ net = << >> /\ head = << >>
      /\ got = << >> /\ conn = "open"
  BY DEF StreamInit
<1>2. StreamTyped /\ HeadChecked /\ Len(got) = 0 /\ Len(framed) = 0
  BY <1>1, EmptySeq DEF StreamTyped, HeadChecked
<1>3. FramesAligned
  BY <1>1 DEF FramesAligned
<1>4. CutAt(Unread, framed, Len(got), [i \in Nat |-> 0])
  <2>1. Len(Unread) = 0
    BY <1>1 DEF Unread
  <2> QED
    BY <1>2, <2>1 DEF CutAt
<1> QED
  BY <1>2, <1>3, <1>4 DEF StreamInv

(* The types that the steps below need of StreamInv.                       *)
LEMMA StreamFacts ==
    ASSUME StreamInv
    PROVE  /\ Len(got) \in Nat /\ Len(framed) \in Nat
           /\ Len(got) \in 0 .. Len(framed)
           /\ DOMAIN got = 1 .. Len(got) /\ DOMAIN framed = 1 .. Len(framed)
           /\ net \o todo \in Seq(Cells) /\ Unread \in Seq(Cells)
<1>1. /\ Len(got) \in Nat /\ Len(framed) \in Nat /\ Len(got) <= Len(framed)
      /\ DOMAIN got = 1 .. Len(got) /\ DOMAIN framed = 1 .. Len(framed)
  BY LenProperties DEF StreamInv, StreamTyped
<1>2. net \o todo \in Seq(Cells)
  BY ConcatProperties DEF StreamInv, StreamTyped
<1>3. Unread \in Seq(Cells)
  BY <1>2, ConcatProperties DEF StreamInv, StreamTyped, Unread
<1> QED
  BY <1>1, <1>2, <1>3

(* A client writes a frame.                                                *)
LEMMA SendFrameInv ==
    ASSUME StreamInv, NEW set \in Sets, NEW fault \in {"none"} \cup Faults,
           SendFrame(set, fault)
    PROVE  StreamInv'
<1> DEFINE x == [set |-> set, fault |-> fault]
           f == FrameOf(x)
<1>1. x \in Sent
  BY DEF Sent
<1>2. f \in Seq(Cells)
  BY <1>1, FrameFacts
<1>3. f = Frame(set, fault)
  BY DEF FrameOf
<1>4. /\ conn = "open" /\ todo = << >> /\ todo' = f
      /\ framed' = Append(framed, x)
      /\ UNCHANGED <<net, head, got, conn>>
  BY <1>3 DEF SendFrame
<1> HIDE DEF x, f
<1>5. StreamTyped
  BY DEF StreamInv
<1>6. /\ framed' \in Seq(Sent) /\ Len(framed') = Len(framed) + 1
      /\ \A i \in 1 .. Len(framed) : framed'[i] = framed[i]
      /\ DOMAIN framed' = 1 .. Len(framed')
  BY <1>1, <1>4, <1>5, AppendProperties, LenProperties DEF StreamTyped
<1>7. StreamTyped' /\ HeadChecked'
  BY <1>2, <1>4, <1>5, <1>6 DEF StreamTyped, StreamInv, HeadChecked
<1>8. FramesAligned' /\ Len(got') <= Len(framed')
  <2>1. FramesAligned
    BY DEF StreamInv
  <2> QED
    BY <1>4, <1>6, <2>1, StreamFacts DEF FramesAligned
<1>9. \E pos : CutAt(Unread', framed', Len(got'), pos)
  <2>1. PICK pos : CutAt(Unread, framed, Len(got), pos)
    BY <1>4 DEF StreamInv
  <2>2. Unread' = Unread \o f
    <3>1. net \o todo = net
      BY <1>4, <1>5, ConcatEmptySeq DEF StreamTyped
    <3>2. head \o (net \o f) = (head \o net) \o f
      BY <1>2, <1>5, ConcatAssociative, SMTT(30) DEF StreamTyped
    <3> QED
      BY <1>4, <3>1, <3>2 DEF Unread
  <2> QED
    BY <1>1, <1>4, <1>5, <2>1, <2>2, StreamFacts, CutSend DEF StreamTyped, f
<1> QED
  BY <1>7, <1>8, <1>9 DEF StreamInv

(* TCP delivers a piece of what was written.                               *)
LEMMA DeliverInv ==
    ASSUME StreamInv, NEW n \in 1 .. Len(todo), Deliver(n)
    PROVE  StreamInv'
<1> DEFINE a == SubSeq(todo, 1, n)
           b == SubSeq(todo, n + 1, Len(todo))
<1>1. net' = net \o a /\ todo' = b /\ UNCHANGED <<framed, head, got, conn>>
  BY DEF Deliver
<1>2. StreamTyped
  BY DEF StreamInv
<1>3. a \in Seq(Cells) /\ b \in Seq(Cells) /\ a \o b = todo
  <2>1. n \in 0 .. Len(todo) /\ todo \in Seq(Cells)
    BY <1>2 DEF StreamTyped
  <2> QED BY <2>1, Pieces
<1> HIDE DEF a, b
<1>4. net' \in Seq(Cells)
  BY <1>1, <1>2, <1>3, ConcatProperties DEF StreamTyped
<1>5. Unread' = Unread
  <2>1. (net \o a) \o b = net \o (a \o b)
    <3>1. net \in Seq(Cells)
      BY <1>2 DEF StreamTyped
    <3>2. \A s, t, u \in Seq(Cells) : (s \o t) \o u = s \o (t \o u)
      BY ConcatAssociative, SMTT(30)
    <3> QED BY <1>3, <3>1, <3>2, Zenon
  <2> QED BY <1>1, <1>3, <2>1 DEF Unread
<1> QED
  BY <1>1, <1>2, <1>3, <1>4, <1>5
     DEF StreamInv, StreamTyped, FramesAligned, HeadChecked

(* The reader takes a header, or gives up on it.                           *)
LEMMA ReadHeadInv ==
    ASSUME StreamInv, ReadHead
    PROVE  StreamInv'
<1> DEFINE h == Head(net)
<1>1. /\ conn \in {"open", "half"} /\ head = << >> /\ net # << >>
      /\ net' = Tail(net) /\ UNCHANGED <<todo, framed, got>>
      /\ IF TooLarge(h) THEN conn' = "closed" /\ UNCHANGED head
         ELSE IF h.size < HeaderSize THEN conn' = "aborted" /\ UNCHANGED head
         ELSE head' = <<h>> /\ UNCHANGED conn
  BY DEF ReadHead
<1>2. StreamTyped
  BY DEF StreamInv
<1>3. h \in Cells /\ Tail(net) \in Seq(Cells) /\ net = <<h>> \o Tail(net)
  BY <1>1, <1>2, HeadTailProperties DEF StreamTyped
<1> HIDE DEF h
<1>4. <<h>> \in Seq(Cells) /\ Len(<<h>>) = 1 /\ <<h>>[1] = h
  BY <1>3
<1>5. FramesAligned' /\ Len(got') <= Len(framed')
  BY <1>1 DEF StreamInv, FramesAligned
<1>6. CASE TooLarge(h) \/ h.size < HeaderSize
  <2>1. conn' \in {"closed", "aborted"} /\ head' = << >>
    BY <1>1, <1>6
  <2>2. StreamTyped' /\ HeadChecked'
    BY <1>1, <1>2, <1>3, <2>1 DEF StreamTyped, HeadChecked
  <2> QED
    BY <1>5, <2>1, <2>2 DEF StreamInv
<1>7. CASE ~ TooLarge(h) /\ ~ h.size < HeaderSize
  <2>1. head' = <<h>> /\ conn' = conn
    BY <1>1, <1>7
  <2>2. StreamTyped' /\ HeadChecked'
    BY <1>1, <1>2, <1>3, <1>4, <1>7, <2>1
       DEF StreamTyped, HeadChecked, TooLarge
  <2>3. Unread' = Unread
    <3>1. <<h>> \o (Tail(net) \o todo) = (<<h>> \o Tail(net)) \o todo
      BY <1>2, <1>3, <1>4, ConcatAssociative, SMTT(30) DEF StreamTyped
    <3>2. << >> \o (net \o todo) = net \o todo
      BY StreamFacts, ConcatEmptySeq
    <3> QED
      BY <1>1, <1>3, <2>1, <3>1, <3>2 DEF Unread
  <2> QED
    BY <1>1, <1>5, <2>1, <2>2, <2>3 DEF StreamInv
<1> QED BY <1>6, <1>7

(* The reader takes a body, or gives up on it.                             *)
LEMMA ReadBodyInv ==
    ASSUME StreamInv, ReadBody
    PROVE  StreamInv'
<1> DEFINE hd == head[1]
           n == BodyLen(hd)
           body == SubSeq(net, 1, n)
           rest == SubSeq(net, n + 1, Len(net))
           k == Len(got)
<1>1. StreamTyped /\ FramesAligned /\ k <= Len(framed)
  BY DEF StreamInv
<1>2. /\ head # << >> /\ Len(head) = 1 /\ head = <<hd>>
      /\ ~ TooLarge(hd) /\ ~ hd.size < HeaderSize
      /\ Head(head) = hd
  BY <1>1 DEF StreamInv, HeadChecked, ReadBody, StreamTyped
<1>3. /\ conn \in {"open", "half"}
      /\ Len(net) >= n /\ net' = rest
      /\ IF StreamOK(hd, body)
         THEN got' = Append(got, UnmarshalSet(Inflate(body))) /\ UNCHANGED conn
         ELSE conn' = "closed" /\ UNCHANGED got
      /\ head' = << >> /\ UNCHANGED <<todo, framed>>
  BY <1>2 DEF ReadBody
<1> HIDE DEF n
<1>4. PICK pos : CutAt(Unread, framed, k, pos)
  BY <1>3 DEF StreamInv
<1> DEFINE x == framed[k + 1]
           f == FrameOf(x)
<1>5. /\ k < Len(framed) /\ x \in Sent
      /\ hd = f[1]
      /\ n \in 0 .. Len(net)
      /\ x.fault # "too_small"
      /\ x.fault = "too_large" => n = 0
      /\ x.fault # "too_large" => n = Len(f) - 1
      /\ \A c \in 1 .. n : net[c] = f[c + 1]
  <2>1. CutAt(<<hd>> \o (net \o todo), framed, k, pos)
    BY <1>2, <1>4 DEF Unread
  <2>2. /\ <<hd>> \in Seq(Cells) /\ net \in Seq(Cells) /\ todo \in Seq(Cells)
        /\ framed \in Seq(Sent) /\ k \in 0 .. Len(framed)
    BY <1>1, <1>2, StreamFacts DEF StreamTyped
  <2>3. ~ TooLarge(hd) /\ ~ hd.size < HeaderSize /\ Len(net) >= BodyLen(hd)
    BY <1>2, <1>3 DEF n
  <2> HIDE DEF hd, k
  <2> QED
    BY <2>1, <2>2, <2>3, HeaderRead, SMTT(30) DEF n
<1>6. /\ body \in Seq(Cells) /\ Len(body) = n
      /\ \A c \in 1 .. n : body[c] = net[c]
      /\ rest \in Seq(Cells) /\ Len(rest) = Len(net) - n
      /\ \A c \in 1 .. Len(net) - n : rest[c] = net[n + c]
  BY <1>1, <1>5, Pieces, SMTT(30) DEF StreamTyped
<1> HIDE DEF body, rest, x, f, hd, k
<1>7. CASE ~ StreamOK(hd, body)
  <2>1. conn' = "closed" /\ got' = got
    BY <1>3, <1>7
  <2>2. StreamTyped'
    BY <1>1, <1>3, <1>6, <2>1, EmptySeq DEF StreamTyped
  <2> QED
    BY <1>1, <1>3, <2>1, <2>2 DEF StreamInv, FramesAligned, HeadChecked, k
<1>8. CASE StreamOK(hd, body)
  <2>1. /\ Readable(x) /\ UnmarshalSet(Inflate(body)) = x.set
        /\ n + 1 = Len(f)
    <3>1. n \in Nat /\ \A c \in 1 .. n : body[c] = f[c + 1]
      BY <1>5, <1>6
    <3> QED
      BY <1>5, <1>6, <1>8, <3>1, FrameRead, ZenonT(60) DEF f
  <2>2. x.set \in Sets /\ got \in Seq(Sets) /\ k \in Nat
    BY <1>1, <1>5, StreamFacts DEF Sent, StreamTyped, k
  <2>3. got' = Append(got, x.set) /\ conn' = conn
    BY <1>3, <1>8, <2>1
  <2>4. /\ got' \in Seq(Sets) /\ Len(got') = k + 1
        /\ \A i \in 1 .. k : got'[i] = got[i]
        /\ got'[k + 1] = x.set
        /\ DOMAIN got' = 1 .. k + 1
    BY <2>2, <2>3, AppendProperties, LenProperties DEF k
  <2>5. StreamTyped' /\ HeadChecked'
    BY <1>1, <1>3, <1>6, <2>3, <2>4, EmptySeq DEF StreamTyped, HeadChecked
  <2>6. FramesAligned'
    <3> SUFFICES ASSUME NEW i \in 1 .. k + 1
                 PROVE  /\ i \in DOMAIN framed /\ Readable(framed[i])
                        /\ got'[i] = framed[i].set
      BY <1>3, <2>4 DEF FramesAligned
    <3>1. CASE i = k + 1
      <4>1. i \in DOMAIN framed
        BY <1>5, <2>2, <3>1, StreamFacts
      <4> QED BY <2>1, <2>4, <3>1, <4>1 DEF x
    <3>2. CASE i # k + 1
      <4>1. i \in 1 .. k /\ i \in DOMAIN got
        BY <2>2, <3>2, StreamFacts DEF k
      <4> QED
        BY <1>1, <2>4, <4>1 DEF FramesAligned
    <3> QED BY <3>1, <3>2
  <2>7. Len(got') <= Len(framed')
    BY <1>3, <1>5, <2>2, <2>4, StreamFacts
  <2>8. \E pos2 : CutAt(Unread', framed, k + 1, pos2)
    <3> DEFINE w == Unread
               w2 == rest \o todo
    <3>1. /\ net \in Seq(Cells) /\ todo \in Seq(Cells)
          /\ net \o todo \in Seq(Cells)
          /\ Len(net) \in Nat /\ Len(todo) \in Nat /\ Len(rest) \in Nat
          /\ <<hd>> \in Seq(Cells)
      BY <1>1, <1>2, <1>6, StreamFacts, LenProperties DEF StreamTyped
    <3>2. Unread' = w2
      <4>1. << >> \o (rest \o todo) = rest \o todo
        BY <1>6, <3>1, ConcatProperties, ConcatEmptySeq
      <4> QED BY <1>3, <4>1 DEF Unread
    <3>3. /\ w2 \in Seq(Cells) /\ Len(w2) = Len(rest) + Len(todo)
          /\ \A c \in 1 .. Len(rest) + Len(todo) :
                w2[c] = IF c <= Len(rest) THEN rest[c] ELSE todo[c - Len(rest)]
      BY <1>6, <3>1, ConcatProperties, SMTT(30)
    <3>4. /\ Len(net \o todo) = Len(net) + Len(todo)
          /\ \A c \in 1 .. Len(net) + Len(todo) :
                (net \o todo)[c] = IF c <= Len(net) THEN net[c]
                                   ELSE todo[c - Len(net)]
      BY <3>1, ConcatProperties
    <3>5. /\ w \in Seq(Cells) /\ Len(w) = 1 + Len(net) + Len(todo)
          /\ \A c \in 1 .. 1 + Len(net) + Len(todo) :
                w[c] = IF c <= 1 THEN <<hd>>[c] ELSE (net \o todo)[c - 1]
      <4>1. /\ <<hd>> \o (net \o todo) \in Seq(Cells)
            /\ Len(<<hd>> \o (net \o todo)) = 1 + Len(net \o todo)
            /\ \A c \in 1 .. 1 + Len(net \o todo) :
                  (<<hd>> \o (net \o todo))[c] =
                      IF c <= 1 THEN <<hd>>[c] ELSE (net \o todo)[c - 1]
        BY <3>1, ConcatProperties
      <4>2. w = <<hd>> \o (net \o todo)
        BY <1>2 DEF Unread
      <4> HIDE DEF w
      <4> QED BY <3>1, <3>4, <4>1, <4>2
    <3> HIDE DEF w, w2
    <3>6. Len(w) = (n + 1) + Len(w2)
      BY <1>5, <1>6, <3>1, <3>3, <3>5
    <3>7. ASSUME NEW c \in 1 .. Len(w2) PROVE w2[c] = w[(n + 1) + c]
      <4>1. /\ (n + 1) + c \in 1 .. 1 + Len(net) + Len(todo)
            /\ ~ (n + 1) + c <= 1 /\ (n + 1) + c - 1 = n + c
            /\ n + c \in 1 .. Len(net) + Len(todo)
            /\ c \in 1 .. Len(rest) + Len(todo)
        <5>1. /\ c \in 1 .. Len(rest) + Len(todo) /\ n \in Nat
              /\ Len(rest) = Len(net) - n
          BY <1>5, <1>6, <3>3
        <5> QED BY <3>1, <5>1
      <4>2. w[(n + 1) + c] = (net \o todo)[n + c]
        <5>1. PICK m : m = (n + 1) + c
          OBVIOUS
        <5>2. w[m] = IF m <= 1 THEN <<hd>>[m] ELSE (net \o todo)[m - 1]
          BY <3>5, <4>1, <5>1
        <5>3. ~ m <= 1 /\ m - 1 = n + c
          <6>1. n \in Nat /\ c \in Nat /\ c > 0
            BY <1>5, <3>3
          <6> QED BY <5>1, <6>1
        <5>4. w[m] = (net \o todo)[m - 1]
          BY <5>2, <5>3
        <5> QED BY <5>1, <5>3, <5>4
      <4>3. CASE c <= Len(rest)
        <5>1. n + c <= Len(net) /\ c \in 1 .. Len(net) - n
          BY <1>5, <1>6, <3>1, <4>1, <4>3, SMTT(30)
        <5> QED BY <1>6, <3>3, <3>4, <4>1, <4>2, <4>3, <5>1
      <4>4. CASE ~ c <= Len(rest)
        <5>1. ~ n + c <= Len(net) /\ (n + c) - Len(net) = c - Len(rest)
          BY <1>5, <1>6, <3>1, <4>1, <4>4
        <5> QED BY <3>3, <3>4, <4>1, <4>2, <4>4, <5>1
      <4> QED BY <4>3, <4>4
    <3>8. /\ k \in 0 .. Len(framed) - 1 /\ framed \in Seq(Sent)
          /\ CutAt(w, framed, k, pos) /\ n + 1 = Len(FrameOf(framed[k + 1]))
      BY <1>1, <1>4, <1>5, <2>1, <2>2, StreamFacts DEF StreamTyped, w, f, x
    <3>9. \E pos2 : CutAt(w2, framed, k + 1, pos2)
      <4>1. w \in Seq(Cells) /\ w2 \in Seq(Cells)
        BY <3>3, <3>5
      <4> QED BY <3>6, <3>7, <3>8, <4>1, CutRead
    <3> QED BY <3>2, <3>9
  <2> QED
    BY <1>3, <2>4, <2>5, <2>6, <2>7, <2>8 DEF StreamInv
<1> QED BY <1>7, <1>8

(* What happens to a connection keeps the invariant; the end of a stream   *)
(* and a dead connection only change what is not read any more.            *)
LEMMA StreamNextInv == StreamInv /\ [StreamNext]_streamVars => StreamInv'
<1> SUFFICES ASSUME StreamInv, [StreamNext]_streamVars PROVE StreamInv'
  OBVIOUS
<1>1. ASSUME NEW set \in Sets, NEW fault \in {"none"} \cup Faults, SendFrame(set, fault)
      PROVE  StreamInv'
  BY <1>1, SendFrameInv
<1>2. ASSUME NEW n \in 1 .. Len(todo), Deliver(n) PROVE StreamInv'
  BY <1>2, DeliverInv
<1>3. CASE ReadHead
  BY <1>3, ReadHeadInv
<1>4. CASE ReadBody
  BY <1>4, ReadBodyInv
<1>5. CASE HalfClose \/ ReadEOF
  BY <1>5 DEF HalfClose, ReadEOF, StreamInv, StreamTyped, FramesAligned,
              HeadChecked, Unread
<1>6. CASE UNCHANGED streamVars
  BY <1>6 DEF streamVars, StreamInv, StreamTyped, FramesAligned, HeadChecked, Unread
<1> QED
  BY <1>1, <1>2, <1>3, <1>4, <1>5, <1>6 DEF StreamNext, Dead

(* The connection loop gets the sets that were sent, unchanged and in      *)
(* order, and nothing of what follows a frame that cannot be read: for any *)
(* number of frames, wherever TCP cuts them, whatever else clients send,   *)
(* with or without a limit of the size.                                    *)
THEOREM FramesStayAligned == StreamSpec => []FramesAligned
<1>1. StreamInit => StreamInv
  BY StreamInitInv
<1>2. StreamInv /\ [StreamNext]_streamVars => StreamInv'
  BY StreamNextInv
<1>3. StreamInv => FramesAligned
  BY DEF StreamInv
<1> QED
  BY <1>1, <1>2, <1>3, PTL DEF StreamSpec

----------------------------------------------------------------------------
(* The text forms (GscText): TextRead.                                     *)
(*                                                                         *)
(* A text is parts with a separator between them, so the argument follows  *)
(* the places of the parts: where each is after joining (JoinLaid), that   *)
(* the reader is at the place of the next part when it has read one        *)
(* (SplitJoin, DecodeEncode, ParamsRead), and so reads them all (ReadOn).  *)
(* The readers are recursive functions over the places; that they are      *)
(* defined is RightRecursion.                                              *)

(* Every set of numbers has a least one: what holds of 0 and passes from n *)
(* to n + 1 has no least exception.                                        *)
LEMMA LeastNumber ==
    ASSUME NEW X \in SUBSET Nat, X # {}
    PROVE  \E n \in X : \A m \in X : n <= m
<1> DEFINE T == {1 .. n : n \in X}
           R == StrictSubsetOrdering(Nat)
<1>1. T \subseteq FiniteSubsetsOf(Nat) /\ T # {}
  <2>1. \A n \in Nat : IsFiniteSet(1 .. n) /\ 1 .. n \subseteq Nat
    BY FS_Interval
  <2> QED
    BY <2>1 DEF FiniteSubsetsOf
<1>2. PICK x \in T : \A y \in T : ~ (<<y, x>> \in R)
  <2> HIDE DEF T, R
  <2>1. IsWellFoundedOn(R, FiniteSubsetsOf(Nat))
    BY FS_StrictSubsetOrderingWellFounded DEF R
  <2> QED
    BY <1>1, <2>1, WFMin, Zenon
<1>3. PICK n \in X : x = 1 .. n
  BY <1>2
<1>4. ASSUME NEW m \in X, m < n
      PROVE  FALSE
  <2>1. 1 .. m \in T /\ 1 .. m \subseteq 1 .. n /\ 1 .. m # 1 .. n
    <3>1. n \in 1 .. n /\ n \notin 1 .. m /\ n \in Nat /\ m \in Nat
      BY <1>4
    <3> QED
      BY <3>1, <1>4
  <2>2. <<1 .. m, x>> \in R
    BY <1>3, <2>1 DEF StrictSubsetOrdering
  <2> QED
    BY <1>2, <2>1, <2>2
<1> QED
  BY <1>4

(* Min is what its name says, for a set of numbers.                        *)
LEMMA MinIsLeast ==
    ASSUME NEW X \in SUBSET Nat, X # {}
    PROVE  Min(X) \in X /\ \A m \in X : Min(X) <= m
BY LeastNumber DEF Min

(* A least member of a set of numbers is its Min.                          *)
LEMMA MinOf ==
    ASSUME NEW X \in SUBSET Nat, NEW n \in X, \A m \in X : n <= m
    PROVE  Min(X) = n
<1>1. PICK m \in X : Min(X) = m /\ m <= n
  BY MinIsLeast
<1>2. n <= m /\ n \in Nat /\ m \in Nat
  OBVIOUS
<1> QED
  BY <1>1, <1>2

(* Induction over the numbers, for the set of those that a fact holds of.  *)
LEMMA CountUp ==
    ASSUME NEW X \in SUBSET Nat, 0 \in X, \A n \in X : n + 1 \in X
    PROVE  X = Nat
<1> SUFFICES ASSUME Nat \ X # {} PROVE FALSE
  OBVIOUS
<1>1. PICK n \in Nat \ X : \A m \in Nat \ X : n <= m
  BY LeastNumber
<1> QED
  BY <1>1, n - 1 \in Nat

(* A function whose value at i is given by the one at a later place.       *)
RightRec(f, N, final, base, front, jump) ==
    f = [i \in 1 .. N |-> IF i \in final THEN base[i] ELSE front[i] \o f[jump[i]]]

(* A function that recurs to later places is defined, up to the last.      *)
LEMMA RightRecursion ==
    ASSUME NEW N \in Nat, NEW final, NEW base, NEW front, NEW jump,
           \A i \in 1 .. N : i \notin final => jump[i] \in i + 1 .. N
    PROVE  \E f : RightRec(f, N, final, base, front, jump)
<1> DEFINE From(k, f) == f = [i \in N - k + 1 .. N |->
                              IF i \in final THEN base[i] ELSE front[i] \o f[jump[i]]]
           X == {k \in Nat : k <= N => \E f : From(k, f)}
<1>1. 0 \in X
  <2>1. N - 0 + 1 .. N = {}
    OBVIOUS
  <2>2. From(0, [i \in {} |-> <<>>])
    BY <2>1, Zenon
  <2>3. 0 \in Nat
    OBVIOUS
  <2> QED
    BY <2>2, <2>3, Zenon
<1>2. ASSUME NEW k \in X PROVE k + 1 \in X
  <2>0. k \in Nat /\ k + 1 \in Nat /\ (k + 1 <= N => k <= N)
    OBVIOUS
  <2> SUFFICES ASSUME k + 1 <= N PROVE \E f : From(k + 1, f)
    BY <2>0, Zenon
  <2>1. PICK f : From(k, f)
    BY <2>0, Zenon
  <2> DEFINE g == [i \in N - k .. N |-> IF i = N - k
                     THEN IF i \in final THEN base[i] ELSE front[i] \o f[jump[i]]
                     ELSE f[i]]
  <2>2. ASSUME NEW i \in N - k .. N
        PROVE  g[i] = IF i \in final THEN base[i] ELSE front[i] \o g[jump[i]]
    <3>1. i \notin final => g[jump[i]] = f[jump[i]]
      <4>1. i \in 1 .. N /\ (jump[i] \in i + 1 .. N =>
                /\ jump[i] \in N - k .. N /\ jump[i] # N - k)
        BY <2>0
      <4>2. i \notin final => jump[i] \in i + 1 .. N
        BY <4>1, Zenon
      <4> QED
        BY <4>1, <4>2, Zenon
    <3>2. i # N - k => f[i] = IF i \in final THEN base[i] ELSE front[i] \o f[jump[i]]
      <4>1. i # N - k => i \in N - k + 1 .. N
        OBVIOUS
      <4> QED
        BY <2>1, <4>1, Zenon
    <3>3. g[i] = IF i = N - k
                 THEN IF i \in final THEN base[i] ELSE front[i] \o f[jump[i]]
                 ELSE f[i]
      BY Zenon
    <3> HIDE DEF g
    <3> QED
      BY <3>1, <3>2, <3>3, Zenon
  <2>3. N - (k + 1) + 1 = N - k
    OBVIOUS
  <2>4. g = [i \in N - k .. N |-> g[i]]
    BY Zenon
  <2>5. From(k + 1, g)
    <3> HIDE DEF g
    <3> QED
      BY <2>2, <2>3, <2>4, Zenon
  <2> QED
    BY <2>5, Zenon
<1>3. N \in X
  <2> HIDE DEF X
  <2>1. X \subseteq Nat
    BY DEF X
  <2> QED
    BY <1>1, <1>2, <2>1, CountUp
<1>4. N - N + 1 = 1
  OBVIOUS
<1>5. PICK f : From(N, f)
  <2>1. N <= N
    OBVIOUS
  <2> QED
    BY <1>3, <2>1, Zenon
<1> QED
  BY <1>4, <1>5, Zenon DEF RightRec

(* The same with the value at the place before.                            *)
LEMMA LeftRecursion ==
    ASSUME NEW N \in Nat, NEW s
    PROVE  \E f : f = [i \in 1 .. N |-> IF i = 1 THEN s[i] ELSE f[i - 1] \o s[i]]
<1> DEFINE UpTo(k, f) == f = [i \in 1 .. k |-> IF i = 1 THEN s[i]
                                               ELSE f[i - 1] \o s[i]]
           X == {k \in Nat : \E f : UpTo(k, f)}
<1>1. 0 \in X
  <2>1. 1 .. 0 = {} /\ 0 \in Nat
    OBVIOUS
  <2>2. UpTo(0, [i \in {} |-> <<>>])
    BY <2>1, Zenon
  <2> QED
    BY <2>1, <2>2, Zenon
<1>2. ASSUME NEW k \in X PROVE k + 1 \in X
  <2>0. k \in Nat /\ k + 1 \in Nat
    OBVIOUS
  <2>1. PICK f : UpTo(k, f)
    BY Zenon
  <2> DEFINE g == [i \in 1 .. k + 1 |-> IF i = 1 THEN s[i] ELSE f[i - 1] \o s[i]]
  <2>2. ASSUME NEW i \in 1 .. k + 1
        PROVE  g[i] = IF i = 1 THEN s[i] ELSE g[i - 1] \o s[i]
    <3>1. i # 1 => i - 1 \in 1 .. k /\ i - 1 \in 1 .. k + 1
      OBVIOUS
    <3>2. i # 1 => f[i - 1] = IF i - 1 = 1 THEN s[i - 1] ELSE f[i - 1 - 1] \o s[i - 1]
      BY <2>1, <3>1, Zenon
    <3>3. i # 1 => g[i - 1] = IF i - 1 = 1 THEN s[i - 1] ELSE f[i - 1 - 1] \o s[i - 1]
      BY <3>1, Zenon
    <3> QED
      BY <3>2, <3>3, Zenon
  <2>3. g = [i \in 1 .. k + 1 |-> g[i]]
    BY Zenon
  <2>4. UpTo(k + 1, g)
    <3> HIDE DEF g
    <3> QED
      BY <2>2, <2>3, Zenon
  <2> QED
    BY <2>0, <2>4, Zenon
<1>3. N \in X
  <2> HIDE DEF X
  <2>1. X \subseteq Nat
    BY DEF X
  <2> QED
    BY <1>1, <1>2, <2>1, CountUp
<1> QED
  BY <1>3, Zenon

(* w is u and then v.                                                      *)
Sides(u, v, w, S) ==
    /\ w \in Seq(S) /\ Len(u) \in Nat /\ Len(v) \in Nat
    /\ Len(w) = Len(u) + Len(v)
    /\ \A i \in 1 .. Len(u) : w[i] = u[i]
    /\ \A i \in 1 .. Len(v) : w[Len(u) + i] = v[i]
    /\ \A i \in 1 .. Len(w) :
          i \notin 1 .. Len(u) => \E j \in 1 .. Len(v) : i = Len(u) + j

(* A concatenation is its two sides.                                       *)
LEMMA ConcatSides ==
    ASSUME NEW S, NEW u \in Seq(S), NEW v \in Seq(S)
    PROVE  Sides(u, v, u \o v, S)
<1> DEFINE w == u \o v
<1>1. w \in Seq(S) /\ Len(w) = Len(u) + Len(v)
  BY ConcatProperties
<1>2. \A i \in 1 .. Len(u) + Len(v) :
          w[i] = IF i <= Len(u) THEN u[i] ELSE v[i - Len(u)]
  BY ConcatProperties
<1> HIDE DEF w
<1>3. Len(u) \in Nat /\ Len(v) \in Nat
  BY LenProperties
<1> DEFINE a == Len(u)
           b == Len(v)
<1>4. ASSUME NEW i \in 1 .. a PROVE w[i] = u[i]
  <2>1. i \in 1 .. a + b /\ i <= a
    BY <1>3
  <2> QED
    BY <1>2, <2>1, Zenon
<1>5. ASSUME NEW i \in 1 .. b PROVE w[a + i] = v[i]
  <2>1. a + i \in 1 .. a + b /\ ~ (a + i <= a) /\ a + i - a = i
    BY <1>3
  <2>2. w[a + i] = v[a + i - a]
    BY <1>2, <2>1
  <2> QED
    BY <2>1, <2>2, Zenon
<1>6. ASSUME NEW i \in 1 .. Len(w), i \notin 1 .. a
      PROVE  \E j \in 1 .. b : i = a + j
  <2>1. i \in 1 .. a + b
    BY <1>1
  <2>2. i - a \in 1 .. b /\ i = a + (i - a)
    <3> HIDE DEF a, b
    <3> QED
      BY <1>3, <1>6, <2>1 DEF a, b
  <2> QED
    BY <2>2
<1> QED
  BY <1>1, <1>3, <1>4, <1>5, <1>6, Zenon DEF Sides, w

(* What the concatenation of parts holds, part by part.                    *)
Laid(ps, F, n, S) ==
    \A k \in 0 .. n :
        /\ F[k] \in Seq(S)
        /\ \A i \in 1 .. Len(F[k]) : \E j \in 1 .. k :
              \E c \in 1 .. Len(ps[j]) : F[k][i] = ps[j][c]
        /\ \A j \in 0 .. k - 1 :
              /\ Len(F[j + 1]) = Len(F[j]) + Len(ps[j + 1])
              /\ Len(F[j]) \in Nat
              /\ Len(F[j]) + Len(ps[j + 1]) <= Len(F[k])
              /\ \A c \in 1 .. Len(ps[j + 1]) :
                    F[k][Len(F[j]) + c] = ps[j + 1][c]

(* Parts added one by one are all in place.                                *)
LEMMA PartsInPlace ==
    ASSUME NEW S, NEW n \in Nat, NEW ps \in [1 .. n -> Seq(S)], NEW F,
           F[0] = <<>>, \A k \in 0 .. n - 1 : F[k + 1] = F[k] \o ps[k + 1]
    PROVE  Laid(ps, F, n, S)
<1> DEFINE Placed(k, j) ==
             /\ Len(F[j + 1]) = Len(F[j]) + Len(ps[j + 1])
             /\ Len(F[j]) \in Nat
             /\ Len(F[j]) + Len(ps[j + 1]) <= Len(F[k])
             /\ \A c \in 1 .. Len(ps[j + 1]) :
                   F[k][Len(F[j]) + c] = ps[j + 1][c]
           From(k) == \A i \in 1 .. Len(F[k]) : \E j \in 1 .. k :
                         \E c \in 1 .. Len(ps[j]) : F[k][i] = ps[j][c]
           Good(k) == F[k] \in Seq(S) /\ From(k) /\ \A j \in 0 .. k - 1 : Placed(k, j)
           X == {k \in Nat : k <= n => Good(k)}
<1>1. 0 \in X
  <2>1. F[0] \in Seq(S) /\ Len(F[0]) = 0
    BY EmptySeq
  <2>2. Good(0)
    BY <2>1
  <2> QED
    BY <2>2
<1>2. ASSUME NEW k \in X PROVE k + 1 \in X
  <2>0. k \in Nat /\ k + 1 \in Nat /\ (k + 1 <= n => k <= n)
    OBVIOUS
  <2> SUFFICES ASSUME k + 1 <= n PROVE Good(k + 1)
    BY <2>0, Zenon
  <2>1. F[k] \in Seq(S) /\ From(k) /\ \A j \in 0 .. k - 1 : Placed(k, j)
    BY <2>0, Zenon
  <2>2. k + 1 \in 1 .. n /\ k \in 0 .. n - 1 /\ k \in 0 .. k
    BY <2>0
  <2>3. ps[k + 1] \in Seq(S) /\ F[k + 1] = F[k] \o ps[k + 1]
    BY <2>2, Zenon
  <2> DEFINE u == F[k]
             v == ps[k + 1]
             w == F[k + 1]
  <2>4. /\ w \in Seq(S) /\ Len(u) \in Nat /\ Len(v) \in Nat
        /\ Len(w) = Len(u) + Len(v)
        /\ \A i \in 1 .. Len(u) : w[i] = u[i]
        /\ \A i \in 1 .. Len(v) : w[Len(u) + i] = v[i]
        /\ \A i \in 1 .. Len(w) :
              i \notin 1 .. Len(u) => \E j \in 1 .. Len(v) : i = Len(u) + j
    <3>1. u \in Seq(S) /\ v \in Seq(S) /\ w = u \o v
      BY <2>1, <2>3, Zenon
    <3> HIDE DEF u, v, w
    <3>2. Sides(u, v, w, S)
      BY <3>1, ConcatSides
    <3> QED
      BY <3>2, Zenon DEF Sides
  <2>5. ASSUME NEW j \in 0 .. k - 1 PROVE Placed(k + 1, j)
    <3> DEFINE a == Len(F[j])
               p == ps[j + 1]
    <3>1. /\ Len(F[j + 1]) = a + Len(p) /\ a \in Nat /\ a + Len(p) <= Len(u)
          /\ \A c \in 1 .. Len(p) : u[a + c] = p[c]
      BY <2>1, Zenon
    <3>2. j + 1 \in 1 .. n
      BY <2>0
    <3>3. Len(p) \in Nat
      BY <3>2, LenProperties
    <3> HIDE DEF u, v, w, a, p
    <3>4. a + Len(p) <= Len(w)
      BY <2>4, <3>1, <3>3
    <3>5. ASSUME NEW c \in 1 .. Len(p) PROVE w[a + c] = p[c]
      <4>1. a + c \in 1 .. Len(u)
        BY <2>4, <3>1, <3>3
      <4>2. w[a + c] = u[a + c]
        BY <2>4, <4>1, Zenon
      <4> QED
        BY <3>1, <4>2, Zenon
    <3> QED
      BY <3>1, <3>4, <3>5, Zenon DEF a, p, w
  <2>6. Placed(k + 1, k)
    <3>1. Len(u) + Len(v) <= Len(w)
      <4> HIDE DEF u, v, w
      <4> QED
        BY <2>4
    <3> QED
      BY <2>4, <3>1, Zenon
  <2>7. From(k + 1)
    <3> SUFFICES ASSUME NEW i \in 1 .. Len(w)
                 PROVE  \E j \in 1 .. k + 1 : \E c \in 1 .. Len(ps[j]) : w[i] = ps[j][c]
      BY Zenon
    <3>1. CASE i \in 1 .. Len(u)
      <4>1. PICK j \in 1 .. k : \E c \in 1 .. Len(ps[j]) : u[i] = ps[j][c]
        BY <2>1, <3>1, Zenon
      <4>2. j \in 1 .. k + 1
        BY <2>0
      <4>3. w[i] = u[i]
        BY <2>4, <3>1, Zenon
      <4> QED
        BY <4>1, <4>2, <4>3, Zenon
    <3>2. CASE i \notin 1 .. Len(u)
      <4>1. k + 1 \in 1 .. k + 1
        BY <2>0
      <4>2. PICK c \in 1 .. Len(v) : i = Len(u) + c
        BY <2>4, <3>2, Zenon
      <4>3. w[i] = v[c]
        BY <2>4, <4>2, Zenon
      <4> QED
        BY <4>1, <4>3, Zenon
    <3> QED
      BY <3>1, <3>2, Zenon
  <2>8. \A j \in 0 .. k + 1 - 1 : Placed(k + 1, j)
    <3>1. \A j \in 0 .. k + 1 - 1 : j \in 0 .. k - 1 \/ j = k
      BY <2>0
    <3> HIDE DEF Placed
    <3> QED
      BY <2>5, <2>6, <3>1, Zenon
  <2>9. F[k + 1] \in Seq(S)
    BY <2>4, Zenon
  <2> QED
    <3> HIDE DEF Placed, From
    <3> QED
      BY <2>7, <2>8, <2>9
<1> HIDE DEF Good
<1>3. X = Nat
  <2>1. X \subseteq Nat
    OBVIOUS
  <2> HIDE DEF X
  <2> QED
    BY <1>1, <1>2, <2>1, CountUp
<1>4. \A k \in 0 .. n : Good(k)
  <2>1. \A k \in 0 .. n : k \in Nat /\ k <= n
    OBVIOUS
  <2> QED
    BY <1>3, <2>1, Zenon
<1> QED
  BY <1>4, Zenon DEF Good, Laid

(* t is the parts ps one after the other: part k + 1 is after pos[k].      *)
Flat(ps, t, S) ==
    /\ t \in Seq(S)
    /\ \A i \in 1 .. Len(t) : \E k \in 1 .. Len(ps) :
          \E c \in 1 .. Len(ps[k]) : t[i] = ps[k][c]
    /\ \E pos \in [0 .. Len(ps) -> Nat] :
          /\ pos[0] = 0 /\ pos[Len(ps)] = Len(t)
          /\ \A k \in 0 .. Len(ps) - 1 :
                /\ pos[k + 1] = pos[k] + Len(ps[k + 1])
                /\ pos[k + 1] <= Len(t)
                /\ \A c \in 1 .. Len(ps[k + 1]) : t[pos[k] + c] = ps[k + 1][c]

(* FlattenSeq lays its parts one after the other.                          *)
LEMMA Flattened ==
    ASSUME NEW S, NEW ps \in Seq(Seq(S))
    PROVE  Flat(ps, FlattenSeq(ps), S)
<1> DEFINE n == Len(ps)
           flatten[i \in 1 .. n] ==
               IF i = 1 THEN ps[i] ELSE flatten[i - 1] \o ps[i]
           F == [k \in 0 .. n |-> IF k = 0 THEN <<>> ELSE flatten[k]]
           t == FlattenSeq(ps)
<1>1. n \in Nat /\ ps \in [1 .. n -> Seq(S)]
  BY LenProperties
<1>2. flatten = [i \in 1 .. n |-> IF i = 1 THEN ps[i] ELSE flatten[i - 1] \o ps[i]]
  <2>1. \E f : f = [i \in 1 .. n |-> IF i = 1 THEN ps[i] ELSE f[i - 1] \o ps[i]]
    BY <1>1, LeftRecursion
  <2> QED
    BY <2>1, Zenon
<1>3. t = F[n]
  <2>1. CASE n = 0
    <3>1. t = ps
      BY <2>1 DEF FlattenSeq
    <3>2. ps = <<>>
      BY <2>1, EmptySeq
    <3>3. n \in 0 .. n
      BY <1>1
    <3> HIDE DEF t, flatten
    <3> QED
      BY <2>1, <3>1, <3>2, <3>3, Zenon
  <2>2. CASE n # 0
    <3>1. t = flatten[n]
      BY <2>2, Zenon DEF FlattenSeq
    <3>2. n \in 0 .. n
      BY <1>1
    <3> HIDE DEF t, flatten
    <3> QED
      BY <2>2, <3>1, <3>2, Zenon
  <2> QED
    BY <2>1, <2>2, Zenon
<1>4. F[0] = <<>>
  <2>1. 0 \in 0 .. n
    BY <1>1
  <2> HIDE DEF flatten
  <2> QED
    BY <2>1, Zenon
<1>5. ASSUME NEW k \in 0 .. n - 1 PROVE F[k + 1] = F[k] \o ps[k + 1]
  <2>1. /\ k \in 0 .. n /\ k + 1 \in 0 .. n /\ k + 1 # 0 /\ k + 1 \in 1 .. n
        /\ k + 1 - 1 = k /\ (k + 1 = 1 <=> k = 0)
    BY <1>1
  <2>2. F[k + 1] = flatten[k + 1] /\ F[k] = IF k = 0 THEN <<>> ELSE flatten[k]
    <3> HIDE DEF flatten
    <3> QED
      BY <2>1, Zenon
  <2>3. flatten[k + 1] = IF k + 1 = 1 THEN ps[k + 1] ELSE flatten[k + 1 - 1] \o ps[k + 1]
    <3> HIDE DEF flatten
    <3>1. \A i \in 1 .. n : flatten[i] = IF i = 1 THEN ps[i] ELSE flatten[i - 1] \o ps[i]
      BY <1>2, Zenon
    <3> QED
      BY <2>1, <3>1
  <2>4. <<>> \o ps[k + 1] = ps[k + 1]
    BY <1>1, <2>1, ConcatEmptySeq
  <2> HIDE DEF F, flatten
  <2>5. CASE k = 0
    BY <2>1, <2>2, <2>3, <2>4, <2>5
  <2>6. CASE k # 0
    BY <2>1, <2>2, <2>3, <2>6, Zenon
  <2> QED
    BY <2>5, <2>6, Zenon
<1> HIDE DEF F, flatten
<1>6. \A k \in 0 .. n :
        /\ F[k] \in Seq(S)
        /\ \A i \in 1 .. Len(F[k]) : \E j \in 1 .. k :
              \E c \in 1 .. Len(ps[j]) : F[k][i] = ps[j][c]
        /\ \A j \in 0 .. k - 1 :
              /\ Len(F[j + 1]) = Len(F[j]) + Len(ps[j + 1])
              /\ Len(F[j]) \in Nat
              /\ Len(F[j]) + Len(ps[j + 1]) <= Len(F[k])
              /\ \A c \in 1 .. Len(ps[j + 1]) :
                    F[k][Len(F[j]) + c] = ps[j + 1][c]
  <2> HIDE DEF n
  <2>1. Laid(ps, F, n, S)
    BY <1>1, <1>4, <1>5, PartsInPlace
  <2> QED
    BY <2>1, Zenon DEF Laid
<1> DEFINE pos == [k \in 0 .. n |-> Len(F[k])]
<1>7. n \in 0 .. n /\ 0 \in 0 .. n /\ \A k \in 0 .. n - 1 : k \in 0 .. n /\ k + 1 \in 0 .. n
  BY <1>1
<1>8. pos \in [0 .. n -> Nat]
  <2>1. \A k \in 0 .. n : Len(F[k]) \in Nat
    BY <1>6, LenProperties
  <2> QED
    BY <2>1
<1>9. pos[0] = 0 /\ pos[n] = Len(t)
  BY <1>3, <1>4, <1>7, EmptySeq
<1>10. ASSUME NEW k \in 0 .. n - 1
      PROVE  /\ pos[k + 1] = pos[k] + Len(ps[k + 1]) /\ pos[k + 1] <= Len(t)
             /\ \A c \in 1 .. Len(ps[k + 1]) : t[pos[k] + c] = ps[k + 1][c]
  <2>1. pos[k + 1] = Len(F[k + 1]) /\ pos[k] = Len(F[k])
    BY <1>7, Zenon
  <2>2. Len(F[k + 1]) = Len(F[k]) + Len(ps[k + 1])
    BY <1>6, <1>7, Zenon
  <2>3. \A c \in 1 .. Len(ps[k + 1]) : F[n][Len(F[k]) + c] = ps[k + 1][c]
    BY <1>6, <1>7, Zenon
  <2>4. Len(F[k]) + Len(ps[k + 1]) <= Len(F[n])
    BY <1>6, <1>7, Zenon
  <2> HIDE DEF t, pos
  <2>5. Len(F[k + 1]) <= Len(t)
    BY <1>3, <2>2, <2>4, Zenon
  <2> QED
    BY <1>3, <2>1, <2>2, <2>3, <2>5, Zenon
<1>11. /\ t \in Seq(S)
       /\ \A i \in 1 .. Len(t) : \E k \in 1 .. n :
             \E c \in 1 .. Len(ps[k]) : t[i] = ps[k][c]
  <2> HIDE DEF t
  <2> QED
    BY <1>3, <1>6, <1>7, Zenon
<1> HIDE DEF pos
<1> QED
  BY <1>8, <1>9, <1>10, <1>11, Zenon DEF Flat

(* A function on the first n numbers is a sequence of length n.            *)
LEMMA FunctionIsSeq ==
    ASSUME NEW T, NEW n \in Nat, NEW q, q = [k \in 1 .. n |-> q[k]],
           \A k \in 1 .. n : q[k] \in T
    PROVE  q \in Seq(T) /\ Len(q) = n
<1>1. q \in [1 .. n -> T]
  BY Zenon
<1> QED
  BY <1>1

(* Where the parts of Join(ps, c) are: part m + 1 is after off[m].         *)
Joined(ps, c, t, off) ==
    /\ off[0] = 0 /\ Len(t) = off[Len(ps)] - 1
    /\ \A m \in 0 .. Len(ps) - 1 :
          /\ off[m] \in Nat
          /\ off[m + 1] = off[m] + Len(ps[m + 1]) + 1
          /\ off[m] + Len(ps[m + 1]) <= Len(t)
          /\ \A i \in 1 .. Len(ps[m + 1]) : t[off[m] + i] = ps[m + 1][i]
    /\ \A m \in 0 .. Len(ps) - 2 :
          off[m + 1] \in 1 .. Len(t) /\ t[off[m + 1]] = c

(* Except for c, a joined text holds what its parts hold.                  *)
JoinHolds(ps, c, t) ==
    \A i \in 1 .. Len(t) : t[i] # c =>
        \E k \in 1 .. Len(ps) : \E j \in 1 .. Len(ps[k]) : t[i] = ps[k][j]

(* Join lays the parts one after the other with c between.                 *)
LEMMA JoinLaid ==
    ASSUME NEW S, NEW c \in S, NEW ps \in Seq(Seq(S)), ps # <<>>
    PROVE  /\ Join(ps, c) \in Seq(S)
           /\ JoinHolds(ps, c, Join(ps, c))
           /\ \E off : Joined(ps, c, Join(ps, c), off)
<1>0. PICK n : n = Len(ps)
  OBVIOUS
<1> DEFINE qs == [k \in DOMAIN ps |-> IF k = 1 THEN ps[k] ELSE <<c>> \o ps[k]]
           t == Join(ps, c)
<1>1. n \in Nat \ {0} /\ DOMAIN ps = 1 .. n
  BY <1>0, EmptySeq, LenProperties
<1>2. t = FlattenSeq(qs)
  BY Zenon DEF Join
<1>3. \A k \in 1 .. n : ps[k] \in Seq(S) /\ Len(ps[k]) \in Nat
  <2>1. \A k \in 1 .. n : ps[k] \in Seq(S)
    BY <1>0, ElementOfSeq
  <2> QED
    BY <2>1, LenProperties
<1>4. ASSUME NEW k \in 1 .. n, k # 1
      PROVE  /\ qs[k] \in Seq(S) /\ Len(qs[k]) = Len(ps[k]) + 1
             /\ qs[k][1] = c
             /\ \A i \in 1 .. Len(ps[k]) : qs[k][1 + i] = ps[k][i]
  <2> DEFINE u == <<c>>
             v == ps[k]
             w == qs[k]
  <2>1. u \in Seq(S) /\ Len(u) = 1 /\ u[1] = c
    OBVIOUS
  <2>2. v \in Seq(S) /\ w = u \o v
    BY <1>1, <1>3, <1>4
  <2> HIDE DEF u, v, w
  <2>3. Sides(u, v, w, S)
    BY <2>1, <2>2, ConcatSides
  <2>4. /\ w \in Seq(S) /\ Len(w) = Len(u) + Len(v) /\ Len(v) \in Nat
        /\ \A i \in 1 .. Len(u) : w[i] = u[i]
        /\ \A i \in 1 .. Len(v) : w[Len(u) + i] = v[i]
    BY <2>3, Zenon DEF Sides
  <2>5. Len(w) = Len(v) + 1 /\ w[1] = c
    BY <2>1, <2>4
  <2>6. \A i \in 1 .. Len(v) : w[1 + i] = v[i]
    BY <2>1, <2>4, Zenon
  <2> QED
    BY <2>4, <2>5, <2>6, Zenon DEF v, w
<1>5. qs[1] = ps[1]
  BY <1>1
<1>6. qs \in Seq(Seq(S)) /\ Len(qs) = n
  <2>1. \A k \in 1 .. n : qs[k] \in Seq(S)
    <3>1. \A k \in 1 .. n : k # 1 => qs[k] \in Seq(S)
      BY <1>4, Zenon
    <3>2. 1 \in 1 .. n
      BY <1>1
    <3> QED
      BY <1>3, <1>5, <3>1, <3>2, Zenon
  <2>2. qs = [k \in 1 .. n |-> qs[k]]
    BY <1>1, Zenon
  <2> HIDE DEF qs
  <2>3. PICK T : T = Seq(S)
    OBVIOUS
  <2>4. \A k \in 1 .. n : qs[k] \in T
    BY <2>1, <2>3, Zenon
  <2>5. qs \in Seq(T) /\ Len(qs) = n
    BY <1>1, <2>2, <2>4, FunctionIsSeq
  <2> QED
    BY <2>3, <2>5, Zenon
<1> HIDE DEF qs, t
<1>14. Flat(qs, t, S)
  BY <1>2, <1>6, Flattened
<1>7. t \in Seq(S)
  BY <1>14, Zenon DEF Flat
<1>8. ASSUME NEW i \in 1 .. Len(t), t[i] # c
      PROVE  \E k \in 1 .. n : \E j \in 1 .. Len(ps[k]) : t[i] = ps[k][j]
  <2>1. PICK k \in 1 .. n : \E j \in 1 .. Len(qs[k]) : t[i] = qs[k][j]
    BY <1>6, <1>14, Zenon DEF Flat
  <2>2. PICK j \in 1 .. Len(qs[k]) : t[i] = qs[k][j]
    BY <2>1
  <2>3. CASE k = 1
    BY <1>5, <2>2, <2>3
  <2>4. CASE k # 1
    <3>1. j # 1
      BY <1>4, <1>8, <2>2, <2>4
    <3>2. j - 1 \in 1 .. Len(ps[k]) /\ j = 1 + (j - 1)
      BY <1>3, <1>4, <2>4, <3>1
    <3>3. qs[k][1 + (j - 1)] = ps[k][j - 1]
      BY <1>4, <2>4, <3>2, Zenon
    <3> QED
      BY <2>2, <3>2, <3>3, Zenon
  <2> QED
    BY <2>3, <2>4
<1>9. PICK pos \in [0 .. n -> Nat] :
        /\ pos[0] = 0 /\ pos[n] = Len(t)
        /\ \A k \in 0 .. n - 1 :
              /\ pos[k + 1] = pos[k] + Len(qs[k + 1])
              /\ pos[k + 1] <= Len(t)
              /\ \A j \in 1 .. Len(qs[k + 1]) : t[pos[k] + j] = qs[k + 1][j]
  BY <1>6, <1>14, Zenon DEF Flat
<1> DEFINE off == [m \in 0 .. n |-> IF m = 0 THEN 0 ELSE pos[m] + 1]
<1>10. Len(t) \in Nat /\ Len(t) = off[n] - 1 /\ off[0] = 0
  BY <1>1, <1>7, <1>9, LenProperties
<1>11. ASSUME NEW m \in 0 .. n - 1
       PROVE  /\ off[m] \in Nat
              /\ off[m + 1] = off[m] + Len(ps[m + 1]) + 1
              /\ off[m] + Len(ps[m + 1]) <= Len(t)
              /\ \A i \in 1 .. Len(ps[m + 1]) : t[off[m] + i] = ps[m + 1][i]
  <2>1. m + 1 \in 1 .. n /\ pos[m] \in Nat /\ pos[m + 1] \in Nat
    <3>1. m + 1 \in 1 .. n /\ m \in 0 .. n /\ m + 1 \in 0 .. n
      BY <1>1
    <3> QED
      BY <3>1
  <2>2. /\ Len(ps[m + 1]) \in Nat
        /\ pos[m + 1] = pos[m] + Len(qs[m + 1]) /\ pos[m + 1] <= Len(t)
    BY <1>3, <1>9, <2>1
  <2>3. off[m + 1] = pos[m + 1] + 1
    BY <1>1
  <2>4. CASE m = 0
    <3>1. off[m] = 0 /\ qs[m + 1] = ps[m + 1] /\ pos[m] = 0
      BY <1>1, <1>5, <1>9, <2>4
    <3>2. \A i \in 1 .. Len(ps[m + 1]) : t[off[m] + i] = ps[m + 1][i]
      BY <1>9, <3>1
    <3> HIDE DEF off
    <3> QED
      BY <1>10, <2>2, <2>3, <3>1, <3>2
  <2>5. CASE m # 0
    <3>1. /\ off[m] = pos[m] + 1 /\ Len(qs[m + 1]) = Len(ps[m + 1]) + 1
          /\ m + 1 # 1
      BY <1>1, <1>4, <2>1, <2>5
    <3>2. ASSUME NEW i \in 1 .. Len(ps[m + 1])
          PROVE  t[off[m] + i] = ps[m + 1][i]
      <4>1. 1 + i \in 1 .. Len(qs[m + 1]) /\ pos[m] + (1 + i) = off[m] + i
        <5> DEFINE x == pos[m]
                   y == Len(ps[m + 1])
        <5>1. x \in Nat /\ y \in Nat /\ i \in 1 .. y
          BY <2>1, <2>2, Zenon
        <5> HIDE DEF off, x, y
        <5>2. 1 + i \in 1 .. y + 1 /\ x + (1 + i) = (x + 1) + i
          BY <5>1
        <5> QED
          BY <3>1, <5>2, Zenon DEF x, y
      <4>2. t[pos[m] + (1 + i)] = qs[m + 1][1 + i]
        BY <1>9, <4>1, Zenon
      <4>3. qs[m + 1][1 + i] = ps[m + 1][i]
        BY <1>4, <2>1, <3>1, Zenon
      <4> HIDE DEF off
      <4> QED
        BY <4>1, <4>2, <4>3, Zenon
    <3> HIDE DEF off
    <3> DEFINE x == pos[m]
               y == Len(ps[m + 1])
               l == Len(t)
    <3>3. x \in Nat /\ y \in Nat /\ l \in Nat /\ x + (y + 1) <= l
      BY <1>10, <2>1, <2>2, <3>1
    <3>4. off[m] = x + 1 /\ off[m + 1] = x + (y + 1) + 1
      BY <2>2, <2>3, <3>1, Zenon
    <3> HIDE DEF x, y, l
    <3>5. x + 1 \in Nat /\ x + (y + 1) + 1 = x + 1 + y + 1 /\ x + 1 + y <= l
      BY <3>3
    <3>6. /\ off[m] \in Nat /\ off[m + 1] = off[m] + y + 1 /\ off[m] + y <= l
      BY <3>4, <3>5, Zenon
    <3> QED
      BY <3>2, <3>6, Zenon DEF y, l
  <2> QED
    BY <2>4, <2>5, Zenon
<1>12. ASSUME NEW m \in 0 .. n - 2
       PROVE  off[m + 1] \in 1 .. Len(t) /\ t[off[m + 1]] = c
  <2> DEFINE k == m + 1
  <2>1. k \in 0 .. n - 1 /\ k + 1 \in 1 .. n /\ k + 1 # 1 /\ off[k] = pos[k] + 1
    BY <1>1
  <2>2. pos[k + 1] <= Len(t) /\ pos[k + 1] = pos[k] + Len(qs[k + 1])
    BY <1>9, <2>1, Zenon
  <2>3. Len(qs[k + 1]) = Len(ps[k + 1]) + 1 /\ qs[k + 1][1] = c /\ Len(ps[k + 1]) \in Nat
    BY <1>3, <1>4, <2>1, Zenon
  <2>4. pos[k] \in Nat
    <3>1. k \in 0 .. n
      BY <1>1
    <3> QED
      BY <3>1, Zenon
  <2> HIDE DEF k, off
  <2>5. 1 \in 1 .. Len(qs[k + 1]) /\ off[k] \in 1 .. Len(t)
    <3> DEFINE x == pos[k]
               y == Len(ps[k + 1])
               l == Len(t)
    <3>1. x \in Nat /\ y \in Nat /\ l \in Nat /\ x + (y + 1) <= l
      BY <1>10, <2>2, <2>3, <2>4
    <3> HIDE DEF x, y, l
    <3>2. 1 \in 1 .. y + 1 /\ x + 1 \in 1 .. l
      BY <3>1
    <3> QED
      BY <2>1, <2>3, <3>2, Zenon DEF x, y, l
  <2>6. t[pos[k] + 1] = qs[k + 1][1]
    BY <1>9, <2>1, <2>5, Zenon
  <2> QED
    BY <2>1, <2>3, <2>5, <2>6, Zenon DEF k
<1> HIDE DEF off
<1>13. Joined(ps, c, t, off)
  BY <1>0, <1>10, <1>11, <1>12, Zenon DEF Joined
<1> QED
  BY <1>0, <1>7, <1>8, <1>13, Zenon DEF t, JoinHolds

(* A part that is at o + 1 is what SubSeq cuts there.                      *)
LEMMA PartCut ==
    ASSUME NEW S, NEW t \in Seq(S), NEW p \in Seq(S), NEW o \in Nat,
           o + Len(p) <= Len(t), \A i \in 1 .. Len(p) : t[o + i] = p[i]
    PROVE  SubSeq(t, o + 1, o + Len(p)) = p
<1> DEFINE q == SubSeq(t, o + 1, o + Len(p))
<1>1. Len(p) \in Nat /\ Len(t) \in Nat /\ o + 1 \in Int /\ o + Len(p) \in Int
  BY LenProperties
<1>2. PICK l \in Nat : l = Len(p)
  BY <1>1
<1>3. \A i \in o + 1 .. o + l : t[i] \in S
  <2>1. \A i \in o + 1 .. o + l : i \in 1 .. Len(t)
    BY <1>1, <1>2
  <2> QED
    BY <2>1, ElementOfSeq
<1>4. /\ q \in Seq(S)
      /\ Len(q) = IF o + 1 <= o + l THEN o + l - (o + 1) + 1 ELSE 0
      /\ \A i \in 1 .. o + l - (o + 1) + 1 : q[i] = t[o + 1 + i - 1]
  <2>1. o + 1 \in Int /\ o + l \in Int
    OBVIOUS
  <2> QED
    BY <1>2, <1>3, <2>1, SubSeqProperties
<1>5. Len(q) = l
  BY <1>4
<1>6. ASSUME NEW i \in 1 .. l PROVE q[i] = p[i]
  <2>1. i \in 1 .. o + l - (o + 1) + 1 /\ o + 1 + i - 1 = o + i
    OBVIOUS
  <2>2. q[i] = t[o + i]
    <3> HIDE DEF q
    <3> QED
      BY <1>4, <2>1
  <2> QED
    BY <1>2, <2>2
<1> HIDE DEF q
<1>7. q = p
  BY <1>2, <1>4, <1>5, <1>6, SeqEqual
<1> QED
  BY <1>7 DEF q

(* A sequence that is read part by part, from one place to the next.       *)
ReadsOn(f, off, ps, n) ==
    \A m \in 0 .. n - 1 :
        /\ m = n - 1 => f[off[m] + 1] = <<ps[m + 1]>>
        /\ m # n - 1 => f[off[m] + 1] = <<ps[m + 1]>> \o f[off[m + 1] + 1]

(* Such a reader reads the whole sequence.                                 *)
LEMMA ReadOn ==
    ASSUME NEW S, NEW ps \in Seq(S), NEW n \in Nat \ {0}, n = Len(ps),
           NEW f, NEW off, ReadsOn(f, off, ps, n)
    PROVE  f[off[0] + 1] = ps
<1> DEFINE X == {j \in Nat : j < n => f[off[n - 1 - j] + 1] = SubSeq(ps, n - j, n)}
<1>1. 0 \in X
  <2>1. n - 1 \in 0 .. n - 1 /\ n - 1 + 1 = n /\ n - 1 - 0 = n - 1 /\ n - 0 = n
    OBVIOUS
  <2>2. f[off[n - 1] + 1] = <<ps[n]>>
    BY <2>1 DEF ReadsOn
  <2>3. SubSeq(ps, n, n) = <<ps[n]>>
    <3>1. n \in 1 .. Len(ps) /\ n \in n .. Len(ps) /\ <<ps[n]>> \in Seq(S)
      OBVIOUS
    <3>2. SubSeq(ps, n, n) = <<ps[n]>> \o SubSeq(ps, n + 1, n)
      BY <3>1, SubSeqRecursiveFirst
    <3>3. SubSeq(ps, n + 1, n) = <<>>
      BY SubSeqEmpty
    <3> QED
      BY <3>1, <3>2, <3>3, ConcatEmptySeq
  <2>4. f[off[n - 1 - 0] + 1] = SubSeq(ps, n - 0, n)
    BY <2>1, <2>2, <2>3
  <2> QED
    BY <2>4
<1>2. ASSUME NEW j \in X PROVE j + 1 \in X
  <2>1. j \in Nat /\ j + 1 \in Nat
    OBVIOUS
  <2> SUFFICES ASSUME j + 1 < n
               PROVE  f[off[n - 1 - (j + 1)] + 1] = SubSeq(ps, n - (j + 1), n)
    BY <2>1, Zenon
  <2>2. PICK m \in 0 .. n - 1 : m = n - 1 - (j + 1)
    <3>1. n - 1 - (j + 1) \in 0 .. n - 1
      BY <2>1
    <3> QED
      BY <3>1, Zenon
  <2>3. m + 1 = n - 1 - j /\ m + 1 = n - (j + 1) /\ m + 1 + 1 = n - j /\ m # n - 1
    BY <2>1, <2>2
  <2>4. f[off[n - 1 - j] + 1] = SubSeq(ps, n - j, n)
    BY <2>1
  <2>5. f[off[m] + 1] = <<ps[m + 1]>> \o f[off[m + 1] + 1]
    BY <2>3, Zenon DEF ReadsOn
  <2>6. SubSeq(ps, m + 1, n) = <<ps[m + 1]>> \o SubSeq(ps, m + 1 + 1, n)
    <3>1. m + 1 \in 1 .. Len(ps) /\ n \in m + 1 .. Len(ps)
      OBVIOUS
    <3> QED
      BY <3>1, SubSeqRecursiveFirst
  <2> HIDE DEF X
  <2> QED
    BY <2>2, <2>3, <2>4, <2>5, <2>6
<1>3. n - 1 \in X
  <2>1. X \subseteq Nat
    OBVIOUS
  <2> HIDE DEF X
  <2> QED
    BY <1>1, <1>2, <2>1, n - 1 \in Nat, CountUp
<1>4. f[off[0] + 1] = SubSeq(ps, 1, n)
  <2>1. n - 1 < n /\ n - 1 - (n - 1) = 0 /\ n - (n - 1) = 1
    OBVIOUS
  <2>2. f[off[n - 1 - (n - 1)] + 1] = SubSeq(ps, n - (n - 1), n)
    BY <1>3, <2>1
  <2> QED
    BY <2>1, <2>2
<1>5. SubSeq(ps, 1, n) = ps
  BY SubSeqFull
<1> QED
  BY <1>4, <1>5, Zenon

(* What was joined is split into the same parts, unless they hold c.       *)
LEMMA SplitJoin ==
    ASSUME NEW S, NEW c \in S, NEW ps \in Seq(Seq(S)), ps # <<>>,
           \A k \in 1 .. Len(ps) : \A i \in 1 .. Len(ps[k]) : ps[k][i] # c
    PROVE  Split(Join(ps, c), c) = ps
<1>1. PICK n \in Nat \ {0} : n = Len(ps)
  BY EmptySeq
<1>2. PICK t \in Seq(S) : t = Join(ps, c)
  BY JoinLaid
<1>3. PICK off : Joined(ps, c, t, off)
  BY <1>2, JoinLaid
<1>4. PICK N \in Nat : N = Len(t)
  BY LenProperties
<1>5. /\ off[0] = 0 /\ N = off[n] - 1
      /\ \A m \in 0 .. n - 1 :
            /\ off[m] \in Nat
            /\ off[m + 1] = off[m] + Len(ps[m + 1]) + 1
            /\ off[m] + Len(ps[m + 1]) <= N
            /\ \A i \in 1 .. Len(ps[m + 1]) : t[off[m] + i] = ps[m + 1][i]
      /\ \A m \in 0 .. n - 2 : off[m + 1] \in 1 .. N /\ t[off[m + 1]] = c
  BY <1>1, <1>3, <1>4, Zenon DEF Joined
<1> DEFINE Cuts(from) == {i \in from .. N : t[i] = c}
           split[from \in 1 .. N + 1] ==
              IF Cuts(from) = {} THEN <<SubSeq(t, from, N)>>
              ELSE <<SubSeq(t, from, Min(Cuts(from)) - 1)>>
                   \o split[Min(Cuts(from)) + 1]
<1>6. Split(t, c) = split[1]
  BY <1>4, Zenon DEF Split
<1>7. \A from \in 1 .. N + 1 :
         split[from] = IF Cuts(from) = {} THEN <<SubSeq(t, from, N)>>
                       ELSE <<SubSeq(t, from, Min(Cuts(from)) - 1)>>
                            \o split[Min(Cuts(from)) + 1]
  <2> DEFINE final == {from \in 1 .. N + 1 : Cuts(from) = {}}
             base == [from \in 1 .. N + 1 |-> <<SubSeq(t, from, N)>>]
             front == [from \in 1 .. N + 1 |-> <<SubSeq(t, from, Min(Cuts(from)) - 1)>>]
             jump == [from \in 1 .. N + 1 |-> Min(Cuts(from)) + 1]
  <2>1. ASSUME NEW from \in 1 .. N + 1, from \notin final
        PROVE  jump[from] \in from + 1 .. N + 1
    <3>1. Cuts(from) # {} /\ jump[from] = Min(Cuts(from)) + 1
      BY <2>1, Zenon
    <3>2. Cuts(from) \in SUBSET Nat
      OBVIOUS
    <3>3. Min(Cuts(from)) \in Cuts(from)
      BY <3>1, <3>2, MinIsLeast
    <3>4. Min(Cuts(from)) \in from .. N
      BY <3>3, Zenon
    <3> HIDE DEF Cuts, jump
    <3> QED
      BY <3>1, <3>4
  <2>2. PICK f : RightRec(f, N + 1, final, base, front, jump)
    <3> HIDE DEF final, base, front, jump
    <3> QED
      BY <2>1, N + 1 \in Nat, RightRecursion
  <2>4. f = [from \in 1 .. N + 1 |->
               IF Cuts(from) = {} THEN <<SubSeq(t, from, N)>>
               ELSE <<SubSeq(t, from, Min(Cuts(from)) - 1)>>
                    \o f[Min(Cuts(from)) + 1]]
    <3> HIDE DEF Cuts
    <3> QED
      BY <2>2, Zenon DEF RightRec
  <2>5. split = [from \in 1 .. N + 1 |->
               IF Cuts(from) = {} THEN <<SubSeq(t, from, N)>>
               ELSE <<SubSeq(t, from, Min(Cuts(from)) - 1)>>
                    \o split[Min(Cuts(from)) + 1]]
    <3> HIDE DEF Cuts
    <3> QED
      BY <2>4, Zenon
  <2> HIDE DEF split, Cuts
  <2> QED
    BY <2>5, Zenon
<1> HIDE DEF split
<1>8. ASSUME NEW m \in 0 .. n - 1
      PROVE  /\ m = n - 1 => split[off[m] + 1] = <<ps[m + 1]>>
             /\ m # n - 1 => split[off[m] + 1] = <<ps[m + 1]>> \o split[off[m + 1] + 1]
  <2>1. PICK o \in Nat, p \in Seq(S), l \in Nat :
           /\ o = off[m] /\ p = ps[m + 1] /\ l = Len(p)
           /\ \A i \in 1 .. l : p[i] # c
    <3>1. m + 1 \in 1 .. n
      OBVIOUS
    <3>2. ps[m + 1] \in Seq(S) /\ Len(ps[m + 1]) \in Nat
      BY <1>1, <3>1, ElementOfSeq, LenProperties
    <3>3. off[m] \in Nat
      BY <1>5
    <3>4. \A i \in 1 .. Len(ps[m + 1]) : ps[m + 1][i] # c
      BY <1>1, <3>1
    <3> QED
      BY <3>2, <3>3, <3>4, Zenon
  <2>2. o + l <= N /\ \A i \in 1 .. l : t[o + i] = p[i]
    BY <1>5, <2>1, Zenon
  <2>3. SubSeq(t, o + 1, o + l) = p
    BY <1>4, <2>1, <2>2, PartCut
  <2>4. ASSUME NEW i \in o + 1 .. o + l PROVE t[i] # c
    <3>1. i - o \in 1 .. l /\ o + (i - o) = i
      OBVIOUS
    <3> QED
      BY <2>1, <2>2, <3>1
  <2>5. o + 1 \in 1 .. N + 1
    BY <2>2
  <2>6. off[m + 1] = o + l + 1
    BY <1>5, <2>1, Zenon
  <2>7. CASE m = n - 1
    <3>1. m + 1 = n
      BY <2>7
    <3>2. N = o + l
      <4>1. off[n] = o + l + 1 /\ N = off[n] - 1
        BY <1>5, <2>6, <3>1, Zenon
      <4> QED
        BY <4>1
    <3>3. Cuts(o + 1) = {}
      BY <2>4, <3>2
    <3>4. split[o + 1] = <<SubSeq(t, o + 1, N)>>
      <4> HIDE DEF Cuts
      <4> QED
        BY <1>7, <2>5, <3>3, Zenon
    <3> QED
      BY <2>1, <2>3, <2>7, <3>2, <3>4, Zenon
  <2>8. CASE m # n - 1
    <3>1. m \in 0 .. n - 2
      BY <2>8
    <3>2. off[m + 1] \in 1 .. N /\ t[off[m + 1]] = c
      BY <1>5, <3>1, Zenon
    <3>3. PICK d \in Nat : d = o + l + 1
      OBVIOUS
    <3>4. d \in Cuts(o + 1) /\ Cuts(o + 1) \in SUBSET Nat
      BY <2>6, <3>2, <3>3
    <3>5. ASSUME NEW i \in Cuts(o + 1) PROVE d <= i
      <4>1. i \in o + 1 .. N /\ t[i] = c
        OBVIOUS
      <4>2. i \notin o + 1 .. o + l
        BY <2>4, <4>1
      <4> QED
        BY <3>3, <4>1, <4>2
    <3> HIDE DEF Cuts
    <3>6. Min(Cuts(o + 1)) = d
      BY <3>4, <3>5, MinOf
    <3>7. d - 1 = o + l /\ Cuts(o + 1) # {}
      BY <3>3, <3>4
    <3>8. split[o + 1] = <<SubSeq(t, o + 1, d - 1)>> \o split[d + 1]
      BY <1>7, <2>5, <3>6, <3>7, Zenon
    <3> QED
      BY <2>1, <2>3, <2>6, <2>8, <3>3, <3>7, <3>8, Zenon
  <2> QED
    BY <2>7, <2>8, Zenon
<1>9. split[off[0] + 1] = ps
  <2>1. ReadsOn(split, off, ps, n)
    BY <1>8, Zenon DEF ReadsOn
  <2> QED
    BY <1>1, <2>1, ReadOn
<1>10. off[0] + 1 = 1
  BY <1>5
<1> QED
  BY <1>2, <1>6, <1>9, <1>10, Zenon

(* An escape is three characters.                                          *)
LEMMA ThreeOf ==
    ASSUME NEW S, NEW q \in S, NEW x \in S, NEW y \in S
    PROVE  <<q, x, y>> \in Seq(S) /\ Len(<<q, x, y>>) = 3
<1>1. <<q, x, y>> \in [1 .. 3 -> S]
  OBVIOUS
<1> QED
  BY <1>1

(* The bytes that are escaped, and what stands for them.                   *)
LEMMA EscapeIs ==
    ASSUME NEW ch \in Char
    PROVE  /\ Escape(ch) \in Seq(Char) /\ Len(Escape(ch)) >= 1
           /\ \A i \in 1 .. Len(Escape(ch)) : Escape(ch)[i] \notin {"&", "|"}
           /\ \/ Escape(ch) = <<ch>> /\ ch # "\\"
              \/ \E h, l \in Hex :
                    Escape(ch) = <<"\\", h, l>> /\ HexByte(h, l) = ch
<1>1. /\ Escape("\\") = <<"\\", "5", "C">> /\ Escape("&") = <<"\\", "2", "6">>
      /\ Escape("|") = <<"\\", "7", "C">> /\ Escape(NUL) = <<"\\", "0", "0">>
  BY DEF Escape, NUL
<1>2. ch \notin {"\\", "&", "|", NUL} => Escape(ch) = <<ch>>
  BY DEF Escape
<1> DEFINE Esc(h, l) == {c \in {"\\", "&", "|", NUL} : Escape(c) = <<"\\", h, l>>}
<1>3. /\ Esc("5", "C") = {"\\"} /\ Esc("2", "6") = {"&"}
      /\ Esc("7", "C") = {"|"} /\ Esc("0", "0") = {NUL}
  BY <1>1
<1>4. /\ HexByte("5", "C") = "\\" /\ HexByte("2", "6") = "&"
      /\ HexByte("7", "C") = "|" /\ HexByte("0", "0") = NUL
  BY <1>3 DEF HexByte
<1>5. CASE ch \in {"\\", "&", "|", NUL}
  <2>1. PICK h \in Hex, l \in Hex : Escape(ch) = <<"\\", h, l>> /\ HexByte(h, l) = ch
    BY <1>1, <1>4, <1>5 DEF Hex
  <2>2. <<"\\", h, l>> \in Seq(Char) /\ Len(<<"\\", h, l>>) = 3
    <3>1. "\\" \in Char /\ Hex \subseteq Char
      BY TextAssumption
    <3> QED
      BY <3>1, ThreeOf
  <2>3. ASSUME NEW i \in 1 .. 3 PROVE <<"\\", h, l>>[i] \notin {"&", "|"}
    <3>1. i = 1 \/ i = 2 \/ i = 3
      OBVIOUS
    <3> QED
      BY <3>1 DEF Hex
  <2> QED
    BY <2>1, <2>2, <2>3
<1>6. CASE ch \notin {"\\", "&", "|", NUL}
  <2>1. Escape(ch) = <<ch>>
    BY <1>2, <1>6
  <2> QED
    BY <1>6, <2>1
<1> QED
  BY <1>5, <1>6

(* An encoded argument is a text without separators, made of the escapes.  *)
LEMMA EncodedArg ==
    ASSUME NEW arg \in Text
    PROVE  /\ EncodeArg(arg) \in Text
           /\ \A i \in 1 .. Len(EncodeArg(arg)) : EncodeArg(arg)[i] \notin {"&", "|"}
           /\ Flat([i \in DOMAIN arg |-> Escape(arg[i])], EncodeArg(arg), Char)
           /\ Len([i \in DOMAIN arg |-> Escape(arg[i])]) = Len(arg)
<1> DEFINE ps == [i \in DOMAIN arg |-> Escape(arg[i])]
           t == EncodeArg(arg)
<1>1. PICK n \in Nat : n = Len(arg) /\ DOMAIN arg = 1 .. n /\ arg \in Seq(Char)
  BY LenProperties DEF Text
<1>2. \A i \in 1 .. n : arg[i] \in Char
  BY <1>1, ElementOfSeq
<1>3. ps \in Seq(Seq(Char)) /\ Len(ps) = n
  <2>1. PICK T : T = Seq(Char)
    OBVIOUS
  <2>2. \A i \in 1 .. n : ps[i] \in T
    BY <1>1, <1>2, <2>1, EscapeIs
  <2>3. ps = [i \in 1 .. n |-> ps[i]]
    BY <1>1, Zenon
  <2> HIDE DEF ps
  <2>4. ps \in Seq(T) /\ Len(ps) = n
    BY <2>2, <2>3, FunctionIsSeq
  <2> QED
    BY <2>1, <2>4, Zenon
<1>4. t = FlattenSeq(ps)
  BY Zenon DEF EncodeArg
<1>5. \A k \in 1 .. n : ps[k] = Escape(arg[k])
  BY <1>1
<1> HIDE DEF ps, t
<1>6. Flat(ps, t, Char)
  BY <1>3, <1>4, Flattened
<1>7. t \in Text
  BY <1>6, Zenon DEF Flat, Text
<1>8. ASSUME NEW i \in 1 .. Len(t) PROVE t[i] \notin {"&", "|"}
  <2>1. PICK k \in 1 .. n : \E j \in 1 .. Len(ps[k]) : t[i] = ps[k][j]
    BY <1>3, <1>6, Zenon DEF Flat
  <2>2. PICK j \in 1 .. Len(Escape(arg[k])) : t[i] = Escape(arg[k])[j]
    BY <1>5, <2>1
  <2> QED
    BY <1>2, <2>2, EscapeIs
<1> QED
  BY <1>1, <1>3, <1>6, <1>7, <1>8 DEF ps, t

(* Decoding undoes encoding, for every argument.                           *)
LEMMA DecodeEncode ==
    ASSUME NEW arg \in Text
    PROVE  DecodeArg(EncodeArg(arg)) = arg
<1>1. PICK n \in Nat : n = Len(arg) /\ DOMAIN arg = 1 .. n /\ arg \in Seq(Char)
  BY LenProperties DEF Text
<1>2. PICK t \in Seq(Char) : t = EncodeArg(arg)
  BY EncodedArg DEF Text
<1>3. PICK N \in Nat : N = Len(t)
  BY LenProperties
<1>4. PICK ps : ps = [i \in 1 .. n |-> Escape(arg[i])]
  OBVIOUS
<1>5. Flat(ps, t, Char) /\ Len(ps) = n
  BY <1>1, <1>2, <1>4, EncodedArg
<1>6. PICK pos \in [0 .. n -> Nat] :
         /\ pos[0] = 0 /\ pos[n] = N
         /\ \A k \in 0 .. n - 1 :
               /\ pos[k + 1] = pos[k] + Len(ps[k + 1])
               /\ pos[k + 1] <= N
               /\ \A c \in 1 .. Len(ps[k + 1]) : t[pos[k] + c] = ps[k + 1][c]
  BY <1>3, <1>5, Zenon DEF Flat
<1> DEFINE Esc(i) == /\ t[i] = "\\" /\ i + 2 <= N
                     /\ {t[i + 1], t[i + 2]} \subseteq Hex
           dec[i \in 1 .. N + 3] ==
              IF i > N THEN <<>>
              ELSE IF Esc(i) THEN <<HexByte(t[i + 1], t[i + 2])>> \o dec[i + 3]
              ELSE <<t[i]>> \o dec[i + 1]
<1>7. DecodeArg(t) = dec[1]
  BY <1>3, Zenon DEF DecodeArg
<1>8. \A i \in 1 .. N + 3 :
         dec[i] = IF i > N THEN <<>>
                  ELSE IF Esc(i) THEN <<HexByte(t[i + 1], t[i + 2])>> \o dec[i + 3]
                  ELSE <<t[i]>> \o dec[i + 1]
  <2> DEFINE final == {i \in 1 .. N + 3 : i > N}
             base == [i \in 1 .. N + 3 |-> <<>>]
             front == [i \in 1 .. N + 3 |-> IF Esc(i) THEN <<HexByte(t[i + 1], t[i + 2])>>
                                           ELSE <<t[i]>>]
             jump == [i \in 1 .. N + 3 |-> IF Esc(i) THEN i + 3 ELSE i + 1]
  <2>1. ASSUME NEW i \in 1 .. N + 3, i \notin final
        PROVE  jump[i] \in i + 1 .. N + 3
    <3>1. i <= N
      BY <2>1
    <3>2. jump[i] = i + 3 \/ jump[i] = i + 1
      <4> HIDE DEF Esc
      <4> QED
        BY Zenon
    <3> HIDE DEF jump
    <3> QED
      BY <3>1, <3>2
  <2>2. PICK f : RightRec(f, N + 3, final, base, front, jump)
    <3> HIDE DEF final, base, front, jump
    <3> QED
      BY <2>1, N + 3 \in Nat, RightRecursion
  <2>3. \A i \in 1 .. N + 3 : i \in final <=> i > N
    OBVIOUS
  <2>4. f = [i \in 1 .. N + 3 |-> f[i]]
    BY <2>2, Zenon DEF RightRec
  <2>5. ASSUME NEW i \in 1 .. N + 3
        PROVE  f[i] = IF i > N THEN <<>>
                      ELSE IF Esc(i) THEN <<HexByte(t[i + 1], t[i + 2])>> \o f[i + 3]
                      ELSE <<t[i]>> \o f[i + 1]
    <3> HIDE DEF Esc, final
    <3>1. f[i] = IF i \in final THEN base[i] ELSE front[i] \o f[jump[i]]
      BY <2>2, Zenon DEF RightRec
    <3>2. base[i] = <<>>
      BY Zenon
    <3>3. CASE Esc(i)
      <4>1. front[i] = <<HexByte(t[i + 1], t[i + 2])>> /\ jump[i] = i + 3
        BY <3>3, Zenon
      <4> HIDE DEF base, front, jump
      <4> QED
        BY <2>3, <3>1, <3>2, <3>3, <4>1, Zenon
    <3>4. CASE ~ Esc(i)
      <4>1. front[i] = <<t[i]>> /\ jump[i] = i + 1
        BY <3>4, Zenon
      <4> HIDE DEF base, front, jump
      <4> QED
        BY <2>3, <3>1, <3>2, <3>4, <4>1, Zenon
    <3> QED
      BY <3>3, <3>4, Zenon
  <2>6. f = [i \in 1 .. N + 3 |->
               IF i > N THEN <<>>
               ELSE IF Esc(i) THEN <<HexByte(t[i + 1], t[i + 2])>> \o f[i + 3]
               ELSE <<t[i]>> \o f[i + 1]]
    <3> HIDE DEF Esc
    <3> QED
      BY <2>4, <2>5, Zenon
  <2>7. dec = [i \in 1 .. N + 3 |->
               IF i > N THEN <<>>
               ELSE IF Esc(i) THEN <<HexByte(t[i + 1], t[i + 2])>> \o dec[i + 3]
               ELSE <<t[i]>> \o dec[i + 1]]
    <3> HIDE DEF Esc
    <3> QED
      BY <2>6, Zenon
  <2> HIDE DEF dec, Esc
  <2> QED
    BY <2>7, Zenon
<1> HIDE DEF dec
<1>9. ASSUME NEW m \in 0 .. n - 1
      PROVE  dec[pos[m] + 1] = <<arg[m + 1]>> \o dec[pos[m + 1] + 1]
  <2>1. m + 1 \in 1 .. n /\ m \in 0 .. n
    OBVIOUS
  <2>2. PICK ch \in Char : ch = arg[m + 1]
    BY <1>1, <2>1, ElementOfSeq
  <2>3. ps[m + 1] = Escape(ch)
    BY <1>4, <2>1, <2>2
  <2>4. PICK o \in Nat : o = pos[m]
    BY <2>1
  <2>5. /\ pos[m + 1] = o + Len(Escape(ch)) /\ pos[m + 1] <= N
        /\ \A c \in 1 .. Len(Escape(ch)) : t[o + c] = Escape(ch)[c]
    BY <1>6, <2>3, <2>4, Zenon
  <2>6. CASE Escape(ch) = <<ch>> /\ ch # "\\"
    <3>1. pos[m + 1] = o + 1 /\ o + 1 <= N /\ t[o + 1] = ch
      BY <2>5, <2>6
    <3>2. o + 1 \in 1 .. N + 3 /\ ~ (o + 1 > N) /\ ~ Esc(o + 1)
      BY <2>6, <3>1
    <3>3. dec[o + 1] = <<t[o + 1]>> \o dec[o + 1 + 1]
      <4> HIDE DEF Esc
      <4> QED
        BY <1>8, <3>2
    <3> QED
      BY <2>2, <2>4, <3>1, <3>3, Zenon
  <2>7. CASE \E h, l \in Hex : Escape(ch) = <<"\\", h, l>> /\ HexByte(h, l) = ch
    <3>1. PICK h \in Hex, l \in Hex : Escape(ch) = <<"\\", h, l>> /\ HexByte(h, l) = ch
      BY <2>7
    <3>2. /\ pos[m + 1] = o + 3 /\ o + 3 <= N
          /\ t[o + 1] = "\\" /\ t[o + 2] = h /\ t[o + 3] = l
      BY <2>5, <3>1
    <3>3. o + 1 + 1 = o + 2 /\ o + 1 + 2 = o + 3 /\ o + 1 + 3 = o + 3 + 1
      OBVIOUS
    <3>4. o + 1 \in 1 .. N + 3 /\ ~ (o + 1 > N) /\ Esc(o + 1)
      BY <3>2, <3>3
    <3>5. dec[o + 1] = <<HexByte(t[o + 1 + 1], t[o + 1 + 2])>> \o dec[o + 1 + 3]
      <4> HIDE DEF Esc
      <4> QED
        BY <1>8, <3>4
    <3>6. dec[o + 1] = <<ch>> \o dec[o + 3 + 1]
      BY <3>1, <3>2, <3>3, <3>5
    <3> QED
      BY <2>2, <2>4, <3>2, <3>6, Zenon
  <2> QED
    BY <2>6, <2>7, EscapeIs
<1> HIDE DEF Esc
<1> DEFINE X == {j \in Nat : j <= n => dec[pos[n - j] + 1] = SubSeq(arg, n - j + 1, n)}
<1>10. 0 \in X
  <2>1. n - 0 = n /\ N + 1 \in 1 .. N + 3 /\ N + 1 > N /\ n + 1 \in Int /\ n < n + 1
    OBVIOUS
  <2>2. dec[N + 1] = <<>>
    BY <1>8, <2>1
  <2>3. SubSeq(arg, n + 1, n) = <<>>
    BY <2>1, SubSeqEmpty
  <2>4. dec[pos[n - 0] + 1] = SubSeq(arg, n - 0 + 1, n)
    BY <1>6, <2>1, <2>2, <2>3
  <2> QED
    BY <2>4
<1>11. ASSUME NEW j \in X PROVE j + 1 \in X
  <2>1. j \in Nat /\ j + 1 \in Nat
    OBVIOUS
  <2> SUFFICES ASSUME j + 1 <= n
               PROVE  dec[pos[n - (j + 1)] + 1] = SubSeq(arg, n - (j + 1) + 1, n)
    BY <2>1, Zenon
  <2>2. PICK m \in 0 .. n - 1 : m = n - (j + 1)
    BY <2>1
  <2>3. m + 1 = n - j
    BY <2>1, <2>2
  <2>4. dec[pos[n - j] + 1] = SubSeq(arg, n - j + 1, n)
    BY <2>1
  <2>5. dec[pos[m] + 1] = <<arg[m + 1]>> \o dec[pos[m + 1] + 1]
    BY <1>9, Zenon
  <2>6. SubSeq(arg, m + 1, n) = <<arg[m + 1]>> \o SubSeq(arg, m + 1 + 1, n)
    <3>1. m + 1 \in 1 .. Len(arg) /\ n \in m + 1 .. Len(arg)
      BY <1>1
    <3> QED
      BY <1>1, <3>1, SubSeqRecursiveFirst
  <2> HIDE DEF X
  <2> QED
    BY <2>2, <2>3, <2>4, <2>5, <2>6
<1>12. n \in X
  <2>1. X \subseteq Nat
    OBVIOUS
  <2> HIDE DEF X
  <2> QED
    BY <1>10, <1>11, <2>1, CountUp
<1>13. dec[pos[0] + 1] = SubSeq(arg, 1, n)
  <2>1. n - n = 0 /\ n - n + 1 = 1
    OBVIOUS
  <2>2. dec[pos[n - n] + 1] = SubSeq(arg, n - n + 1, n)
    BY <1>12
  <2> QED
    BY <2>1, <2>2
<1>14. SubSeq(arg, 1, n) = arg
  BY <1>1, SubSeqFull
<1>15. pos[0] + 1 = 1
  BY <1>6
<1> QED
  BY <1>2, <1>7, <1>13, <1>14, <1>15, Zenon

(* A command is read back from its text, which holds no "|".               *)
LEMMA CommandRead ==
    ASSUME NEW cmd \in Command,
           \A i \in 1 .. Len(cmd.name) : cmd.name[i] \notin {"&", "|"}
    PROVE  /\ CommandString(cmd) \in Text
           /\ \A i \in 1 .. Len(CommandString(cmd)) : CommandString(cmd)[i] # "|"
           /\ CommandFromString(CommandString(cmd)) = cmd
<1>1. PICK name \in Seq(Char), args \in Seq(Text) : cmd = [name |-> name, args |-> args]
  BY DEF Command, Text
<1>2. PICK n \in Nat : n = Len(args) /\ DOMAIN args = 1 .. n
  BY LenProperties
<1>3. PICK es : es = [i \in 1 .. n |-> EncodeArg(args[i])]
  OBVIOUS
<1>4. \A i \in 1 .. n : args[i] \in Text
  BY <1>2, ElementOfSeq
<1>5. es \in Seq(Text) /\ Len(es) = n
  <2>1. \A i \in 1 .. n : es[i] \in Text
    BY <1>3, <1>4, EncodedArg
  <2>2. es = [i \in 1 .. n |-> es[i]]
    BY <1>3, Zenon
  <2> QED
    BY <2>1, <2>2, FunctionIsSeq
<1>6. PICK ps : ps = <<name>> \o es
  OBVIOUS
<1>7. <<name>> \in Seq(Text) /\ Len(<<name>>) = 1 /\ <<name>>[1] = name
  BY DEF Text
<1>8. Sides(<<name>>, es, ps, Text)
  BY <1>5, <1>6, <1>7, ConcatSides
<1>9. ps \in Seq(Text) /\ Len(ps) = n + 1 /\ ps[1] = name
  <2>1. /\ ps \in Seq(Text) /\ Len(ps) = Len(<<name>>) + Len(es)
        /\ \A i \in 1 .. Len(<<name>>) : ps[i] = <<name>>[i]
    BY <1>8, Zenon DEF Sides
  <2>2. Len(ps) = 1 + n
    BY <1>5, <1>7, <2>1, Zenon
  <2>3. 1 \in 1 .. Len(<<name>>)
    BY <1>7
  <2> QED
    BY <1>7, <2>1, <2>2, <2>3
<1>10. \A i \in 1 .. n : ps[i + 1] = EncodeArg(args[i])
  <2>1. \A i \in 1 .. Len(es) : ps[Len(<<name>>) + i] = es[i]
    BY <1>8, Zenon DEF Sides
  <2>2. \A i \in 1 .. n : ps[1 + i] = es[i]
    BY <1>5, <1>7, <2>1, Zenon
  <2>3. ASSUME NEW i \in 1 .. n PROVE ps[i + 1] = EncodeArg(args[i])
    <3>1. 1 + i = i + 1
      OBVIOUS
    <3> QED
      BY <1>3, <2>2, <3>1
  <2> QED
    BY <2>3
<1>11. ASSUME NEW k \in 1 .. n + 1, NEW j \in 1 .. Len(ps[k])
       PROVE  ps[k][j] \notin {"&", "|"}
  <2>1. CASE k = 1
    BY <1>1, <1>9, <2>1
  <2>2. CASE k # 1
    <3>1. k - 1 \in 1 .. n /\ k - 1 + 1 = k
      BY <2>2
    <3>2. ps[k] = EncodeArg(args[k - 1])
      BY <1>10, <3>1
    <3> QED
      BY <1>4, <3>1, <3>2, EncodedArg
  <2> QED
    BY <2>1, <2>2
<1>12. "&" \in Char /\ ps # <<>> /\ ps \in Seq(Seq(Char))
  <2>1. "&" \in Char
    BY TextAssumption
  <2>2. ps # <<>>
    BY <1>9, EmptySeq
  <2> QED
    BY <1>9, <2>1, <2>2, Zenon DEF Text
<1>13. PICK t : t = Join(ps, "&")
  OBVIOUS
<1>14. CommandString(cmd) = t
  <2>1. cmd.name = name /\ cmd.args = args
    BY <1>1
  <2> QED
    BY <1>2, <1>3, <1>6, <1>13, <2>1, Zenon DEF CommandString
<1>15. t \in Text
  BY <1>12, <1>13, JoinLaid DEF Text
<1>16. ASSUME NEW i \in 1 .. Len(t) PROVE t[i] # "|"
  <2>1. JoinHolds(ps, "&", t)
    BY <1>12, <1>13, JoinLaid
  <2>2. t[i] # "&" =>
           \E k \in 1 .. n + 1 : \E j \in 1 .. Len(ps[k]) : t[i] = ps[k][j]
    BY <1>9, <2>1, Zenon DEF JoinHolds
  <2> QED
    BY <1>11, <2>2
<1>17. Split(t, "&") = ps
  <2>1. \A k \in 1 .. Len(ps) : \A j \in 1 .. Len(ps[k]) : ps[k][j] # "&"
    BY <1>9, <1>11
  <2> QED
    BY <1>12, <1>13, <2>1, SplitJoin
<1>18. CommandFromString(t) = cmd
  <2>1. Head(ps) = name
    BY <1>9, <1>12
  <2>2. Len(ps) - 1 = n
    BY <1>9
  <2>3. \A i \in 1 .. n : DecodeArg(ps[i + 1]) = args[i]
    BY <1>4, <1>10, DecodeEncode
  <2>4. [i \in 1 .. n |-> DecodeArg(ps[i + 1])] = args
    <3>1. args = [i \in 1 .. n |-> args[i]]
      BY <1>2
    <3> QED
      BY <2>3, <3>1, Zenon
  <2> QED
    BY <1>1, <1>17, <2>1, <2>2, <2>4, Zenon DEF CommandFromString
<1> QED
  BY <1>14, <1>15, <1>16, <1>18

(* A command set is read back from its text.                               *)
LEMMA SetRead ==
    ASSUME NEW set \in TextSets
    PROVE  SetFromString(SetString(set)) = set
<1>1. PICK n \in Nat \ {0} : n = Len(set) /\ DOMAIN set = 1 .. n /\ set \in Seq(Command)
  BY TextAssumption, EmptySeq, LenProperties
<1>2. \A k \in 1 .. n : set[k] \in Command
  BY <1>1, ElementOfSeq
<1>3. ASSUME NEW k \in 1 .. n
      PROVE  \A i \in 1 .. Len(set[k].name) : set[k].name[i] \notin {"&", "|"}
  <2>1. set[k].name \in Seq(Char)
    BY <1>2 DEF Command, Text
  <2>2. DOMAIN set[k].name = 1 .. Len(set[k].name)
    BY <2>1, LenProperties
  <2> QED
    BY <1>1, <2>2, TextAssumption
<1>4. PICK ps : ps = [k \in 1 .. n |-> CommandString(set[k])]
  OBVIOUS
<1>5. \A k \in 1 .. n : /\ ps[k] \in Text
                        /\ \A i \in 1 .. Len(ps[k]) : ps[k][i] # "|"
                        /\ CommandFromString(ps[k]) = set[k]
  BY <1>2, <1>3, <1>4, CommandRead
<1>6. ps \in Seq(Text) /\ Len(ps) = n
  <2>1. ps = [k \in 1 .. n |-> ps[k]]
    BY <1>4, Zenon
  <2> QED
    BY <1>5, <2>1, FunctionIsSeq
<1>7. ps \in Seq(Seq(Char)) /\ ps # <<>> /\ "|" \in Char /\ DOMAIN ps = 1 .. n
  <2>1. ps # <<>>
    BY <1>6, EmptySeq
  <2>2. "|" \in Char
    BY TextAssumption
  <2> QED
    BY <1>6, <2>1, <2>2, LenProperties DEF Text
<1>8. SetString(set) = Join(ps, "|")
  BY <1>1, <1>4, Zenon DEF SetString
<1>9. Split(Join(ps, "|"), "|") = ps
  BY <1>5, <1>6, <1>7, SplitJoin
<1>10. SetFromString(Join(ps, "|")) = [k \in 1 .. n |-> CommandFromString(ps[k])]
  BY <1>7, <1>9, Zenon DEF SetFromString
<1>11. [k \in 1 .. n |-> CommandFromString(ps[k])] = set
  <2>1. set = [k \in 1 .. n |-> set[k]]
    BY <1>1
  <2> QED
    BY <1>5, <2>1, Zenon
<1> QED
  BY <1>8, <1>10, <1>11, Zenon

(* No ^ of a value ends it when no ^ there is before a "=" or a pair, and  *)
(* the ^ after it does when a parameter follows.                           *)
LEMMA SeparatorsOf ==
    ASSUME NEW v \in Text, NEW r \in Text, NEW L \in Nat, L = Len(v),
           \A i \in 1 .. L : r[i] = v[i],
           ~ HasCaretEq(v), ~ HasPairInside(v)
    PROVE  /\ Len(r) = L => Separators(r) = {}
           /\ L + 3 <= Len(r) /\ r[L + 1] = "^" /\ r[L + 2] \in KeyBytes
              /\ r[L + 3] = "="
              => Separators(r) # {} /\ Min(Separators(r)) = L + 1
<1>1. PICK N \in Nat : N = Len(r) /\ DOMAIN v = 1 .. L
  BY LenProperties DEF Text
<1>2. ASSUME NEW i \in Separators(r), i <= L, Len(r) = L \/ r[L + 1] = "^"
      PROVE  FALSE
  <2>1. i \in 1 .. N - 1 /\ r[i] = "^"
    BY <1>1 DEF Separators
  <2>2. PICK j \in i + 1 .. N :
           r[j] = "=" /\ \A n \in i + 1 .. j - 1 : r[n] \in KeyBytes
    BY <1>1 DEF Separators
  <2>3. j <= L
    <3>1. CASE N = L
      BY <2>2, <3>1
    <3>2. CASE N # L
      <4>1. r[L + 1] = "^" /\ "^" \notin KeyBytes
        BY <1>1, <1>2, <3>2 DEF KeyBytes
      <4>2. j # L + 1
        BY <2>2, <4>1
      <4>3. L + 1 \notin i + 1 .. j - 1
        BY <2>2, <4>1
      <4> QED
        BY <1>2, <2>1, <4>2, <4>3
    <3> QED
      BY <3>1, <3>2
  <2>4. i \in 1 .. L /\ j \in 1 .. L /\ v[i] = "^" /\ v[j] = "="
    BY <1>2, <2>1, <2>2, <2>3
  <2>5. CASE j = i + 1
    <3>1. i \in 1 .. L - 1 /\ v[i + 1] = "="
      BY <2>4, <2>5
    <3> QED
      BY <2>4, <3>1 DEF HasCaretEq
  <2>6. CASE j # i + 1
    <3>1. i + 1 < j
      BY <2>1, <2>2, <2>6
    <3>2. \A n \in i + 1 .. j - 1 : n \in 1 .. L
      BY <2>1, <2>3
    <3>3. \A n \in i + 1 .. j - 1 : v[n] \in KeyBytes
      BY <2>2, <3>2
    <3> QED
      BY <1>1, <2>4, <3>1, <3>3 DEF HasPairInside
  <2> QED
    BY <2>5, <2>6
<1>3. ASSUME Len(r) = L PROVE Separators(r) = {}
  <2>1. \A i \in Separators(r) : i <= L
    BY <1>1, <1>3 DEF Separators
  <2> QED
    BY <1>2, <1>3, <2>1
<1>4. ASSUME L + 3 <= Len(r), r[L + 1] = "^", r[L + 2] \in KeyBytes, r[L + 3] = "="
      PROVE  Separators(r) # {} /\ Min(Separators(r)) = L + 1
  <2>1. L + 1 \in Separators(r)
    <3>1. L + 1 \in 1 .. N - 1 /\ L + 3 \in L + 1 + 1 .. N
      BY <1>1, <1>4
    <3>2. \A n \in L + 1 + 1 .. L + 3 - 1 : n = L + 2
      OBVIOUS
    <3>3. \A n \in L + 1 + 1 .. L + 3 - 1 : r[n] \in KeyBytes
      BY <1>4, <3>2
    <3> QED
      BY <1>1, <1>4, <3>1, <3>3 DEF Separators
  <2>2. Separators(r) \in SUBSET Nat
    BY <1>1 DEF Separators
  <2>3. \A i \in Separators(r) : L + 1 <= i
    <3>1. \A i \in Separators(r) : ~ (i <= L)
      BY <1>2, <1>4
    <3> QED
      BY <2>2, <3>1
  <2> QED
    BY <2>1, <2>2, <2>3, MinOf
<1> QED
  BY <1>3, <1>4

(* What SubSeq leaves of a sequence behind its first o members.            *)
LEMMA TailCut ==
    ASSUME NEW S, NEW s \in Seq(S), NEW N \in Nat, N = Len(s), NEW o \in 0 .. N
    PROVE  /\ SubSeq(s, o + 1, N) \in Seq(S)
           /\ Len(SubSeq(s, o + 1, N)) = N - o
           /\ \A i \in 1 .. N - o : SubSeq(s, o + 1, N)[i] = s[o + i]
<1> DEFINE q == SubSeq(s, o + 1, N)
<1>1. \A i \in o + 1 .. N : s[i] \in S
  <2>1. \A i \in o + 1 .. N : i \in 1 .. Len(s)
    OBVIOUS
  <2> QED
    BY <2>1, ElementOfSeq
<1>2. /\ q \in Seq(S)
      /\ Len(q) = IF o + 1 <= N THEN N - (o + 1) + 1 ELSE 0
      /\ \A i \in 1 .. N - (o + 1) + 1 : q[i] = s[o + 1 + i - 1]
  BY <1>1, SubSeqProperties
<1> HIDE DEF q
<1>3. Len(q) = N - o
  BY <1>2
<1>4. \A i \in 1 .. N - o : i \in 1 .. N - (o + 1) + 1 /\ o + 1 + i - 1 = o + i
  OBVIOUS
<1>5. \A i \in 1 .. N - o : q[i] = s[o + i]
  BY <1>2, <1>4
<1> QED
  BY <1>2, <1>3, <1>5 DEF q

(* What the parser reads of a text p that begins with a parameter.         *)
Begins(p, M, key, v, L) ==
    /\ IndexOf(p, "=") = 2 /\ SubSeq(p, 1, 1) = <<key>>
    /\ SubSeq(p, 3, M) \in Seq(Char) /\ Len(SubSeq(p, 3, M)) = M - 2
    /\ \A i \in 1 .. M - 2 : SubSeq(p, 3, M)[i] = p[2 + i]
    /\ \A i \in 1 .. L : SubSeq(p, 3, M)[i] = v[i]
    /\ SubSeq(SubSeq(p, 3, M), 1, L) = v
    /\ M = L + 2 => SubSeq(p, 3, M) = v

(* A text that begins with key=value does so for the parser.               *)
LEMMA ParamAt ==
    ASSUME NEW key \in KeyBytes, NEW v \in Seq(Char), NEW L \in Nat, L = Len(v),
           NEW p \in Seq(Char), NEW M \in Nat, M = Len(p), L + 2 <= M,
           p[1] = key, p[2] = "=", \A i \in 1 .. L : p[2 + i] = v[i]
    PROVE  Begins(p, M, key, v, L)
<1>1. key \in Char /\ key # "="
  BY TextAssumption DEF KeyBytes
<1>2. IndexOf(p, "=") = 2
  <2> DEFINE at == {i \in DOMAIN p : p[i] = "="}
  <2>1. DOMAIN p = 1 .. M
    BY LenProperties
  <2>2. 2 \in at /\ at \in SUBSET Nat /\ \A i \in at : 2 <= i
    <3>1. 1 \notin at
      BY <1>1
    <3> QED
      BY <2>1, <3>1
  <2> HIDE DEF at
  <2>3. Min(at) = 2 /\ at # {}
    BY <2>2, MinOf
  <2> QED
    BY <2>3, Zenon DEF at, IndexOf
<1>3. SubSeq(p, 1, 1) = <<key>>
  <2>1. PICK k \in Seq(Char) : k = <<key>> /\ Len(k) = 1 /\ k[1] = key
    <3>1. <<key>> \in Seq(Char) /\ Len(<<key>>) = 1 /\ <<key>>[1] = key
      BY <1>1
    <3> QED
      BY <3>1, Zenon
  <2>2. 0 + Len(k) <= Len(p) /\ \A i \in 1 .. Len(k) : p[0 + i] = k[i]
    BY <2>1
  <2>3. SubSeq(p, 0 + 1, 0 + Len(k)) = k
    BY <2>2, PartCut
  <2>4. 0 + 1 = 1 /\ 0 + Len(k) = 1
    BY <2>1
  <2> QED
    BY <2>1, <2>3, <2>4
<1>4. PICK r \in Seq(Char) : /\ r = SubSeq(p, 3, M) /\ Len(r) = M - 2
                             /\ \A i \in 1 .. M - 2 : r[i] = p[2 + i]
  <2>1. PICK o \in 0 .. M : o = 2 /\ o + 1 = 3
    OBVIOUS
  <2>2. /\ SubSeq(p, o + 1, M) \in Seq(Char)
        /\ Len(SubSeq(p, o + 1, M)) = M - o
        /\ \A i \in 1 .. M - o : SubSeq(p, o + 1, M)[i] = p[o + i]
    BY TailCut
  <2> QED
    BY <2>1, <2>2, Zenon
<1>5. \A i \in 1 .. L : r[i] = v[i]
  <2>1. \A i \in 1 .. L : i \in 1 .. M - 2
    OBVIOUS
  <2> QED
    BY <1>4, <2>1
<1>6. SubSeq(r, 1, L) = v
  <2>1. 0 + Len(v) <= Len(r) /\ \A i \in 1 .. Len(v) : r[0 + i] = v[i]
    BY <1>4, <1>5
  <2>2. SubSeq(r, 0 + 1, 0 + Len(v)) = v
    BY <2>1, PartCut
  <2> QED
    BY <2>2
<1>7. M = L + 2 => r = v
  BY <1>4, <1>5, SeqEqual
<1> QED
  BY <1>2, <1>3, <1>4, <1>5, <1>6, <1>7 DEF Begins

(* IndexOf is a position or 0.                                             *)
LEMMA IndexOfIn ==
    ASSUME NEW S, NEW p \in Seq(S), NEW c
    PROVE  IndexOf(p, c) \in 0 .. Len(p)
<1> DEFINE at == {i \in DOMAIN p : p[i] = c}
<1>1. PICK n \in Nat : n = Len(p) /\ DOMAIN p = 1 .. n
  BY LenProperties
<1>2. at \subseteq 1 .. n
  BY <1>1, Zenon
<1>3. IndexOf(p, c) = IF at = {} THEN 0 ELSE Min(at)
  BY Zenon DEF IndexOf
<1> HIDE DEF at
<1>4. at \in SUBSET Nat
  BY <1>2
<1>5. at # {} => Min(at) \in at
  BY <1>4, MinIsLeast
<1>6. CASE at = {}
  BY <1>1, <1>3, <1>6
<1>7. CASE at # {}
  <2>1. Min(at) \in 1 .. n /\ IndexOf(p, c) = Min(at)
    BY <1>2, <1>3, <1>5, <1>7
  <2>2. \A i \in 1 .. n : i \in 0 .. n
    OBVIOUS
  <2> QED
    BY <1>1, <2>1, <2>2, Zenon
<1> QED
  BY <1>6, <1>7

(* A separator is before the last character.                               *)
LEMMA SeparatorsIn ==
    ASSUME NEW S, NEW r \in Seq(S), Separators(r) # {}
    PROVE  Min(Separators(r)) \in 1 .. Len(r) - 1
<1>1. PICK n \in Nat : n = Len(r)
  BY LenProperties
<1>2. Separators(r) \subseteq 1 .. n - 1
  BY <1>1 DEF Separators
<1>3. Separators(r) \in SUBSET Nat
  BY <1>2
<1>4. Min(Separators(r)) \in Separators(r)
  BY <1>3, MinIsLeast
<1> QED
  BY <1>1, <1>2, <1>4, Zenon

(* ParseOpenParams as a function f of the place that is read.              *)
ParsesAs(t, f) ==
    LET N == Len(t)
        params(from) == SubSeq(t, from, N)
        eq(from) == IndexOf(params(from), "=")
        rest(from) == SubSeq(params(from), eq(from) + 1, Len(params(from)))
        next(from) == Separators(rest(from))
        pair(from, v) == [key |-> SubSeq(params(from), 1, eq(from) - 1), value |-> v]
    IN  /\ ParseOpenParams(t) = f[1]
        /\ \A from \in 1 .. N + 1 :
              f[from] = IF eq(from) <= 1 THEN <<>>
                        ELSE IF next(from) = {} THEN <<pair(from, rest(from))>>
                        ELSE <<pair(from, SubSeq(rest(from), 1, Min(next(from)) - 1))>>
                             \o f[from + eq(from) + Min(next(from))]

(* ParseOpenParams is such a function, for every text.                     *)
LEMMA ParseDefined ==
    ASSUME NEW t \in Seq(Char)
    PROVE  \E f : ParsesAs(t, f)
<1>1. PICK N \in Nat : N = Len(t)
  BY LenProperties
<1> DEFINE params(from) == SubSeq(t, from, N)
           eq(from) == IndexOf(params(from), "=")
           rest(from) == SubSeq(params(from), eq(from) + 1, Len(params(from)))
           next(from) == Separators(rest(from))
           pair(from, v) == [key |-> SubSeq(params(from), 1, eq(from) - 1), value |-> v]
           parse[from \in 1 .. N + 1] ==
              IF eq(from) <= 1 THEN <<>>
              ELSE IF next(from) = {} THEN <<pair(from, rest(from))>>
              ELSE <<pair(from, SubSeq(rest(from), 1, Min(next(from)) - 1))>>
                   \o parse[from + eq(from) + Min(next(from))]
           final == {from \in 1 .. N + 1 : eq(from) <= 1 \/ next(from) = {}}
           base == [from \in 1 .. N + 1 |->
                       IF eq(from) <= 1 THEN <<>> ELSE <<pair(from, rest(from))>>]
           front == [from \in 1 .. N + 1 |->
                       <<pair(from, SubSeq(rest(from), 1, Min(next(from)) - 1))>>]
           jump == [from \in 1 .. N + 1 |-> from + eq(from) + Min(next(from))]
<1>2. ParseOpenParams(t) = parse[1]
  BY <1>1, ZenonT(60) DEF ParseOpenParams
<1>3. ASSUME NEW from \in 1 .. N + 1, from \notin final
      PROVE  jump[from] \in from + 1 .. N + 1
  <2>1. next(from) # {} /\ jump[from] = from + eq(from) + Min(next(from))
    <3> HIDE DEF eq, next
    <3> QED
      BY <1>3, Zenon
  <2>2. PICK o \in 0 .. N : from = o + 1
    <3>1. from - 1 \in 0 .. N /\ from = from - 1 + 1
      OBVIOUS
    <3> QED
      BY <3>1, Zenon
  <2>3. PICK p \in Seq(Char) : p = params(from) /\ Len(p) = N - o
    <3>1. SubSeq(t, o + 1, N) \in Seq(Char) /\ Len(SubSeq(t, o + 1, N)) = N - o
      BY <1>1, TailCut
    <3>2. params(from) = SubSeq(t, o + 1, N)
      BY <2>2, Zenon
    <3> QED
      BY <3>1, <3>2, Zenon
  <2>4. PICK e \in 0 .. N - o : e = eq(from)
    <3>1. IndexOf(p, "=") \in 0 .. N - o
      BY <2>3, IndexOfIn
    <3> QED
      BY <2>3, <3>1, Zenon
  <2>5. PICK M \in Nat : M = N - o
    BY <2>2
  <2>6. PICK r \in Seq(Char) : r = rest(from) /\ Len(r) = M - e
    <3>1. rest(from) = SubSeq(p, e + 1, M) /\ M = Len(p) /\ e \in 0 .. M
      BY <2>3, <2>4, <2>5, Zenon
    <3>2. SubSeq(p, e + 1, M) \in Seq(Char) /\ Len(SubSeq(p, e + 1, M)) = M - e
      BY <3>1, TailCut
    <3> QED
      BY <3>1, <3>2, Zenon
  <2>7. PICK d \in 1 .. M - e - 1 : d = Min(next(from))
    <3>1. next(from) = Separators(r)
      BY <2>6, Zenon
    <3>2. Min(Separators(r)) \in 1 .. M - e - 1
      BY <2>1, <2>6, <3>1, SeparatorsIn
    <3> QED
      BY <3>1, <3>2, Zenon
  <2>8. jump[from] = o + 1 + e + d
    <3> HIDE DEF jump, eq, next
    <3> QED
      BY <2>1, <2>2, <2>4, <2>7, Zenon
  <2>9. o + 1 + e + d \in o + 1 + 1 .. N + 1
    BY <2>2, <2>4, <2>5, <2>7, SMTT(30)
  <2> HIDE DEF jump
  <2> QED
    BY <2>2, <2>8, <2>9, Zenon
<1>4. PICK f : RightRec(f, N + 1, final, base, front, jump)
  <2> HIDE DEF final, base, front, jump
  <2> QED
    BY <1>3, N + 1 \in Nat, RightRecursion
<1>5. f = [from \in 1 .. N + 1 |->
             IF eq(from) <= 1 THEN <<>>
             ELSE IF next(from) = {} THEN <<pair(from, rest(from))>>
             ELSE <<pair(from, SubSeq(rest(from), 1, Min(next(from)) - 1))>>
                  \o f[from + eq(from) + Min(next(from))]]
  <2>1. f = [from \in 1 .. N + 1 |-> f[from]]
    BY <1>4, Zenon DEF RightRec
  <2>2. ASSUME NEW from \in 1 .. N + 1
        PROVE  f[from] =
             IF eq(from) <= 1 THEN <<>>
             ELSE IF next(from) = {} THEN <<pair(from, rest(from))>>
             ELSE <<pair(from, SubSeq(rest(from), 1, Min(next(from)) - 1))>>
                  \o f[from + eq(from) + Min(next(from))]
    <3>1. f[from] = IF from \in final THEN base[from] ELSE front[from] \o f[jump[from]]
      <4> HIDE DEF final, base, front, jump
      <4> QED
        BY <1>4, Zenon DEF RightRec
    <3> HIDE DEF eq, rest, next, pair
    <3>2. from \in final <=> eq(from) <= 1 \/ next(from) = {}
      BY Zenon
    <3>3. base[from] = IF eq(from) <= 1 THEN <<>> ELSE <<pair(from, rest(from))>>
      BY Zenon
    <3>4. front[from] = <<pair(from, SubSeq(rest(from), 1, Min(next(from)) - 1))>>
      BY Zenon
    <3>5. jump[from] = from + eq(from) + Min(next(from))
      BY Zenon
    <3> HIDE DEF final, base, front, jump
    <3> QED
      BY <3>1, <3>2, <3>3, <3>4, <3>5, Zenon
  <2> HIDE DEF eq, rest, next, pair
  <2> QED
    BY <2>1, <2>2, Zenon
<1>6. parse = [from \in 1 .. N + 1 |->
             IF eq(from) <= 1 THEN <<>>
             ELSE IF next(from) = {} THEN <<pair(from, rest(from))>>
             ELSE <<pair(from, SubSeq(rest(from), 1, Min(next(from)) - 1))>>
                  \o parse[from + eq(from) + Min(next(from))]]
  <2> HIDE DEF params, eq, rest, next, pair
  <2> QED
    BY <1>5, Zenon
<1> HIDE DEF parse
<1>7. \A from \in 1 .. N + 1 : parse[from] =
             IF eq(from) <= 1 THEN <<>>
             ELSE IF next(from) = {} THEN <<pair(from, rest(from))>>
             ELSE <<pair(from, SubSeq(rest(from), 1, Min(next(from)) - 1))>>
                  \o parse[from + eq(from) + Min(next(from))]
  <2> HIDE DEF params, eq, rest, next, pair
  <2> QED
    BY <1>6, Zenon
<1>8. ParsesAs(t, parse)
  BY <1>1, <1>2, <1>7, Zenon DEF ParsesAs
<1> QED
  BY <1>8

(* key=value                                                               *)
IsPair(w, key, v, L) ==
    /\ w \in Seq(Char) /\ Len(w) = L + 2 /\ w[1] = key /\ w[2] = "="
    /\ \A i \in 1 .. L : w[2 + i] = v[i]

(* A parameter is written as its key, "=" and its value.                   *)
LEMMA PairText ==
    ASSUME NEW key \in KeyBytes, NEW v \in Seq(Char), NEW L \in Nat, L = Len(v),
           NEW w, w = <<key>> \o <<"=">> \o v
    PROVE  IsPair(w, key, v, L)
<1>1. key \in Char /\ "=" \in Char
  BY TextAssumption
<1>2. PICK u : u = <<key>> \o <<"=">>
  OBVIOUS
<1>3. u \in Seq(Char) /\ Len(u) = 2 /\ u[1] = key /\ u[2] = "="
  BY <1>1, <1>2
<1>4. Sides(u, v, w, Char)
  BY <1>2, <1>3, ConcatSides
<1>5. /\ w \in Seq(Char) /\ Len(w) = Len(u) + Len(v)
      /\ \A i \in 1 .. Len(u) : w[i] = u[i]
      /\ \A i \in 1 .. Len(v) : w[Len(u) + i] = v[i]
  BY <1>4, Zenon DEF Sides
<1>6. \A i \in 1 .. 2 : w[i] = u[i]
  BY <1>3, <1>5, Zenon
<1>7. \A i \in 1 .. L : w[2 + i] = v[i]
  BY <1>3, <1>5, Zenon
<1>8. Len(w) = L + 2
  BY <1>3, <1>5
<1>9. w[1] = key /\ w[2] = "="
  BY <1>3, <1>6
<1> QED
  BY <1>5, <1>7, <1>8, <1>9, Zenon DEF IsPair

(* One step of the parser, on the first parameter of a text p: it is the   *)
(* last one, or a ^ and another parameter follow.                          *)
ParamFirst(p, M, key, v, L) ==
    /\ L + 2 <= M /\ p[1] = key /\ p[2] = "=" /\ \A i \in 1 .. L : p[2 + i] = v[i]
    /\ \/ M = L + 2
       \/ /\ L + 5 <= M /\ p[L + 3] = "^" /\ p[L + 4] \in KeyBytes
          /\ p[L + 5] = "="

(* The parser takes exactly this parameter from p; r is behind its "=".    *)
ParamTaken(p, M, key, v, L, r) ==
    /\ IndexOf(p, "=") = 2
    /\ SubSeq(p, 1, IndexOf(p, "=") - 1) = <<key>>
    /\ M = L + 2 => Separators(r) = {} /\ r = v
    /\ M # L + 2 => /\ Separators(r) # {} /\ Min(Separators(r)) = L + 1
                    /\ SubSeq(r, 1, Min(Separators(r)) - 1) = v

(* When a value has no ^ before a "=" or a pair, it is taken whole.        *)
LEMMA ParamStep ==
    ASSUME NEW key \in KeyBytes, NEW v \in Seq(Char), NEW L \in Nat, L = Len(v),
           ~ HasCaretEq(v), ~ HasPairInside(v),
           NEW p \in Seq(Char), NEW M \in Nat, M = Len(p),
           ParamFirst(p, M, key, v, L),
           NEW r, r = SubSeq(p, IndexOf(p, "=") + 1, Len(p))
    PROVE  ParamTaken(p, M, key, v, L, r)
<1>1. /\ L + 2 <= M /\ p[1] = key /\ p[2] = "=" /\ \A i \in 1 .. L : p[2 + i] = v[i]
      /\ \/ M = L + 2
         \/ /\ L + 5 <= M /\ p[L + 3] = "^" /\ p[L + 4] \in KeyBytes
            /\ p[L + 5] = "="
  BY Zenon DEF ParamFirst
<1>2. Begins(p, M, key, v, L)
  BY <1>1, ParamAt
<1>3. IndexOf(p, "=") = 2 /\ SubSeq(p, 1, 1) = <<key>>
  BY <1>2, Zenon DEF Begins
<1>4. IndexOf(p, "=") + 1 = 3 /\ IndexOf(p, "=") - 1 = 1
  BY <1>3
<1>5. r = SubSeq(p, 3, M)
  BY <1>4, Zenon
<1>6. /\ r \in Seq(Char) /\ Len(r) = M - 2
      /\ \A i \in 1 .. M - 2 : r[i] = p[2 + i]
      /\ \A i \in 1 .. L : r[i] = v[i]
      /\ SubSeq(r, 1, L) = v
      /\ M = L + 2 => r = v
  <2>1. /\ SubSeq(p, 3, M) \in Seq(Char) /\ Len(SubSeq(p, 3, M)) = M - 2
        /\ \A i \in 1 .. M - 2 : SubSeq(p, 3, M)[i] = p[2 + i]
        /\ \A i \in 1 .. L : SubSeq(p, 3, M)[i] = v[i]
        /\ SubSeq(SubSeq(p, 3, M), 1, L) = v
        /\ M = L + 2 => SubSeq(p, 3, M) = v
    BY <1>2, Zenon DEF Begins
  <2> QED
    BY <1>5, <2>1, Zenon
<1>7. /\ Len(r) = L => Separators(r) = {}
      /\ L + 3 <= Len(r) /\ r[L + 1] = "^" /\ r[L + 2] \in KeyBytes
         /\ r[L + 3] = "="
         => Separators(r) # {} /\ Min(Separators(r)) = L + 1
  <2>1. v \in Text /\ r \in Text
    BY <1>6 DEF Text
  <2> QED
    BY <1>6, <2>1, SeparatorsOf
<1>8. M = L + 2 => Separators(r) = {} /\ r = v
  BY <1>6, <1>7
<1>9. ASSUME M # L + 2
      PROVE  /\ Separators(r) # {} /\ Min(Separators(r)) = L + 1
             /\ SubSeq(r, 1, Min(Separators(r)) - 1) = v
  <2>1. /\ L + 1 \in 1 .. M - 2 /\ L + 2 \in 1 .. M - 2 /\ L + 3 \in 1 .. M - 2
        /\ 2 + (L + 1) = L + 3 /\ 2 + (L + 2) = L + 4 /\ 2 + (L + 3) = L + 5
    BY <1>1, <1>9
  <2>2. r[L + 1] = p[L + 3] /\ r[L + 2] = p[L + 4] /\ r[L + 3] = p[L + 5]
    BY <1>6, <2>1, Zenon
  <2>3. L + 3 <= Len(r)
    <3>1. Len(r) = M - 2
      BY <1>6
    <3>2. L + 5 <= M
      BY <1>1, <1>9
    <3>3. L + 3 <= M - 2
      BY <3>2
    <3> QED
      BY <3>1, <3>3, Zenon
  <2>4. Separators(r) # {} /\ Min(Separators(r)) = L + 1
    BY <1>1, <1>7, <1>9, <2>2, <2>3
  <2>5. Min(Separators(r)) - 1 = L
    BY <2>4
  <2> QED
    BY <1>6, <2>4, <2>5, Zenon
<1> QED
  BY <1>3, <1>4, <1>8, <1>9, Zenon DEF ParamTaken

(* The parameters of an open request are read as they were written, unless *)
(* a value holds ^ and = next to each other or a pair.                     *)
LEMMA ParamsRead ==
    ASSUME NEW list \in Params,
           \A k \in DOMAIN list :
               ~ HasCaretEq(list[k].value) /\ ~ HasPairInside(list[k].value)
    PROVE  ParseOpenParams(ParamText(list)) =
               [k \in DOMAIN list |-> [key |-> <<list[k].key>>, value |-> list[k].value]]
<1> DEFINE Pairs == [key : KeyBytes, value : Text]
<1>1. PICK n \in Nat : n = Len(list) /\ DOMAIN list = 1 .. n /\ list \in Seq(Pairs)
  BY TextAssumption, LenProperties
<1>2. \A k \in 1 .. n : list[k].key \in KeyBytes /\ list[k].value \in Seq(Char)
  <2>1. \A k \in 1 .. n : list[k] \in Pairs
    BY <1>1, ElementOfSeq
  <2> QED
    BY <2>1 DEF Text
<1>3. PICK ps : ps = [k \in 1 .. n |-> <<list[k].key>> \o <<"=">> \o list[k].value]
  OBVIOUS
<1>4. \A k \in 1 .. n :
         /\ ps[k] \in Seq(Char) /\ Len(ps[k]) = Len(list[k].value) + 2
         /\ ps[k][1] = list[k].key /\ ps[k][2] = "="
         /\ \A i \in 1 .. Len(list[k].value) : ps[k][2 + i] = list[k].value[i]
  <2> SUFFICES ASSUME NEW k \in 1 .. n
               PROVE  /\ ps[k] \in Seq(Char) /\ Len(ps[k]) = Len(list[k].value) + 2
                      /\ ps[k][1] = list[k].key /\ ps[k][2] = "="
                      /\ \A i \in 1 .. Len(list[k].value) :
                            ps[k][2 + i] = list[k].value[i]
    BY Zenon
  <2>1. PICK key \in KeyBytes, v \in Seq(Char), L \in Nat :
           key = list[k].key /\ v = list[k].value /\ L = Len(v)
    BY <1>2, LenProperties
  <2>2. PICK w : w = ps[k] /\ w = <<key>> \o <<"=">> \o v
    BY <1>3, <2>1, Zenon
  <2>3. /\ w \in Seq(Char) /\ Len(w) = L + 2 /\ w[1] = key /\ w[2] = "="
        /\ \A i \in 1 .. L : w[2 + i] = v[i]
    <3>1. IsPair(w, key, v, L)
      BY <2>1, <2>2, PairText
    <3> QED
      BY <3>1, Zenon DEF IsPair
  <2> QED
    BY <2>1, <2>2, <2>3, Zenon
<1>5. ps \in Seq(Seq(Char)) /\ Len(ps) = n
  <2>1. PICK T : T = Seq(Char)
    OBVIOUS
  <2>2. \A k \in 1 .. n : ps[k] \in T
    BY <1>4, <2>1, Zenon
  <2>3. ps = [k \in 1 .. n |-> ps[k]]
    BY <1>3, Zenon
  <2>4. ps \in Seq(T) /\ Len(ps) = n
    BY <2>2, <2>3, FunctionIsSeq
  <2> QED
    BY <2>1, <2>4, Zenon
<1>6. ParamText(list) = Join(ps, "^") /\ "^" \in Char
  <2>1. "^" \in Char
    BY TextAssumption
  <2> QED
    BY <1>1, <1>3, <2>1, Zenon DEF ParamText
<1>7. PICK rs : rs = [k \in 1 .. n |-> [key |-> <<list[k].key>>, value |-> list[k].value]]
  OBVIOUS
<1>8. CASE n = 0
  <2>1. ps = <<>> /\ list = <<>> /\ DOMAIN ps = {} /\ rs = <<>>
    <3>1. ps = <<>> /\ list = <<>>
      BY <1>1, <1>5, <1>8, EmptySeq
    <3>2. DOMAIN ps = {}
      BY <3>1
    <3>3. rs = <<>>
      BY <1>7, <1>8
    <3> QED
      BY <3>1, <3>2, <3>3
  <2>2. Join(ps, "^") = <<>>
    <3> DEFINE qs == [k \in DOMAIN ps |-> IF k = 1 THEN ps[k] ELSE <<"^">> \o ps[k]]
    <3>1. qs = <<>>
      BY <2>1
    <3>2. Join(ps, "^") = FlattenSeq(qs)
      BY Zenon DEF Join
    <3>3. FlattenSeq(<<>>) = <<>>
      BY Len(<<>>) = 0 DEF FlattenSeq
    <3> HIDE DEF qs
    <3> QED
      BY <3>1, <3>2, <3>3, Zenon
  <2>3. PICK t \in Seq(Char) : t = <<>> /\ Len(t) = 0 /\ t = ParamText(list)
    BY <1>6, <2>2, EmptySeq
  <2>4. PICK f : ParsesAs(t, f)
    BY ParseDefined
  <2>5. 1 \in 1 .. Len(t) + 1 /\ SubSeq(t, 1, Len(t)) = <<>>
    BY <2>3, SubSeqEmpty
  <2>6. IndexOf(<<>>, "=") = 0
    <3>1. {i \in DOMAIN <<>> : <<>>[i] = "="} = {}
      OBVIOUS
    <3> QED
      BY <3>1, Zenon DEF IndexOf
  <2>7. 0 <= 1
    OBVIOUS
  <2>8. f[1] = <<>> /\ ParseOpenParams(t) = f[1]
    BY <2>4, <2>5, <2>6, <2>7, Zenon DEF ParsesAs
  <2> QED
    BY <1>1, <1>7, <2>1, <2>3, <2>8, Zenon
<1>9. CASE n # 0
  <2>1. ps # <<>> /\ n \in Nat \ {0}
    BY <1>5, <1>9, EmptySeq
  <2>2. PICK t \in Seq(Char) : t = Join(ps, "^")
    BY <1>5, <1>6, <2>1, JoinLaid
  <2>3. PICK off : Joined(ps, "^", t, off)
    BY <1>5, <1>6, <2>1, <2>2, JoinLaid
  <2>4. PICK N \in Nat : N = Len(t)
    BY LenProperties
  <2>5. /\ off[0] = 0 /\ N = off[n] - 1
        /\ \A m \in 0 .. n - 1 :
              /\ off[m] \in Nat
              /\ off[m + 1] = off[m] + Len(ps[m + 1]) + 1
              /\ off[m] + Len(ps[m + 1]) <= N
              /\ \A i \in 1 .. Len(ps[m + 1]) : t[off[m] + i] = ps[m + 1][i]
        /\ \A m \in 0 .. n - 2 : off[m + 1] \in 1 .. N /\ t[off[m + 1]] = "^"
    BY <1>5, <2>3, <2>4, Zenon DEF Joined
  <2>6. PICK f : ParsesAs(t, f)
    BY ParseDefined
  <2>7. ASSUME NEW m \in 0 .. n - 1
        PROVE  /\ m = n - 1 => f[off[m] + 1] = <<rs[m + 1]>>
               /\ m # n - 1 => f[off[m] + 1] = <<rs[m + 1]>> \o f[off[m + 1] + 1]
    <3>0. m + 1 \in 1 .. n
      OBVIOUS
    <3>1. PICK key \in KeyBytes, v \in Seq(Char), L \in Nat :
             key = list[m + 1].key /\ v = list[m + 1].value /\ L = Len(v)
      BY <1>2, <3>0, LenProperties
    <3>2. PICK o \in Nat, w \in Seq(Char) :
             /\ o = off[m] /\ w = ps[m + 1] /\ Len(w) = L + 2
             /\ w[1] = key /\ w[2] = "=" /\ \A i \in 1 .. L : w[2 + i] = v[i]
      BY <1>4, <2>5, <3>0, <3>1, ZenonT(60)
    <3>3. /\ off[m + 1] = o + (L + 2) + 1 /\ o + (L + 2) <= N
          /\ \A i \in 1 .. L + 2 : t[o + i] = w[i]
      BY <2>5, <3>2, Zenon
    <3>4. PICK M \in Nat : M = N - o
      <4>1. N - o \in Nat
        BY <3>3
      <4> QED
        BY <4>1
    <3>5. PICK p \in Seq(Char) : /\ p = SubSeq(t, o + 1, N) /\ Len(p) = M
                                 /\ \A i \in 1 .. M : p[i] = t[o + i]
      <4>1. o \in 0 .. N
        BY <3>3
      <4>2. /\ SubSeq(t, o + 1, N) \in Seq(Char) /\ Len(SubSeq(t, o + 1, N)) = N - o
            /\ \A i \in 1 .. N - o : SubSeq(t, o + 1, N)[i] = t[o + i]
        BY <2>4, <4>1, TailCut
      <4> QED
        BY <3>4, <4>2, Zenon
    <3>6. L + 2 <= M /\ p[1] = key /\ p[2] = "=" /\ \A i \in 1 .. L : p[2 + i] = v[i]
      <4>1. L + 2 <= M
        BY <3>3, <3>4
      <4>2. \A i \in 1 .. L + 2 : p[i] = w[i]
        <5>1. \A i \in 1 .. L + 2 : i \in 1 .. M
          BY <4>1
        <5> QED
          BY <3>3, <3>5, <5>1, Zenon
      <4>3. p[1] = w[1] /\ p[2] = w[2]
        BY <4>2
      <4>4. \A i \in 1 .. L : 2 + i \in 1 .. L + 2
        OBVIOUS
      <4>5. \A i \in 1 .. L : p[2 + i] = w[2 + i]
        BY <4>2, <4>4, Zenon
      <4> QED
        BY <3>2, <4>1, <4>3, <4>5, Zenon
    <3>7. m = n - 1 => M = L + 2
      <4>1. ASSUME m = n - 1 PROVE M = L + 2
        <5>1. m + 1 = n
          BY <4>1
        <5>2. off[n] = o + (L + 2) + 1 /\ N = off[n] - 1
          BY <2>5, <3>3, <5>1, Zenon
        <5> QED
          BY <3>4, <5>2
      <4> QED
        BY <4>1
    <3>8. m # n - 1 => /\ L + 5 <= M /\ p[L + 3] = "^" /\ p[L + 4] \in KeyBytes
                       /\ p[L + 5] = "="
      <4> SUFFICES ASSUME m # n - 1
                   PROVE  /\ L + 5 <= M /\ p[L + 3] = "^" /\ p[L + 4] \in KeyBytes
                          /\ p[L + 5] = "="
        OBVIOUS
      <4>1. m \in 0 .. n - 2 /\ m + 1 \in 0 .. n - 1 /\ m + 1 + 1 \in 1 .. n
        OBVIOUS
      <4>2. PICK d \in Nat : d = off[m + 1] /\ t[d] = "^" /\ d = o + (L + 2) + 1
        BY <2>5, <3>3, <4>1, Zenon
      <4>3. PICK y \in Seq(Char), l \in Nat :
               /\ y = ps[m + 1 + 1] /\ Len(y) = l + 2
               /\ y[1] \in KeyBytes /\ y[2] = "="
        <5>1. list[m + 1 + 1].key \in KeyBytes /\ Len(list[m + 1 + 1].value) \in Nat
          BY <1>2, <4>1, LenProperties
        <5> QED
          BY <1>4, <4>1, <5>1, ZenonT(60)
      <4>4. d + (l + 2) <= N /\ \A i \in 1 .. l + 2 : t[d + i] = y[i]
        BY <2>5, <4>1, <4>2, <4>3, ZenonT(60)
      <4>5. /\ L + 5 <= M /\ L + 3 \in 1 .. M /\ L + 4 \in 1 .. M /\ L + 5 \in 1 .. M
            /\ o + (L + 3) = d /\ o + (L + 4) = d + 1 /\ o + (L + 5) = d + 2
        BY <3>4, <4>2, <4>4
      <4>6. p[L + 3] = t[d] /\ p[L + 4] = t[d + 1] /\ p[L + 5] = t[d + 2]
        BY <3>5, <4>5, Zenon
      <4>7. t[d + 1] = y[1] /\ t[d + 2] = y[2]
        BY <4>4
      <4> QED
        BY <4>2, <4>3, <4>5, <4>6, <4>7, Zenon
    <3>9. PICK r : r = SubSeq(p, IndexOf(p, "=") + 1, Len(p))
      OBVIOUS
    <3>10. ~ HasCaretEq(v) /\ ~ HasPairInside(v)
      BY <1>1, <3>0, <3>1, Zenon
    <3>11. \/ M = L + 2
           \/ /\ L + 5 <= M /\ p[L + 3] = "^" /\ p[L + 4] \in KeyBytes
              /\ p[L + 5] = "="
      BY <3>7, <3>8, Zenon
    <3>12. /\ IndexOf(p, "=") = 2
           /\ SubSeq(p, 1, IndexOf(p, "=") - 1) = <<key>>
           /\ M = L + 2 => Separators(r) = {} /\ r = v
           /\ M # L + 2 => /\ Separators(r) # {} /\ Min(Separators(r)) = L + 1
                           /\ SubSeq(r, 1, Min(Separators(r)) - 1) = v
      <4>1. ParamFirst(p, M, key, v, L)
        BY <3>6, <3>11, Zenon DEF ParamFirst
      <4>2. ParamTaken(p, M, key, v, L, r)
        BY <3>1, <3>5, <3>9, <3>10, <4>1, ParamStep
      <4> QED
        BY <4>2, Zenon DEF ParamTaken
    <3>13. o + 1 \in 1 .. N + 1 /\ ~ (2 <= 1)
      BY <3>3
    <3>14. f[o + 1] = IF Separators(r) = {}
                      THEN <<[key |-> SubSeq(p, 1, IndexOf(p, "=") - 1), value |-> r]>>
                      ELSE <<[key |-> SubSeq(p, 1, IndexOf(p, "=") - 1),
                              value |-> SubSeq(r, 1, Min(Separators(r)) - 1)]>>
                           \o f[o + 1 + IndexOf(p, "=") + Min(Separators(r))]
      BY <2>4, <2>6, <3>5, <3>9, <3>12, <3>13, Zenon DEF ParsesAs
    <3>15. rs[m + 1] = [key |-> <<key>>, value |-> v]
      BY <1>7, <3>0, <3>1, Zenon
    <3>16. CASE m = n - 1
      BY <3>2, <3>7, <3>12, <3>14, <3>15, <3>16, Zenon
    <3>17. CASE m # n - 1
      <4>1. M # L + 2
        BY <3>8, <3>17
      <4>2. o + 1 + 2 + (L + 1) = o + (L + 2) + 1 + 1
        OBVIOUS
      <4>3. f[o + 1] = <<rs[m + 1]>> \o f[o + 1 + 2 + (L + 1)]
        BY <3>12, <3>14, <3>15, <4>1, Zenon
      <4>4. f[o + 1] = <<rs[m + 1]>> \o f[off[m + 1] + 1]
        BY <3>3, <4>2, <4>3
      <4> QED
        BY <3>2, <3>17, <4>4, Zenon
    <3> QED
      BY <3>16, <3>17, Zenon
  <2>8. f[off[0] + 1] = rs
    <3>1. PICK S : \A k \in 1 .. n : rs[k] \in S
      <4>1. \A k \in 1 .. n : rs[k] \in {rs[j] : j \in 1 .. n}
        BY Zenon
      <4> QED
        BY <4>1, Zenon
    <3>2. rs = [k \in 1 .. n |-> rs[k]]
      BY <1>7, Zenon
    <3>3. rs \in Seq(S) /\ Len(rs) = n
      BY <3>1, <3>2, FunctionIsSeq
    <3>4. ReadsOn(f, off, rs, n)
      BY <2>7, Zenon DEF ReadsOn
    <3> QED
      BY <2>1, <3>3, <3>4, ReadOn
  <2>9. off[0] + 1 = 1
    BY <2>5
  <2>10. ParseOpenParams(t) = f[1]
    BY <2>6, Zenon DEF ParsesAs
  <2> QED
    BY <1>1, <1>6, <1>7, <2>2, <2>8, <2>9, <2>10, Zenon
<1> QED
  BY <1>8, <1>9

----------------------------------------------------------------------------
(* Whatever is written is read as it was meant.                            *)
LEMMA TextStep ==
    ASSUME TextNext
    PROVE  TextRead'
<1>1. ASSUME NEW set \in TextSets, WriteSet(set) PROVE TextRead'
  <2>1. job' = [kind |-> "set", value |-> set] /\ back' = SetFromString(SetString(set))
    BY <1>1, Zenon DEF WriteSet
  <2>2. back' = job'.value /\ job'.kind = "set"
    <3>1. job'.value = set /\ job'.kind = "set"
      BY <2>1
    <3> QED
      BY <2>1, <3>1, SetRead, Zenon
  <2> QED
    BY <2>2 DEF TextRead, SetTextRoundTrip, OpenParamsRead
<1>2. ASSUME NEW list \in Params, SendOpen(list) PROVE TextRead'
  <2>1. /\ job' = [kind |-> "open", value |-> list]
        /\ back' = ParseOpenParams(ParamText(list))
    BY <1>2, Zenon DEF SendOpen
  <2>2. job'.kind = "open" /\ job'.value = list
    BY <2>1
  <2>3. ASSUME \A k \in DOMAIN list :
                  ~ HasCaretEq(list[k].value) /\ ~ HasPairInside(list[k].value)
        PROVE  OpenRead'
    <3>1. back' = [k \in DOMAIN list |-> [key |-> <<list[k].key>>, value |-> list[k].value]]
      BY <2>1, <2>3, ParamsRead, Zenon
    <3>2. PICK n \in Nat : n = Len(list) /\ DOMAIN list = 1 .. n
      BY TextAssumption, LenProperties
    <3>3. back' = [k \in 1 .. n |-> [key |-> <<list[k].key>>, value |-> list[k].value]]
      BY <3>1, <3>2, Zenon
    <3>4. DOMAIN back' = 1 .. n /\ Len(back') = n
      BY <3>3
    <3>5. \A k \in 1 .. n :
             back'[k].key = <<list[k].key>> /\ back'[k].value = list[k].value
      BY <3>3
    <3> QED
      BY <2>2, <3>2, <3>4, <3>5, Zenon DEF OpenRead
  <2> QED
    BY <2>2, <2>3, Zenon DEF TextRead, SetTextRoundTrip, OpenParamsRead
<1>3. ASSUME NEW args \in GoArgs, SendGo(args) PROVE TextRead'
  <2>1. job' = [kind |-> "go", value |-> args]
    BY <1>3, Zenon DEF SendGo
  <2>2. job'.kind = "go"
    BY <2>1
  <2> QED
    BY <2>2 DEF TextRead, SetTextRoundTrip, OpenParamsRead
<1>4. ASSUME TextDone PROVE TextRead'
  <2>1. job' = [kind |-> "none"]
    BY <1>4, Zenon DEF TextDone
  <2>2. job'.kind = "none"
    BY <2>1
  <2> QED
    BY <2>2 DEF TextRead, SetTextRoundTrip, OpenParamsRead
<1> QED
  BY <1>1, <1>2, <1>3, <1>4, Zenon DEF TextNext

(* Command sets are read back from their text whatever their arguments     *)
(* hold, and the parameters of an open request are those the client sent,  *)
(* unless ^ and = meet inside a value: for all texts (CommandSet.String    *)
(* and CommandSetFromString, ParseOpenParams).                             *)
THEOREM TextsRead == TextSpec => []TextRead
<1>1. TextInit => TextRead
  BY DEF TextInit, TextRead, SetTextRoundTrip, OpenParamsRead
<1>2. TextRead /\ [TextNext]_textVars => TextRead'
  <2>1. CASE TextNext
    BY <2>1, TextStep, Zenon
  <2>2. CASE UNCHANGED textVars
    <3>1. job' = job /\ back' = back
      BY <2>2 DEF textVars
    <3>2. OpenRead' <=> OpenRead
      BY <3>1, Zenon DEF OpenRead
    <3> QED
      BY <3>1, <3>2, Zenon DEF TextRead, SetTextRoundTrip, OpenParamsRead
  <2> QED
    BY <2>1, <2>2, Zenon
<1> QED
  BY <1>1, <1>2, PTL DEF TextSpec
==============================================================================
