----------------------------- MODULE GscStream -----------------------------
(***************************************************************************)
(* The binary form of the GSC protocol on one connection: a client frames  *)
(* command sets, TCP delivers the bytes in order but in pieces, and        *)
(* gsc.ReadFrom cuts them into streams again.                              *)
(*                                                                         *)
(* The wire is a sequence of cells: a fixed-width integer or a header is   *)
(* one cell, a name or an argument has one cell per byte.  Sizes count     *)
(* cells.                                                                  *)
(***************************************************************************)
EXTENDS Integers, SequencesExt

CONSTANTS
    Sets,       \* bound: the command sets clients send
    Faults,     \* bound: ways a frame may be wrong
    MaxFrames,  \* bound: frames per connection
    MaxSize     \* Server.MaxSize, 0 for no limit

ASSUME FramesAssumption ==
    /\ Faults \subseteq {"not_zlib", "too_large", "too_small", "wrong_len"}
    /\ MaxSize \in Nat

HeaderSize == 1

VARIABLES
    todo,   \* client side: cells not yet on the wire
    framed, \* client side: the frames written, [set, fault]
    net,    \* cells that have arrived and are not read
    head,   \* <<>> or the header ReadFrom has read
    got,    \* the sets handed to the connection loop
    conn    \* open, half (client has closed), closed, aborted

streamVars == <<todo, framed, net, head, got, conn>>

StreamInit ==
    /\ todo = <<>> /\ framed = <<>> /\ net = <<>> /\ head = <<>> /\ got = <<>>
    /\ conn = "open"

----------------------------------------------------------------------------
(* CommandSet.MarshalBinary: counts and lengths before what they count.    *)
MarshalArg(arg) == <<Len(arg)>> \o arg
MarshalCommand(cmd) ==
    <<Len(cmd.name)>> \o cmd.name \o <<Len(cmd.args)>>
    \o FlattenSeq([i \in DOMAIN cmd.args |-> MarshalArg(cmd.args[i])])
MarshalSet(set) ==
    <<Len(set)>> \o FlattenSeq([i \in DOMAIN set |-> MarshalCommand(set[i])])

(* Reading from position p of b, 0 once a read has failed: every function  *)
(* below gives the position after what it reads.                           *)
Failed(b, p) == p = 0 \/ p > Len(b)

(* binary.Read or ReadByte of one integer.                                 *)
AfterInt(b) == [p \in 0 .. Len(b) + 1 |-> IF Failed(b, p) THEN 0 ELSE p + 1]

(* MUTANT: a slice that ends at the end of the buffer is refused.          *)
AfterBytesEager(b) ==
    [p \in 0 .. Len(b) + 1, n \in Nat |->
        IF Failed(b, p) \/ p + n > Len(b) THEN 0 ELSE p + n]

(* bytes.Reader.Read into a slice of n bytes: at the end of the buffer it  *)
(* fails even for n = 0; a shorter rest is no failure.                     *)
AfterBytes(b) ==
    [p \in 0 .. Len(b) + 1, n \in Nat |->
        IF Failed(b, p) THEN 0
        ELSE IF p + n > Len(b) + 1 THEN Len(b) + 1 ELSE p + n]

(* The integer read before position p.                                     *)
IntBefore(b, p) == IF p = 0 THEN 0 ELSE b[p - 1]

(* Name or argument: a length and that many bytes.                         *)
AfterString(b) ==
    [p \in 0 .. Len(b) + 1 |->
        AfterBytes(b)[AfterInt(b)[p], IntBefore(b, AfterInt(b)[p])]]

AfterArgs(b) ==
    LET after[p \in 0 .. Len(b) + 1, n \in Nat] ==
            IF n = 0 \/ p = 0 THEN p ELSE after[AfterString(b)[p], n - 1]
    IN  after

AfterCommand(b) ==
    [p \in 0 .. Len(b) + 1 |->
        LET argc == AfterInt(b)[AfterString(b)[p]]
        IN  AfterArgs(b)[argc, IntBefore(b, argc)]]

AfterCommands(b) ==
    LET after[p \in 0 .. Len(b) + 1, n \in Nat] ==
            IF n = 0 \/ p = 0 THEN p ELSE after[AfterCommand(b)[p], n - 1]
    IN  after

(* The string read at p: zero bytes where the buffer ended too early.      *)
StringAt(b, p) ==
    [i \in 1 .. b[p] |-> IF p + i <= Len(b) THEN b[p + i] ELSE 0]

CommandAt(b, p) ==
    LET argc == AfterInt(b)[AfterString(b)[p]]
    IN  [name |-> StringAt(b, p),
         args |-> [k \in 1 .. IntBefore(b, argc) |->
                      StringAt(b, AfterArgs(b)[argc, k - 1])]]

(* CommandSet.UnmarshalBinary: whether it succeeds, and the set.           *)
UnmarshalOK(b) == AfterCommands(b)[AfterInt(b)[1], IntBefore(b, AfterInt(b)[1])] # 0

UnmarshalSet(b) ==
    [k \in 1 .. b[1] |-> CommandAt(b, AfterCommands(b)[2, k - 1])]

(* The last argument of the last command has bytes, or there is none.      *)
EndsInBytes(set) ==
    set = <<>> \/ Last(set).args = <<>> \/ Last(Last(set).args) # <<>>

(* What the decoder makes of the sets clients send: it refuses a set or    *)
(* reads it as it was written, and refuses one that does not end in bytes. *)
ASSUME CodecAssumption ==
    \A set \in Sets :
        LET b == MarshalSet(set)
        IN  /\ Len(b) \in Nat /\ b = [i \in 1 .. Len(b) |-> b[i]]
            /\ UnmarshalOK(b) => EndsInBytes(set) /\ UnmarshalSet(b) = set

----------------------------------------------------------------------------
(* compress/zlib (external)                                                *)
Deflate(b) == <<"zlib">> \o b
Inflates(z) == z # <<>> /\ Head(z) = "zlib"
Inflate(z) == Tail(z)

(* Stream.MarshalBinary, and what a faulty client makes of it.             *)
Frame(set, fault) ==
    LET payload == MarshalSet(set)
        body == IF fault = "not_zlib" THEN <<"junk">> \o payload
                ELSE Deflate(payload)
        size == CASE fault = "too_large" -> MaxSize + 1
                  [] fault = "too_small" -> HeaderSize - 1
                  [] OTHER -> Len(body) + HeaderSize
        len == Len(payload) + (IF fault = "wrong_len" THEN 1 ELSE 0)
    IN  <<[size |-> size, payloadLen |-> len]>> \o body

(* MUTANT: the length of the payload is not compared.                      *)
StreamOKUnchecked(h, body) == Inflates(body) /\ UnmarshalOK(Inflate(body))

(* Stream.UnmarshalBinary of a whole frame succeeds.                       *)
StreamOK(h, body) ==
    /\ Inflates(body)
    /\ Len(Inflate(body)) = h.payloadLen
    /\ UnmarshalOK(Inflate(body))

(* The client writes a frame to its socket.                                *)
SendFrame(set, fault) ==
    /\ conn = "open"
    /\ todo = <<>>
    /\ Len(framed) < MaxFrames
    /\ todo' = Frame(set, fault)
    /\ framed' = Append(framed, [set |-> set, fault |-> fault])
    /\ UNCHANGED <<net, head, got, conn>>

(* TCP delivers the next piece.                                            *)
Deliver(n) ==
    /\ conn = "open"
    /\ n <= Len(todo)
    /\ net' = net \o SubSeq(todo, 1, n)
    /\ todo' = SubSeq(todo, n + 1, Len(todo))
    /\ UNCHANGED <<framed, head, got, conn>>

(* The client closes, perhaps in the middle of a frame.                    *)
HalfClose ==
    /\ conn = "open"
    /\ conn' = "half"
    /\ UNCHANGED <<todo, framed, net, head, got>>

(* request too large                                                       *)
TooLarge(h) == MaxSize > 0 /\ h.size > MaxSize

(* ReadFrom: the header, and the checks made on it alone.  A size below    *)
(* the header's own makes an invalid slice: the goroutine panics.          *)
ReadHead ==
    /\ conn \in {"open", "half"}
    /\ head = <<>>
    /\ net # <<>>
    /\ net' = Tail(net)
    /\ LET h == Head(net)
       IN  IF TooLarge(h) THEN conn' = "closed" /\ UNCHANGED head
           ELSE IF h.size < HeaderSize THEN conn' = "aborted" /\ UNCHANGED head
           ELSE head' = <<h>> /\ UNCHANGED conn
    /\ UNCHANGED <<todo, framed, got>>

(* What follows the header.                                                *)
BodyLen(h) == h.size - HeaderSize

(* ReadFrom: the whole body has arrived and is decoded.                    *)
ReadBody ==
    /\ conn \in {"open", "half"}
    /\ head # <<>>
    /\ LET n == BodyLen(Head(head))
           body == SubSeq(net, 1, n)
       IN  /\ Len(net) >= n
           /\ net' = SubSeq(net, n + 1, Len(net))
           /\ IF StreamOK(Head(head), body)
              THEN got' = Append(got, UnmarshalSet(Inflate(body))) /\ UNCHANGED conn
              ELSE conn' = "closed" /\ UNCHANGED got
    /\ head' = <<>>
    /\ UNCHANGED <<todo, framed>>

(* ReadFull meets the end of the stream.                                   *)
ReadEOF ==
    /\ conn = "half"
    /\ IF head = <<>> THEN net = <<>> ELSE Len(net) < BodyLen(Head(head))
    /\ conn' = "closed"
    /\ UNCHANGED <<todo, framed, net, head, got>>

(* A dead connection stays as it is.                                       *)
Dead == conn \in {"closed", "aborted"} /\ UNCHANGED streamVars

StreamNext ==
    \/ \E set \in Sets, fault \in {"none"} \cup Faults : SendFrame(set, fault)
    \/ \E n \in 1 .. Len(todo) : Deliver(n)
    \/ HalfClose \/ ReadHead \/ ReadBody \/ ReadEOF \/ Dead

(* The reading goroutine runs, and TCP delivers what was written.          *)
StreamFairness ==
    /\ WF_streamVars(ReadHead) /\ WF_streamVars(ReadBody) /\ WF_streamVars(ReadEOF)
    /\ WF_streamVars(\E n \in 1 .. Len(todo) : Deliver(n))

StreamSpec == StreamInit /\ [][StreamNext]_streamVars /\ StreamFairness

----------------------------------------------------------------------------
(* Properties                                                              *)

(* A frame the reader understands.                                         *)
Readable(f) == f.fault = "none" /\ EndsInBytes(f.set)

(* The sets sent before the first frame that is not readable.              *)
GoodPrefix ==
    LET bad == {i \in DOMAIN framed : ~ Readable(framed[i])} \cup {Len(framed) + 1}
        first == CHOOSE i \in bad : \A j \in bad : i <= j
    IN  [i \in 1 .. first - 1 |-> framed[i].set]

(* The connection loop sees the sets that were sent, unchanged and in      *)
(* order, however TCP cut them, and nothing of what follows a frame that   *)
(* cannot be read: every frame up to the last set it got was readable.     *)
FramesAligned ==
    \A i \in DOMAIN got :
        i \in DOMAIN framed /\ Readable(framed[i]) /\ got[i] = framed[i].set

(* Unless the client closes, every readable set is read in the end.        *)
FramesRead ==
    \A k \in 1 .. MaxFrames :
        (Len(GoodPrefix) >= k /\ conn = "open")
        ~> (Len(got) >= k \/ conn = "half")

(* stream_test.go, TestStreamBinaryRoundTrip: what MarshalBinary wrote,    *)
(* UnmarshalBinary reads.                                                  *)
BinaryRoundTrip ==
    \A i \in DOMAIN framed :
        LET b == MarshalSet(framed[i].set)
        IN  UnmarshalOK(b) /\ UnmarshalSet(b) = framed[i].set
=============================================================================
