-------------------------- MODULE EnterFlowProofs --------------------------
(***************************************************************************)
(* Who a player is said to be, for any number of connections, requests and *)
(* providers: IdentitiesSound and PostsReachIssuer of EnterFlow.           *)
(*                                                                         *)
(* A handler waits for its provider between reading the session and        *)
(* writing the player record.  The invariant therefore relates three       *)
(* things a step changes apart: the session, the record of its player id,  *)
(* and what the provider has said to this connection.                      *)
(***************************************************************************)
EXTENDS EnterFlow, SequenceTheorems, TLAPS

SessionFields == {"account", "id", "nick", "dev", "height"}

(* A player list is a sequence of records.                                 *)
ListOK == \E S : players \in Seq(S)

LegalNick(nick) ==
    /\ Len(nick) \in 1 .. MaxNickLen
    /\ nick[1] \in {"a", "_"}
    /\ "!" \notin ToSet(nick)

(* The shape of what a connection keeps.                                   *)
Shapes ==
    /\ DOMAIN session = Conns /\ DOMAIN pc = Conns /\ DOMAIN req = Conns
    /\ DOMAIN page = Conns /\ DOMAIN vouched = Conns
    /\ out \in [Conns -> BOOLEAN]
    /\ \A c \in Conns : /\ DOMAIN session[c] = SessionFields
                        /\ session[c].id \in 0 .. Len(players)

(* Every connection has its own player record.                             *)
OwnRecord ==
    \A c, d \in Conns : c # d /\ session[c].id > 0 => session[c].id # session[d].id

(* What a waiting handler has been let through with.                       *)
Waiting ==
    \A c \in Conns : /\ pc[c] = "logon" => req[c].type \in {"LCN", "WCL"}
                     /\ pc[c] = "post" => session[c].account # NoAccount
                     /\ page[c].kind = "ok" => session[c].id > 0

Identity == /\ ListOK /\ Shapes /\ OwnRecord /\ Waiting /\ IdentitiesSound

----------------------------------------------------------------------------
(* The operators on nicks.                                                 *)

LEMMA StripTyped ==
    ASSUME NEW nick \in Seq(AnyChar)
    PROVE  StripDevSuffix(nick) \in Seq(AnyChar)
<1>1. CASE IsDev(nick)
  <2>1. Len(nick) \in Nat /\ nick # <<>>
    BY <1>1 DEF IsDev
  <2>2. \A i \in 1 .. Len(nick) - 1 : nick[i] \in AnyChar
    BY <2>1, ElementOfSeq
  <2>3. SubSeq(nick, 1, Len(nick) - 1) \in Seq(AnyChar)
    BY <2>1, <2>2, SubSeqProperties
  <2> QED
    BY <1>1, <2>3 DEF StripDevSuffix, Front
<1>2. CASE ~ IsDev(nick)
  BY <1>2 DEF StripDevSuffix
<1> QED
  BY <1>1, <1>2

LEMMA NoOtherChars == "!" \notin NickChars
BY Zenon DEF NickChars

(* ValidateNick and TruncateNick together: what is let in is legal.        *)
LEMMA GuestNickLegal ==
    ASSUME NEW nick \in Seq(AnyChar), ValidateNick(nick) = "ok"
    PROVE  LegalNick(TruncateNick(nick))
<1>1. /\ nick # <<>> /\ ToSet(nick) \subseteq NickChars
      /\ nick[1] # "-" /\ nick[1] # "1"
  BY DEF ValidateNick
<1>2. Len(nick) \in Nat /\ Len(nick) >= 1 /\ DOMAIN nick = 1 .. Len(nick)
  BY <1>1, EmptySeq, LenProperties
<1>3. \A i \in 1 .. Len(nick) : nick[i] \in NickChars
  BY <1>1, <1>2 DEF ToSet
<1>4. nick[1] \in {"a", "_"}
  <2>1. nick[1] \in NickChars
    BY <1>2, <1>3
  <2> QED
    BY <1>1, <2>1, Zenon DEF NickChars
<1>5. CASE Len(nick) > MaxNickLen
  <2> DEFINE t == SubSeq(nick, 1, MaxNickLen)
  <2>1. /\ t \in Seq(NickChars) /\ Len(t) = MaxNickLen
        /\ \A i \in 1 .. MaxNickLen : t[i] = nick[i]
    <3>1. \A i \in 1 .. MaxNickLen : nick[i] \in NickChars
      BY <1>2, <1>3, <1>5, NickLenAssumption
    <3>2. /\ t \in Seq(NickChars)
          /\ Len(t) = IF 1 <= MaxNickLen THEN MaxNickLen - 1 + 1 ELSE 0
          /\ \A i \in 1 .. MaxNickLen - 1 + 1 : t[i] = nick[1 + i - 1]
      BY <3>1, SubSeqProperties, NickLenAssumption
    <3> QED
      BY <3>2, NickLenAssumption
  <2>2. TruncateNick(nick) = t
    BY <1>5 DEF TruncateNick
  <2>3. ToSet(t) \subseteq NickChars
    BY <2>1, LenProperties, ElementOfSeq DEF ToSet
  <2> HIDE DEF t
  <2> QED
    <3>1. t[1] = nick[1] /\ Len(t) \in 1 .. MaxNickLen
      BY <2>1, NickLenAssumption
    <3> QED
      BY <1>4, <2>2, <2>3, <3>1, NoOtherChars DEF LegalNick
<1>6. CASE ~ (Len(nick) > MaxNickLen)
  <2>1. TruncateNick(nick) = nick
    BY <1>6 DEF TruncateNick
  <2>2. Len(nick) \in 1 .. MaxNickLen
    BY <1>2, <1>6, NickLenAssumption
  <2> QED
    BY <1>1, <1>4, <2>1, <2>2, NoOtherChars DEF LegalNick
<1> QED
  BY <1>5, <1>6

----------------------------------------------------------------------------
(* The three ways a handler stops: the player enters, a page without an    *)
(* entry is shown, or the handler goes on waiting.                         *)

(* SuccessEnter writes the connection's own record and no other.           *)
LEMMA RecordWritten ==
    ASSUME ListOK, Shapes, OwnRecord, NEW c \in Conns,
           NEW s, DOMAIN s = SessionFields, s.id = session[c].id,
           NEW nick, SuccessEnter(c, s, nick)
    PROVE  /\ ListOK'
           /\ Len(players) <= Len(players') /\ Len(players) \in Nat /\ Len(players') \in Nat
           /\ session'[c].id \in 1 .. Len(players')
           /\ players'[session'[c].id] = [nick |-> nick, account |-> s.account]
           /\ \A i \in 1 .. Len(players') : i # session'[c].id =>
                 i \in 1 .. Len(players) /\ players'[i] = players[i]
           /\ \A d \in Conns : d # c => session[d].id # session'[c].id
           /\ session'[c].account = s.account /\ DOMAIN session'[c] = SessionFields
           /\ DOMAIN session' = Conns
           /\ \A d \in Conns : d # c => session'[d] = session[d]
<1> DEFINE pl == [nick |-> nick, account |-> s.account]
           id == IF s.id > 0 THEN s.id ELSE Len(players) + 1
<1>1. PICK S : players \in Seq(S)
  BY DEF ListOK
<1>2. /\ players \in Seq(S \cup {pl}) /\ pl \in S \cup {pl} /\ Len(players) \in Nat
  BY <1>1, SeqMonotonic, LenProperties
<1>3. session[c].id \in 0 .. Len(players) /\ DOMAIN session = Conns
  BY DEF Shapes
<1>4. /\ session' = [session EXCEPT ![c] = [s EXCEPT !.id = id, !.nick = nick]]
      /\ players' = IF s.id > 0 THEN [players EXCEPT ![id] = pl]
                    ELSE Append(players, pl)
  BY DEF SuccessEnter
<1> HIDE DEF id, pl
<1>5. /\ session'[c] = [s EXCEPT !.id = id, !.nick = nick] /\ DOMAIN session' = Conns
      /\ \A d \in Conns : d # c => session'[d] = session[d]
  BY <1>3, <1>4
<1>6. session'[c].id = id /\ session'[c].account = s.account
      /\ DOMAIN session'[c] = SessionFields
  BY <1>5 DEF SessionFields
<1>7. CASE s.id > 0
  <2>1. id = s.id /\ id \in 1 .. Len(players)
    BY <1>3, <1>7 DEF id
  <2>2. players' = [players EXCEPT ![id] = pl]
    BY <1>4, <1>7
  <2>3. /\ players' \in Seq(S \cup {pl}) /\ Len(players') = Len(players)
        /\ players'[id] = pl
        /\ \A i \in 1 .. Len(players) : i # id => players'[i] = players[i]
    <3>1. DOMAIN players = 1 .. Len(players)
      BY <1>2, LenProperties
    <3>2. players' \in Seq(S \cup {pl}) /\ Len(players') = Len(players)
      BY <1>2, <2>1, <2>2, ExceptSeq
    <3> QED
      BY <2>1, <2>2, <3>1, <3>2
  <2>4. \A d \in Conns : d # c => session[d].id # id
    BY <1>3, <2>1, <1>7 DEF OwnRecord
  <2> QED
    BY <1>2, <1>5, <1>6, <2>1, <2>3, <2>4 DEF ListOK, pl
<1>8. CASE ~ (s.id > 0)
  <2>1. id = Len(players) + 1 /\ players' = Append(players, pl)
    BY <1>4, <1>8 DEF id
  <2>2. /\ players' \in Seq(S \cup {pl}) /\ Len(players') = Len(players) + 1
        /\ \A i \in 1 .. Len(players) : players'[i] = players[i]
        /\ players'[Len(players) + 1] = pl
    BY <1>2, <2>1, AppendProperties
  <2>3. \A d \in Conns : session[d].id \in 0 .. Len(players)
    BY DEF Shapes
  <2>4. \A d \in Conns : d # c => session[d].id # id
    BY <1>2, <2>1, <2>3
  <2>5. /\ Len(players') \in Nat /\ id \in 1 .. Len(players')
        /\ \A i \in 1 .. Len(players') : i # id => i \in 1 .. Len(players)
    BY <1>2, <2>1, <2>2
  <2> QED
    BY <1>2, <1>5, <1>6, <2>1, <2>2, <2>4, <2>5 DEF ListOK, pl
<1> QED
  BY <1>7, <1>8

(* The history and request variables of the other connections.             *)
OthersKept(c) ==
    /\ DOMAIN vouched' = Conns /\ DOMAIN req' = Conns
    /\ out' \in [Conns -> BOOLEAN]
    /\ \A d \in Conns : vouched[d] \subseteq vouched'[d]
    /\ \A d \in Conns : d # c => req'[d] = req[d] /\ out'[d] = out[d]

LEMMA EnteredIdentity ==
    ASSUME Identity, NEW c \in Conns, OthersKept(c),
           NEW s, DOMAIN s = SessionFields, s.id = session[c].id,
           s.account \in vouched'[c] \cup {NoAccount},
           out'[c] => s.account = NoAccount,
           NEW nick, s.account = NoAccount => LegalNick(nick),
           SuccessEnter(c, s, nick)
    PROVE  Identity'
<1> DEFINE id == session'[c].id
<1>1. ListOK /\ Shapes /\ OwnRecord /\ Waiting /\ IdentitiesSound
  BY DEF Identity
<1>2. /\ ListOK'
      /\ Len(players) <= Len(players') /\ Len(players) \in Nat /\ Len(players') \in Nat
      /\ id \in 1 .. Len(players')
      /\ players'[id] = [nick |-> nick, account |-> s.account]
      /\ \A i \in 1 .. Len(players') : i # id =>
            i \in 1 .. Len(players) /\ players'[i] = players[i]
      /\ \A d \in Conns : d # c => session[d].id # id
      /\ session'[c].account = s.account /\ DOMAIN session'[c] = SessionFields
      /\ DOMAIN session' = Conns
      /\ \A d \in Conns : d # c => session'[d] = session[d]
  BY <1>1, RecordWritten
<1>3. /\ pc' = [pc EXCEPT ![c] = "idle"]
      /\ page' = [page EXCEPT ![c] = [kind |-> "ok", text |-> ""]]
  BY DEF SuccessEnter
<1>4. /\ DOMAIN pc' = Conns /\ DOMAIN page' = Conns
      /\ pc'[c] = "idle" /\ page'[c].kind = "ok"
      /\ \A d \in Conns : d # c => pc'[d] = pc[d] /\ page'[d] = page[d]
  BY <1>1, <1>3 DEF Shapes
<1> HIDE DEF id
<1>5. session'[c].id = id
  BY DEF id
<1>6. Shapes'
  BY <1>1, <1>2, <1>4, <1>5 DEF Shapes, OthersKept
<1>7. OwnRecord'
  BY <1>1, <1>2, <1>5 DEF OwnRecord
<1>8. Waiting'
  BY <1>1, <1>2, <1>4, <1>5 DEF Waiting, OthersKept
<1>9. \A d \in Conns : d # c => /\ session[d].id \in 0 .. Len(players)
                                /\ session[d].id > 0 =>
                                     players'[session[d].id] = players[session[d].id]
  <2> SUFFICES ASSUME NEW d \in Conns, d # c
               PROVE  /\ session[d].id \in 0 .. Len(players)
                      /\ session[d].id > 0 =>
                            players'[session[d].id] = players[session[d].id]
    OBVIOUS
  <2>1. session[d].id \in 0 .. Len(players) /\ session[d].id # id
    BY <1>1, <1>2 DEF Shapes
  <2>2. session[d].id > 0 => session[d].id \in 1 .. Len(players')
    BY <1>2, <2>1
  <2> QED
    BY <1>2, <2>1, <2>2
<1>10. AccountsVouched'
  BY <1>1, <1>2, <1>5, <1>9 DEF AccountsVouched, IdentitiesSound, OthersKept
<1>11. LogoutForgets'
  BY <1>1, <1>2, <1>4, <1>5, <1>9
     DEF LogoutForgets, IdentitiesSound, OthersKept, Waiting
<1>12. GuestNicksLegal'
  <2>1. /\ DOMAIN players = 1 .. Len(players) /\ DOMAIN players' = 1 .. Len(players')
    BY <1>1, <1>2, LenProperties DEF ListOK
  <2>2. \A i \in 1 .. Len(players) : players[i].account = NoAccount => LegalNick(players[i].nick)
    BY <1>1, <2>1 DEF IdentitiesSound, GuestNicksLegal, LegalNick
  <2>3. \A i \in 1 .. Len(players') :
           players'[i].account = NoAccount => LegalNick(players'[i].nick)
    BY <1>2, <2>2
  <2> QED
    BY <2>1, <2>3 DEF GuestNicksLegal, LegalNick
<1> QED
  BY <1>2, <1>6, <1>7, <1>8, <1>10, <1>11, <1>12 DEF Identity, IdentitiesSound

(* The handler of c stops or waits at there with session s; no record is   *)
(* written.                                                                *)
LEMMA StoppedIdentity ==
    ASSUME Identity, NEW c \in Conns, OthersKept(c), players' = players,
           NEW s, DOMAIN s = SessionFields, s.id = session[c].id,
           s.account \in {session[c].account, NoAccount},
           out'[c] => s.account = NoAccount,
           session' = [session EXCEPT ![c] = s],
           NEW there \in {"idle", "insert", "logon", "post"},
           pc' = [pc EXCEPT ![c] = there],
           there = "logon" => req'[c].type \in {"LCN", "WCL"},
           there = "post" => s.account # NoAccount,
           DOMAIN page' = Conns, \A d \in Conns : d # c => page'[d] = page[d],
           page'[c].kind # "ok" \/ (page'[c] = page[c] /\ out'[c] = out[c])
    PROVE  Identity'
<1>1. ListOK /\ Shapes /\ OwnRecord /\ Waiting /\ IdentitiesSound
  BY DEF Identity
<1>2. /\ DOMAIN pc' = Conns /\ DOMAIN page' = Conns /\ DOMAIN session' = Conns
      /\ pc'[c] = there /\ session'[c] = s
      /\ (page'[c] = page[c] /\ out'[c] = out[c]) \/ page'[c].kind # "ok"
      /\ \A d \in Conns : d # c => /\ pc'[d] = pc[d] /\ page'[d] = page[d]
                                   /\ session'[d] = session[d]
  BY <1>1 DEF Shapes
<1>3. Shapes'
  BY <1>1, <1>2 DEF Shapes, OthersKept
<1>4. OwnRecord'
  BY <1>1, <1>2 DEF OwnRecord
<1>5. Waiting'
  BY <1>1, <1>2 DEF Waiting, OthersKept
<1>6. AccountsVouched'
  BY <1>1, <1>2 DEF AccountsVouched, IdentitiesSound, OthersKept
<1>7. LogoutForgets'
  BY <1>1, <1>2 DEF LogoutForgets, IdentitiesSound, OthersKept, Waiting
<1>8. GuestNicksLegal' /\ ListOK'
  BY <1>1 DEF GuestNicksLegal, ListOK, IdentitiesSound
<1> QED
  BY <1>3, <1>4, <1>5, <1>6, <1>7, <1>8 DEF Identity, IdentitiesSound

(* A page without an entry: RenderEnter or the error page.                 *)
LEMMA ShownIdentity ==
    ASSUME Identity, NEW c \in Conns, OthersKept(c),
           NEW s, DOMAIN s = SessionFields, s.id = session[c].id,
           s.account \in {session[c].account, NoAccount},
           out'[c] => s.account = NoAccount,
           NEW kind, kind # "ok", NEW text, Render(c, s, kind, text)
    PROVE  Identity'
<1>1. DOMAIN page = Conns
  BY DEF Identity, Shapes
<1>2. /\ page' = [page EXCEPT ![c] = [kind |-> kind, text |-> text]]
      /\ session' = [session EXCEPT ![c] = s]
      /\ pc' = [pc EXCEPT ![c] = "idle"] /\ players' = players
  BY DEF Render
<1>3. /\ DOMAIN page' = Conns /\ page'[c].kind # "ok"
      /\ \A d \in Conns : d # c => page'[d] = page[d]
  BY <1>1, <1>2
<1> QED
  BY <1>2, <1>3, StoppedIdentity

----------------------------------------------------------------------------
(* One lemma per action.                                                   *)

LEMMA TryEnterIdentity ==
    ASSUME Identity, NEW c \in Conns, NEW r \in Requests, TryEnter(c, r)
    PROVE  Identity'
<1> DEFINE s == [session[c] EXCEPT !.dev = IsDev(r.nick)]
           stripped == [r EXCEPT !.nick = StripDevSuffix(r.nick)]
<1>1. ListOK /\ Shapes /\ OwnRecord /\ Waiting /\ IdentitiesSound
  BY DEF Identity
<1>2. DOMAIN session[c] = SessionFields
  BY <1>1 DEF Shapes
<1>3. DOMAIN s = SessionFields /\ s.id = session[c].id /\ s.account = session[c].account
  BY <1>2 DEF SessionFields
<1>4. stripped.nick \in Seq(AnyChar) /\ stripped.type = r.type /\ r.reset \in BOOLEAN
  <2>1. DOMAIN r = DOMAIN NoRequest /\ r.nick \in Seq(AnyChar) /\ r.reset \in BOOLEAN
    BY RequestsAssumption
  <2>2. DOMAIN NoRequest = {"nick", "type", "password", "reset", "loggedIn", "height"}
    BY DEF NoRequest
  <2> QED
    BY <2>1, <2>2, StripTyped
<1>5. /\ IF r.reset THEN Reset(c, s)
         ELSE IF r.loggedIn THEN LoggedIn(c, s)
         ELSE IF r.type \in {"LCN", "WCL"} THEN Account(c, stripped, s)
         ELSE Guest(c, stripped, s)
      /\ req' = [req EXCEPT ![c] = IF pc'[c] = "idle" THEN NoRequest ELSE stripped]
      /\ out' = [out EXCEPT ![c] = out[c] \/ r.reset]
      /\ vouched' = vouched
  BY DEF TryEnter
<1> HIDE DEF s, stripped
<1>6. /\ OthersKept(c) /\ out'[c] = (out[c] \/ r.reset)
      /\ req'[c] = IF pc'[c] = "idle" THEN NoRequest ELSE stripped
  <2>1. (out[c] \/ r.reset) \in BOOLEAN
    BY <1>1, <1>4 DEF Shapes
  <2>2. /\ out' \in [Conns -> BOOLEAN] /\ out'[c] = (out[c] \/ r.reset)
        /\ \A d \in Conns : d # c => out'[d] = out[d]
    BY <1>1, <1>5, <2>1 DEF Shapes
  <2> QED
    BY <1>1, <1>5, <2>2 DEF Shapes, OthersKept
<1>7. out[c] => s.account = NoAccount
  BY <1>1, <1>3 DEF IdentitiesSound, LogoutForgets
<1>8. ~ r.reset => out' = out
  <2>1. ~ r.reset => (out[c] \/ r.reset) = out[c]
    BY <1>1, <1>4 DEF Shapes
  <2> QED
    BY <1>1, <1>5, <2>1 DEF Shapes
<1>9. CASE r.reset
  <2> DEFINE t == [s EXCEPT !.account = NoAccount]
  <2>1. DOMAIN t = SessionFields /\ t.id = session[c].id /\ t.account = NoAccount
    BY <1>3 DEF SessionFields
  <2>2. Render(c, t, "enter", "")
    BY <1>5, <1>9 DEF Reset
  <2> HIDE DEF t
  <2> QED
    BY <1>6, <2>1, <2>2, ShownIdentity
<1>10. ASSUME ~ r.reset, NEW kind, kind # "ok", NEW text, NEW t,
              DOMAIN t = SessionFields, t.id = session[c].id, t.account = session[c].account,
              Render(c, t, kind, text)
       PROVE  Identity'
  <2>1. out'[c] => t.account = NoAccount
    BY <1>3, <1>7, <1>8, <1>10
  <2> QED
    BY <1>6, <1>10, <2>1, ShownIdentity
<1>11. CASE ~ r.reset /\ r.loggedIn
  <2>1. CASE s.account # NoAccount
    <3>1. /\ pc' = [pc EXCEPT ![c] = "post"] /\ session' = [session EXCEPT ![c] = s]
          /\ page' = page /\ players' = players
      BY <1>5, <1>11, <2>1 DEF LoggedIn
    <3> QED
      BY <1>1, <1>3, <1>6, <1>7, <1>8, <1>11, <2>1, <3>1, StoppedIdentity DEF Shapes
  <2>2. CASE s.account = NoAccount
    BY <1>3, <1>5, <1>10, <1>11, <2>2 DEF LoggedIn
  <2> QED
    BY <2>1, <2>2
<1>12. CASE ~ r.reset /\ ~ r.loggedIn /\ r.type \in {"LCN", "WCL"}
  <2>1. \/ \E text : Render(c, s, "enter", text)
        \/ /\ \E there \in {"logon", "insert"} : pc' = [pc EXCEPT ![c] = there]
           /\ session' = [session EXCEPT ![c] = s]
           /\ page' = page /\ players' = players
    BY <1>5, <1>12 DEF Account
  <2>2. CASE \E text : Render(c, s, "enter", text)
    BY <1>3, <1>10, <1>12, <2>2
  <2>3. ASSUME NEW there \in {"logon", "insert"}, pc' = [pc EXCEPT ![c] = there],
               session' = [session EXCEPT ![c] = s], page' = page, players' = players
        PROVE  Identity'
    <3>1. pc'[c] = there /\ there # "idle" /\ there # "post"
      BY <1>1, <2>3 DEF Shapes
    <3>2. req'[c].type \in {"LCN", "WCL"}
      BY <1>4, <1>6, <1>12, <3>1
    <3> QED
      BY <1>1, <1>3, <1>6, <1>7, <1>8, <1>12, <2>3, <3>1, <3>2, StoppedIdentity DEF Shapes
  <2> QED
    BY <2>1, <2>2, <2>3
<1>13. CASE ~ r.reset /\ ~ r.loggedIn /\ r.type \notin {"LCN", "WCL"}
  <2> DEFINE t == IF stripped.height # 0 THEN [s EXCEPT !.height = stripped.height] ELSE s
  <2>1. /\ DOMAIN t = SessionFields /\ t.id = session[c].id
        /\ t.account = session[c].account
    BY <1>3 DEF SessionFields
  <2>2. IF ValidateNick(stripped.nick) # "ok"
        THEN Render(c, t, "error", ValidateNick(stripped.nick))
        ELSE SuccessEnter(c, t, TruncateNick(stripped.nick))
    BY <1>5, <1>13 DEF Guest
  <2> HIDE DEF t
  <2>3. CASE ValidateNick(stripped.nick) # "ok"
    BY <1>10, <1>13, <2>1, <2>2, <2>3
  <2>4. CASE ValidateNick(stripped.nick) = "ok"
    <3>1. LegalNick(TruncateNick(stripped.nick))
      BY <1>4, <2>4, GuestNickLegal
    <3>2. t.account \in vouched'[c] \cup {NoAccount}
      BY <1>1, <1>5, <2>1 DEF IdentitiesSound, AccountsVouched
    <3>3. out'[c] => t.account = NoAccount
      BY <1>3, <1>7, <1>8, <1>13, <2>1
    <3> QED
      BY <1>6, <2>1, <2>2, <2>4, <3>1, <3>2, <3>3, EnteredIdentity
  <2> QED
    BY <2>3, <2>4
<1> QED
  BY <1>9, <1>11, <1>12, <1>13

(* The handler ends with an error page and the session as it was.          *)
LEMMA FailedIdentity ==
    ASSUME Identity, NEW c \in Conns, NEW text,
           Render(c, session[c], "enter", text),
           req' = [req EXCEPT ![c] = NoRequest], UNCHANGED <<vouched, out>>
    PROVE  Identity'
<1>1. Shapes /\ IdentitiesSound
  BY DEF Identity
<1>2. OthersKept(c) /\ DOMAIN session[c] = SessionFields
  BY <1>1 DEF Shapes, OthersKept
<1>3. out'[c] => session[c].account = NoAccount
  BY <1>1 DEF IdentitiesSound, LogoutForgets
<1> QED
  BY <1>2, <1>3, ShownIdentity

LEMMA LogonAnswerIdentity ==
    ASSUME Identity, NEW c \in Conns, NEW answer, NEW id, LogonAnswer(c, answer, id)
    PROVE  Identity'
<1> DEFINE acc == [type |-> req[c].type, login |-> req[c].nick, id |-> FormatID(id)]
           t == [session[c] EXCEPT !.account = acc]
<1>1. Shapes /\ Waiting /\ IdentitiesSound
  BY DEF Identity
<1>2. CASE answer = "success"
  <2>1. /\ SuccessEnter(c, t, SanitizeAccountNick(req[c].nick))
        /\ vouched' = [vouched EXCEPT ![c] = vouched[c] \cup {acc}]
        /\ out' = [out EXCEPT ![c] = FALSE] /\ req' = [req EXCEPT ![c] = NoRequest]
    BY <1>2 DEF LogonAnswer, Accepts
  <2>2. acc.type \in {"LCN", "WCL"}
    BY <1>1 DEF LogonAnswer, Waiting
  <2>3. acc # NoAccount
    BY <2>2 DEF NoAccount
  <2> HIDE DEF acc
  <2>4. DOMAIN session[c] = SessionFields
    BY <1>1 DEF Shapes
  <2>5. DOMAIN t = SessionFields /\ t.id = session[c].id /\ t.account = acc
    BY <2>4 DEF SessionFields
  <2>6. /\ OthersKept(c) /\ acc \in vouched'[c] /\ out'[c] = FALSE
    BY <1>1, <2>1 DEF Shapes, OthersKept
  <2> HIDE DEF t
  <2> QED
    BY <2>1, <2>3, <2>5, <2>6, EnteredIdentity
<1>3. CASE answer # "success"
  BY <1>3, FailedIdentity DEF LogonAnswer, Accepts
<1> QED
  BY <1>2, <1>3

LEMMA PostDoneIdentity ==
    ASSUME Identity, NEW c \in Conns, PostDone(c)
    PROVE  Identity'
<1>1. Shapes /\ Waiting /\ IdentitiesSound
  BY DEF Identity
<1>2. /\ pc[c] = "post" /\ vouched' = vouched /\ out' = out
      /\ SuccessEnter(c, session[c], SanitizeAccountNick(session[c].account.login))
      /\ req' = [req EXCEPT ![c] = NoRequest]
  BY DEF PostDone
<1>3. /\ session[c].account # NoAccount
      /\ session[c].account \in vouched'[c] \cup {NoAccount}
      /\ out'[c] => session[c].account = NoAccount
  BY <1>1, <1>2 DEF Waiting, IdentitiesSound, AccountsVouched, LogoutForgets
<1>4. OthersKept(c) /\ DOMAIN session[c] = SessionFields
  BY <1>1, <1>2 DEF Shapes, OthersKept
<1> QED
  BY <1>2, <1>3, <1>4, EnteredIdentity

LEMMA EnterIdentity ==
    ASSUME Identity, NEW c \in Conns, Enter(c)
    PROVE  Identity'
<1>1. ListOK /\ Shapes /\ OwnRecord /\ Waiting /\ IdentitiesSound
  BY DEF Identity
<1>2. /\ UNCHANGED <<session, pc, req, players, vouched, out>>
      /\ DOMAIN page' = Conns /\ page'[c].kind # "ok"
      /\ \A d \in Conns : d # c => page'[d] = page[d]
  BY <1>1 DEF Enter, Shapes
<1>3. ListOK' /\ Shapes' /\ OwnRecord'
  BY <1>1, <1>2 DEF ListOK, Shapes, OwnRecord
<1>4. Waiting' /\ AccountsVouched' /\ LogoutForgets' /\ GuestNicksLegal'
  BY <1>1, <1>2, ZenonT(60) DEF Waiting, IdentitiesSound, AccountsVouched, LogoutForgets,
     GuestNicksLegal
<1> QED
  BY <1>3, <1>4 DEF Identity, IdentitiesSound

LEMMA IdentityUnchanged ==
    ASSUME Identity, UNCHANGED <<session, pc, req, page, players, vouched, out>>
    PROVE  Identity'
BY DEF Identity, ListOK, Shapes, OwnRecord, Waiting, IdentitiesSound, AccountsVouched,
   LogoutForgets, GuestNicksLegal

LEMMA IdentityStep ==
    ASSUME Identity, [Next]_vars
    PROVE  Identity'
<1>1. CASE UNCHANGED vars
  BY <1>1, IdentityUnchanged DEF vars
<1>2. ASSUME NEW c \in Conns, StartPosts(c)
      PROVE  Identity'
  BY <1>2, IdentityUnchanged DEF StartPosts
<1>3. ASSUME NEW c \in Conns, InsertProvider(c) \/ LogonTimeout(c)
      PROVE  Identity'
  BY <1>3, FailedIdentity DEF InsertProvider, LogonTimeout
<1> QED
  BY <1>1, <1>2, <1>3, TryEnterIdentity, LogonAnswerIdentity, PostDoneIdentity,
     EnterIdentity DEF Next, Finish

LEMMA InitIdentity == Init => Identity
<1> SUFFICES ASSUME Init PROVE Identity
  OBVIOUS
<1>1. ListOK /\ Len(players) = 0 /\ DOMAIN players = {}
  <2>1. players \in Seq({}) /\ Len(players) = 0
    BY EmptySeq DEF Init
  <2>2. DOMAIN players = 1 .. 0
    BY <2>1, LenProperties
  <2> QED
    BY <2>1, <2>2 DEF ListOK
<1>2. /\ DOMAIN NewSession = SessionFields /\ NewSession.id = 0
      /\ NewSession.account = NoAccount
  BY DEF NewSession, SessionFields
<1>3. /\ \A c \in Conns : /\ session[c] = NewSession /\ pc[c] = "idle"
                           /\ page[c].kind = "none" /\ ~ out[c]
      /\ DOMAIN session = Conns /\ DOMAIN pc = Conns /\ DOMAIN req = Conns
      /\ DOMAIN page = Conns /\ DOMAIN vouched = Conns
      /\ out \in [Conns -> BOOLEAN]
  BY DEF Init
<1>4. Shapes
  <2>1. 0 \in 0 .. Len(players)
    BY <1>1
  <2> QED
    BY <1>2, <1>3, <2>1 DEF Shapes
<1>5. OwnRecord /\ AccountsVouched
  <2>1. ~ (0 > 0)
    OBVIOUS
  <2> QED
    BY <1>2, <1>3, <2>1 DEF OwnRecord, AccountsVouched
<1>6. Waiting /\ LogoutForgets
  BY <1>3 DEF Waiting, LogoutForgets
<1>7. GuestNicksLegal
  BY <1>1 DEF GuestNicksLegal
<1> QED
  BY <1>1, <1>4, <1>5, <1>6, <1>7 DEF Identity, IdentitiesSound

LEMMA IdentityAlways == Spec => []Identity
<1>1. Init => Identity
  BY InitIdentity
<1>2. Identity /\ [Next]_vars => Identity'
  BY IdentityStep
<1> QED
  BY <1>1, <1>2, PTL DEF Spec

(* IdentitiesSound, for any number of connections: however the waits for   *)
(* the providers interleave, session and player record carry no account    *)
(* but one confirmed to that connection, a logout sticks until the next    *)
(* logon, and a guest's nick on the list went through ValidateNick.        *)
THEOREM IdentitiesSoundAlways == Spec => []IdentitiesSound
<1>1. Identity => IdentitiesSound
  BY DEF Identity
<1> QED
  BY <1>1, IdentityAlways, PTL

----------------------------------------------------------------------------
(* What providers are told.                                                *)

LEMMA PostedByHolder ==
    ASSUME Identity, PostsReachIssuer, NEW c \in Conns,
           posted' = PostAccountAction(session[c].account), vouched' = vouched
    PROVE  PostsReachIssuer'
<1> SUFFICES ASSUME NEW p \in posted'
             PROVE  \E d \in Conns : \E a \in vouched'[d] :
                        a.id = p.id /\ ProviderKey(a.type) = p.to
  BY DEF PostsReachIssuer
<1>1. CASE p \in posted
  BY <1>1 DEF PostsReachIssuer
<1>2. CASE p \notin posted
  <2> DEFINE a == session[c].account
  <2>1. a # NoAccount /\ p = [to |-> PostKey(a), id |-> a.id]
    BY <1>2 DEF PostAccountAction
  <2>2. a \in vouched[c]
    BY <2>1 DEF Identity, IdentitiesSound, AccountsVouched
  <2>3. p.id = a.id /\ p.to = ProviderKey(a.type)
    BY <2>1 DEF PostKey
  <2> QED
    BY <2>2, <2>3
<1> QED
  BY <1>1, <1>2

LEMMA PostsKept ==
    ASSUME PostsReachIssuer, posted' = posted,
           \A d \in Conns : vouched[d] \subseteq vouched'[d]
    PROVE  PostsReachIssuer'
BY DEF PostsReachIssuer

LEMMA PostsStep ==
    ASSUME Identity, PostsReachIssuer, [Next]_vars
    PROVE  PostsReachIssuer'
<1>1. CASE UNCHANGED vars
  BY <1>1, PostsKept DEF vars
<1>2. ASSUME NEW c \in Conns, PostDone(c) \/ StartPosts(c)
      PROVE  PostsReachIssuer'
  BY <1>2, PostedByHolder DEF PostDone, StartPosts
<1>3. ASSUME NEW c \in Conns, NEW answer, NEW id, LogonAnswer(c, answer, id)
      PROVE  PostsReachIssuer'
  <2>1. posted' = posted
    BY <1>3 DEF LogonAnswer
  <2>2. \A d \in Conns : vouched[d] \subseteq vouched'[d]
    BY <1>3 DEF LogonAnswer, Identity, Shapes
  <2> QED
    BY <2>1, <2>2, PostsKept
<1>4. ASSUME NEW c \in Conns,
             \/ \E r \in Requests : TryEnter(c, r)
             \/ InsertProvider(c) \/ LogonTimeout(c) \/ Enter(c)
      PROVE  PostsReachIssuer'
  <2>1. posted' = posted /\ vouched' = vouched
    BY <1>4 DEF TryEnter, InsertProvider, LogonTimeout, Enter
  <2> QED
    BY <2>1, PostsKept
<1> QED
  BY <1>1, <1>2, <1>3, <1>4 DEF Next, Finish

(* PostsReachIssuer, for any number of connections and providers: an       *)
(* account action carries an account id only to the provider that issued   *)
(* it, although the session may have changed since the request came.       *)
THEOREM PostsReachIssuerAlways == Spec => []PostsReachIssuer
<1>1. Init => PostsReachIssuer
  BY DEF Init, PostsReachIssuer
<1>2. Identity /\ PostsReachIssuer /\ [Next]_vars => PostsReachIssuer'
  BY PostsStep
<1> QED
  BY <1>1, <1>2, IdentityAlways, PTL DEF Spec
=============================================================================
