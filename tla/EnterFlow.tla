----------------------------- MODULE EnterFlow -----------------------------
(***************************************************************************)
(* How a client enters: the try_enter route, the decision of the identity  *)
(* service, its HTTP calls to the account providers, and the session and   *)
(* player record that result.  Connections run concurrently; the handler   *)
(* of one waits for its provider while others go on.                       *)
(*                                                                         *)
(* A nick is a sequence of characters, each standing for its class:        *)
(* "a" letters, "_" the signs [ ] _, "1" digits, "-", "#" the developer    *)
(* marker as a whole, and "!" all others.                                  *)
(***************************************************************************)
EXTENDS Integers, SequencesExt

CONSTANTS
    Conns,          \* connections
    Requests,       \* bound: the try_enter requests clients make
    Configured,     \* provider keys with a host and a secret in the config
    Known,          \* provider keys present in the config's map
    IssuedIDs,      \* bound: account ids the providers give out (numbers)
    ExpFrom,        \* first number Go prints with an exponent (10^6 scaled)
    MaxNickLen      \* 25 in the code, scaled

NickChars == {"a", "_", "1", "-"}
AnyChar == NickChars \cup {"#", "!"}

NoRequest == [nick |-> <<>>, type |-> "", password |-> "",
              reset |-> FALSE, loggedIn |-> FALSE, height |-> 0]

ASSUME RequestsAssumption ==
    \A r \in Requests : /\ DOMAIN r = DOMAIN NoRequest
                        /\ r.nick \in Seq(AnyChar)
                        /\ r.reset \in BOOLEAN

ASSUME NickLenAssumption == MaxNickLen \in Nat \ {0}

VARIABLES
    session,    \* of each connection: account, player id, nick, dev, height
    pc,         \* idle, insert, logon (HTTP), post (HTTP)
    req,        \* the request being handled
    page,       \* what the client was shown last
    players,    \* Store.players, by id
    providers,  \* keys of the Providers map all connections share
    vouched,    \* history: accounts a provider confirmed to a connection
    out,        \* history: the connection reset its login since
    posted      \* history: account actions sent, [to, id]

vars == <<session, pc, req, page, players, providers, vouched, out, posted>>

NoAccount == [type |-> "", login |-> <<>>, id |-> <<"", 0>>]
NewSession == [account |-> NoAccount, id |-> 0, nick |-> <<>>, dev |-> FALSE,
               height |-> 0]

Init ==
    /\ session = [c \in Conns |-> NewSession]
    /\ pc = [c \in Conns |-> "idle"]
    /\ req = [c \in Conns |-> NoRequest]
    /\ page = [c \in Conns |-> [kind |-> "none", text |-> ""]]
    /\ players = <<>>
    /\ providers = Known
    /\ vouched = [c \in Conns |-> {}]
    /\ out = [c \in Conns |-> FALSE]
    /\ posted = {}

----------------------------------------------------------------------------
(* Nicks                                                                   *)
IsDev(nick) == nick # <<>> /\ Last(nick) = "#"
StripDevSuffix(nick) == IF IsDev(nick) THEN Front(nick) ELSE nick

ValidateNick(nick) ==
    IF nick = <<>> THEN "empty"
    ELSE IF ~ (ToSet(nick) \subseteq NickChars) THEN "character"
    ELSE IF nick[1] = "-" THEN "dash"
    ELSE IF nick[1] = "1" THEN "digit"
    ELSE "ok"

TruncateNick(nick) ==
    IF Len(nick) > MaxNickLen THEN SubSeq(nick, 1, MaxNickLen) ELSE nick

(* Unsupported characters are dropped; "player" if nothing is left.        *)
SanitizeAccountNick(nick) ==
    LET kept == SelectSeq(nick, LAMBDA ch : ch \in NickChars)
    IN  IF kept = <<>> THEN <<"a", "a", "a", "a", "a", "a">>
        ELSE IF kept[1] = "1" THEN <<"_">> \o kept ELSE kept

----------------------------------------------------------------------------
(* The account providers                                                   *)

(* What a failed logon is called on the page.                              *)
AuthErrMessage(answer) ==
    IF answer = "rejected" THEN "incorrect login or password"
    ELSE "problem with server"

(* AuthConfig.Provider: the key an account type is looked up by.           *)
ProviderKey(type) == CASE type = "LCN" -> "lcn" [] type = "WCL" -> "wcl"

(* fmt.Sprintf("%v") of a JSON number.                                     *)
FormatID(id) == IF id >= ExpFrom THEN <<"exp", id>> ELSE <<"dec", id>>

(* MUTANT: actions always go to the LCN provider.                          *)
PostKeyLCN(account) == "lcn"

(* PostAccountAction: the provider of the account's type.                  *)
PostKey(account) == ProviderKey(account.type)

(* PostAccountAction sends, unless there is no account or no provider.     *)
PostAccountAction(account) ==
    IF account = NoAccount \/ PostKey(account) \notin Configured THEN posted
    ELSE posted \cup {[to |-> PostKey(account), id |-> account.id]}

----------------------------------------------------------------------------
(* Routes.successEnter: a known connection keeps its player id, the record *)
(* is replaced and carries the session's account.                          *)
SuccessEnter(c, s, nick) ==
    LET id == IF s.id > 0 THEN s.id ELSE Len(players) + 1
        pl == [nick |-> nick, account |-> s.account]
    IN  /\ players' = IF s.id > 0 THEN [players EXCEPT ![id] = pl]
                      ELSE Append(players, pl)
        /\ session' = [session EXCEPT ![c] = [s EXCEPT !.id = id, !.nick = nick]]
        /\ page' = [page EXCEPT ![c] = [kind |-> "ok", text |-> ""]]
        /\ pc' = [pc EXCEPT ![c] = "idle"]

(* RenderEnter, or the error page: the session is s, nobody is admitted.   *)
Render(c, s, kind, text) ==
    /\ page' = [page EXCEPT ![c] = [kind |-> kind, text |-> text]]
    /\ session' = [session EXCEPT ![c] = s]
    /\ pc' = [pc EXCEPT ![c] = "idle"]
    /\ UNCHANGED players

(* MUTANT: a logout keeps the account.                                     *)
ResetKeeping(c, s) == Render(c, s, "enter", "")

(* RESET: the account is cleared and the enter page shown.                 *)
Reset(c, s) == Render(c, [s EXCEPT !.account = NoAccount], "enter", "")

(* LOGGED_IN: with an account, its enter action is posted first.           *)
LoggedIn(c, s) ==
    IF s.account # NoAccount
    THEN /\ pc' = [pc EXCEPT ![c] = "post"]
         /\ session' = [session EXCEPT ![c] = s]
         /\ UNCHANGED <<page, players>>
    ELSE Render(c, s, "enter", "")

(* LCN or WCL: a nick and a password, then Authenticate, which begins by   *)
(* looking its provider up; an unknown key is inserted into the map.       *)
Account(c, r, s) ==
    IF r.nick = <<>> THEN Render(c, s, "enter", "enter nick")
    ELSE IF r.password = "" THEN Render(c, s, "enter", "enter password")
    ELSE IF ProviderKey(r.type) \in providers \ Configured
    THEN Render(c, s, "enter", AuthErrMessage("misconfigured"))
    ELSE /\ pc' = [pc EXCEPT ![c] = IF ProviderKey(r.type) \in providers
                                    THEN "logon" ELSE "insert"]
         /\ session' = [session EXCEPT ![c] = s]
         /\ UNCHANGED <<page, players>>

(* A guest: height, then the nick as given.                                *)
Guest(c, r, s) ==
    LET sized == IF r.height # 0 THEN [s EXCEPT !.height = r.height] ELSE s
        verdict == ValidateNick(r.nick)
    IN  IF verdict # "ok" THEN Render(c, sized, "error", verdict)
        ELSE SuccessEnter(c, sized, TruncateNick(r.nick))

(* TryEnterImpl up to its first HTTP call, or to the end.                  *)
TryEnter(c, r) ==
    /\ pc[c] = "idle"
    /\ LET s == [session[c] EXCEPT !.dev = IsDev(r.nick)]
           stripped == [r EXCEPT !.nick = StripDevSuffix(r.nick)]
       IN  /\ IF r.reset THEN Reset(c, s)
              ELSE IF r.loggedIn THEN LoggedIn(c, s)
              ELSE IF r.type \in {"LCN", "WCL"} THEN Account(c, stripped, s)
              ELSE Guest(c, stripped, s)
           /\ req' = [req EXCEPT ![c] = IF pc'[c] = "idle" THEN NoRequest
                                        ELSE stripped]
    /\ out' = [out EXCEPT ![c] = out[c] \/ r.reset]
    /\ UNCHANGED <<providers, vouched, posted>>

(* The map write of AuthConfig.Provider.  The new entry has no host: the   *)
(* provider is misconfigured.                                              *)
InsertProvider(c) ==
    /\ pc[c] = "insert"
    /\ providers' = providers \cup {ProviderKey(req[c].type)}
    /\ Render(c, session[c], "enter", AuthErrMessage("failed"))
    /\ req' = [req EXCEPT ![c] = NoRequest]
    /\ UNCHANGED <<vouched, out, posted>>

Accepts(answer) == answer = "success"

(* The provider answers the logon, or the call fails.                      *)
LogonAnswer(c, answer, id) ==
    LET r == req[c]
        acc == [type |-> r.type, login |-> r.nick, id |-> FormatID(id)]
    IN  /\ pc[c] = "logon"
        /\ IF Accepts(answer)
           THEN SuccessEnter(c, [session[c] EXCEPT !.account = acc],
                             SanitizeAccountNick(r.nick))
           ELSE Render(c, session[c], "enter", AuthErrMessage(answer))
        /\ IF answer = "success"
           THEN /\ vouched' = [vouched EXCEPT ![c] = @ \cup {acc}]
                /\ out' = [out EXCEPT ![c] = FALSE]
                /\ providers' = providers \cup {ProviderKey("LCN")}
           ELSE UNCHANGED <<vouched, out, providers>>
        /\ req' = [req EXCEPT ![c] = NoRequest]
        /\ UNCHANGED posted

(* MUTANT: a client without a timeout.                                     *)
HttpTimeoutNever(c) == FALSE

(* The HTTP client gives up.                                               *)
HttpTimeout(c) == pc[c] = "logon"

LogonTimeout(c) ==
    /\ HttpTimeout(c)
    /\ Render(c, session[c], "enter", AuthErrMessage("failed"))
    /\ req' = [req EXCEPT ![c] = NoRequest]
    /\ UNCHANGED <<providers, vouched, out, posted>>

(* The enter action has been posted, or not: errors are swallowed.         *)
PostDone(c) ==
    /\ pc[c] = "post"
    /\ posted' = PostAccountAction(session[c].account)
    /\ SuccessEnter(c, session[c], SanitizeAccountNick(session[c].account.login))
    /\ req' = [req EXCEPT ![c] = NoRequest]
    /\ UNCHANGED <<providers, vouched, out>>

(* The start command posts through the controller.                         *)
StartPosts(c) ==
    /\ pc[c] = "idle"
    /\ session[c].id > 0
    /\ posted' = PostAccountAction(session[c].account)
    /\ UNCHANGED <<session, pc, req, page, players, providers, vouched, out>>

(* The enter route: with an account, the page offers logout.               *)
Enter(c) ==
    /\ pc[c] = "idle"
    /\ page' = [page EXCEPT ![c] =
                   [kind |-> "enter",
                    text |-> IF session[c].account # NoAccount THEN "logout" ELSE ""]]
    /\ UNCHANGED <<session, pc, req, players, providers, vouched, out, posted>>

Finish(c) == InsertProvider(c) \/ LogonTimeout(c) \/ PostDone(c)

Next ==
    \E c \in Conns :
        \/ \E r \in Requests : TryEnter(c, r)
        \/ \E answer \in {"success", "rejected", "malformed"}, id \in IssuedIDs :
               LogonAnswer(c, answer, id)
        \/ Finish(c)
        \/ StartPosts(c)
        \/ Enter(c)

(* Goroutines run on, and an HTTP call ends at the client's timeout; that  *)
(* a provider ever answers is not assumed.                                 *)
Spec == Init /\ [][Next]_vars /\ \A c \in Conns : WF_vars(Finish(c))

----------------------------------------------------------------------------
(* Properties                                                              *)

(* Nobody is shown with an account its provider did not confirm to that    *)
(* very connection, in the session or in the player record.                *)
AccountsVouched ==
    \A c \in Conns :
        /\ session[c].account \in vouched[c] \cup {NoAccount}
        /\ session[c].id > 0 =>
              players[session[c].id].account \in vouched[c] \cup {NoAccount}

(* After a logout the connection has no account, and a player that enters  *)
(* then does not carry the old one.                                        *)
LogoutForgets ==
    \A c \in Conns :
        out[c] => /\ session[c].account = NoAccount
                  /\ (page[c].kind = "ok") => players[session[c].id].account = NoAccount

(* A guest's nick on the player list keeps the rules of nicks, and is no   *)
(* longer than the cap.                                                    *)
GuestNicksLegal ==
    \A i \in DOMAIN players :
        players[i].account = NoAccount =>
            /\ Len(players[i].nick) \in 1 .. MaxNickLen
            /\ players[i].nick[1] \in {"a", "_"}
            /\ "!" \notin ToSet(players[i].nick)

(* Who a player is said to be: the account, if any, and the nick.          *)
IdentitiesSound == AccountsVouched /\ LogoutForgets /\ GuestNicksLegal

(* Account actions reach the provider that issued the account's id.        *)
PostsReachIssuer ==
    \A p \in posted : \E c \in Conns : \E a \in vouched[c] :
        a.id = p.id /\ ProviderKey(a.type) = p.to

(* Every attempt to enter ends with a page, though no provider answers.    *)
EnterAnswered == \A c \in Conns : (pc[c] # "idle") ~> (pc[c] = "idle")

----------------------------------------------------------------------------
(* What the repository says and the code does not do.                      *)

(* nick.go: SanitizeAccountNick gives "a nick that satisfies               *)
(* ValidateNick".                                                          *)
AccountNicksValid ==
    \A i \in DOMAIN players : ValidateNick(players[i].nick) = "ok"

(* registry.go: handlers "must be safe for concurrent invocation": no      *)
(* handler uses the Providers map while another writes it.                 *)
ProvidersExclusive ==
    \A c, d \in Conns : c # d => ~ (pc[c] = "insert" /\ pc[d] = "insert")

(* provider_test.go: a numeric id of the provider is kept in decimals.     *)
AccountIDKept ==
    \A c \in Conns : session[c].account # NoAccount =>
        session[c].account.id[1] = "dec"
=============================================================================
