-------------------------------- MODULE OAuth --------------------------------
(***************************************************************************)
(* The OAuth authorization server and its SQLite store (src/oauth.rs,      *)
(* src/keys.rs) together with the bearer check that accepts its tokens     *)
(* (src/auth.rs).  Handlers run concurrently; each database call is one    *)
(* atomic statement on a blocking thread, and between two of them a        *)
(* handler can be overtaken by others, by the clock, by its client hanging *)
(* up (the statement already handed over still runs) or by a crash of the  *)
(* process, which the tables survive.  Codes and tokens are never deleted. *)
(***************************************************************************)
EXTENDS Naturals, FiniteSets

CONSTANTS
  Handlers,    \* requests being handled
  Clients, Codes, Tokens,   \* ids the server can generate (random, so fresh)
  Uris,        \* redirect URIs: records of the `scheme` and what `begins` after it
  Verifiers,   \* PKCE code verifiers
  Own, Other,  \* the server's own audience, and another resource
  CodeTTL, TokenTTL, MaxTime,  \* lifetimes, and the bound on the clock
  None

ASSUME TimeAssumption == {CodeTTL, TokenTTL, MaxTime} \subseteq Nat
ASSUME ResourcesAssumption == Own # Other /\ None \notin {Own, Other}

VARIABLES
  now,       \* the database's clock
  clients,   \* oauth_clients: the redirect URIs of each registered client
  codes,     \* oauth_codes
  tokens,    \* oauth_tokens
  pc,        \* the database call each handler waits for
  req,       \* the request it handles
  gone,      \* handlers whose client hung up
  consumed,  \* what a token request got from consume_auth_code
  grants,    \* history: which request obtained which token from which code
  refused,   \* history: codes presented with a verifier that failed PKCE
  accepted   \* history: bearer tokens accepted, and when

tables == <<clients, codes, tokens>>
handlerVars == <<pc, req, gone, consumed>>
history == <<grants, refused, accepted>>
vars == <<now, tables, handlerVars, history>>

\* Only the beginning of a URI is compared: what begins like a local address is
\* taken for one, whatever its host goes on with.
valid_redirect(u) ==
  \/ u.scheme = "https"
  \/ u.scheme = "http" /\ u.begins \in {"localhost", "127.0.0.1"}

ValidUris == {u \in Uris : valid_redirect(u)}

S256(v) == <<"S256", v>>
Challenges == {S256(v) : v \in Verifiers}
Resources  == {Own, Other}

CodeRow ==
  [client : Clients, challenge : Challenges, uri : Uris,
   resource : Resources \cup {None}, expires : Nat, used : BOOLEAN]
TokenRow == [client : Clients, audience : Resources, expires : Nat]

ASSUME NoneAssumption ==
  None \notin Challenges \cup CodeRow \cup TokenRow /\ \A U \in SUBSET Uris : U # None

AuthorizeReq ==
  [client : Clients, uri : Uris, challenge : Challenges \cup {None},
   resource : Resources \cup {None}]
TokenReq == [code : Codes, uri : Uris, verifier : Verifiers]

Shaped ==
  /\ now \in Nat
  /\ clients \in [Clients -> (SUBSET ValidUris) \cup {None}]
  /\ codes \in [Codes -> CodeRow \cup {None}]
  /\ tokens \in [Tokens -> TokenRow \cup {None}]
  /\ pc \in [Handlers -> {"idle", "lookup", "create", "consume", "issue"}]
  /\ req \in [Handlers -> AuthorizeReq \cup TokenReq \cup {None}]
  /\ gone \subseteq Handlers
  /\ consumed \in [Handlers -> CodeRow \cup {None}]
  /\ grants \subseteq [code : Codes, token : Tokens, uri : Uris, verifier : Verifiers]
  /\ refused \subseteq Codes
  /\ accepted \subseteq (Tokens \X Nat)

\* A handler works on the kind of request its next database call is for.
HandlerTyped(h) ==
  /\ pc[h] \in {"lookup", "create"} => req[h] \in AuthorizeReq
  /\ pc[h] \in {"consume", "issue"} => req[h] \in TokenReq
  /\ pc[h] = "create" => req[h].challenge # None
  /\ pc[h] = "consume" => codes[req[h].code] # None
  /\ pc[h] = "issue" => consumed[h] # None

TypeOK == Shaped /\ \A h \in Handlers : HandlerTyped(h)

Init ==
  /\ now = 0
  /\ clients = [c \in Clients |-> None]
  /\ codes = [k \in Codes |-> None]
  /\ tokens = [t \in Tokens |-> None]
  /\ pc = [h \in Handlers |-> "idle"]
  /\ req = [h \in Handlers |-> None]
  /\ gone = {}
  /\ consumed = [h \in Handlers |-> None]
  /\ grants = {} /\ refused = {} /\ accepted = {}

-----------------------------------------------------------------------------
(* Handlers. *)

Start(h, where, request) ==
  /\ pc[h] = "idle"
  /\ pc' = [pc EXCEPT ![h] = where]
  /\ req' = [req EXCEPT ![h] = request]
  /\ UNCHANGED <<now, tables, gone, consumed, history>>

\* The handler answers, or stops because its client hung up.
Done(h) ==
  /\ pc' = [pc EXCEPT ![h] = "idle"]
  /\ req' = [req EXCEPT ![h] = None]
  /\ gone' = gone \ {h}
  /\ consumed' = [consumed EXCEPT ![h] = None]

\* The handler goes on to its next database call.
Continue(h, where) ==
  /\ h \notin gone
  /\ pc' = [pc EXCEPT ![h] = where]
  /\ UNCHANGED <<req, gone>>

\* Any database call may fail (or its task panic): the handler answers 500.
DatabaseError(h) ==
  /\ pc[h] # "idle"
  /\ Done(h)
  /\ UNCHANGED <<now, tables, history>>

\* The client hangs up while a database call is under way.
HangUp(h) ==
  /\ pc[h] # "idle"
  /\ gone' = gone \cup {h}
  /\ UNCHANGED <<now, tables, pc, req, consumed, history>>

\* Mutant: one valid URI is enough.
Register_AnyValid ==
  \E c \in Clients, U \in (SUBSET Uris) \ {{}} :
    /\ clients[c] = None
    /\ U \cap ValidUris # {}
    /\ clients' = [clients EXCEPT ![c] = U]
    /\ UNCHANGED <<now, codes, tokens, handlerVars, history>>

\* POST /oauth/register, one database call: at least one URI, all valid.
Register ==
  \E c \in Clients, U \in (SUBSET Uris) \ {{}} :
    /\ clients[c] = None
    /\ U \subseteq ValidUris
    /\ clients' = [clients EXCEPT ![c] = U]
    /\ UNCHANGED <<now, codes, tokens, handlerVars, history>>

-----------------------------------------------------------------------------
(* GET /oauth/authorize.  A challenge that is missing, or not S256, is None. *)

Authorize(h) == \E r \in AuthorizeReq : Start(h, "lookup", r)

MayRedirect(r) == clients[r.client] # None /\ r.uri \in clients[r.client]

Lookup(h) ==
  /\ pc[h] = "lookup"
  /\ \/ MayRedirect(req[h]) /\ req[h].challenge # None
        /\ Continue(h, "create") /\ UNCHANGED consumed
     \/ ~ (MayRedirect(req[h]) /\ req[h].challenge # None /\ h \notin gone)
        /\ Done(h)
  /\ UNCHANGED <<now, tables, history>>

CreateCode(h) ==
  /\ pc[h] = "create"
  /\ \E k \in Codes :
       /\ codes[k] = None
       /\ codes' = [codes EXCEPT ![k] =
            [client |-> req[h].client, challenge |-> req[h].challenge,
             uri |-> req[h].uri, resource |-> req[h].resource,
             expires |-> now + CodeTTL, used |-> FALSE]]
  /\ Done(h)
  /\ UNCHANGED <<now, clients, tokens, history>>

-----------------------------------------------------------------------------
(* POST /oauth/token. *)

Token(h) == \E r \in TokenReq : codes[r.code] # None /\ Start(h, "consume", r)

\* Mutant: the used flag is not looked at.
Consumable_Used(r) == codes[r.code].uri = r.uri /\ codes[r.code].expires > now

\* Mutant: the redirect URI is not compared.
Consumable_AnyUri(r) == ~ codes[r.code].used /\ codes[r.code].expires > now

Consumable(r) ==
  /\ ~ codes[r.code].used
  /\ codes[r.code].uri = r.uri
  /\ codes[r.code].expires > now

\* Mutant: the verifier is looked at first, and only a good one uses the code up.
Consume_PkceFirst(h) ==
  /\ pc[h] = "consume"
  /\ LET r == req[h] good == Consumable(r) /\ codes[r.code].challenge = S256(r.verifier)
     IN \/ /\ good
           /\ codes' = [codes EXCEPT ![r.code].used = TRUE]
           /\ Continue(h, "issue")
           /\ consumed' = [consumed EXCEPT ![h] = codes[r.code]]
           /\ UNCHANGED refused
        \/ /\ ~ good
           /\ Done(h)
           /\ refused' = IF Consumable(r) THEN refused \cup {r.code} ELSE refused
           /\ UNCHANGED codes
  /\ UNCHANGED <<now, clients, tokens, grants, accepted>>

\* One UPDATE ... RETURNING marks the code used and reads it; then the verifier
\* is checked against the challenge it returned.
Consume(h) ==
  /\ pc[h] = "consume"
  /\ LET r == req[h]
         row == codes[r.code]
         pkce == S256(r.verifier) = row.challenge
     IN \/ /\ ~ Consumable(r)
           /\ Done(h)
           /\ UNCHANGED <<codes, refused>>
        \/ /\ Consumable(r)
           /\ codes' = [codes EXCEPT ![r.code].used = TRUE]
           /\ \/ /\ pkce
                 /\ Continue(h, "issue")
                 /\ consumed' = [consumed EXCEPT ![h] = row]
                 /\ UNCHANGED refused
              \/ /\ ~ pkce \/ h \in gone
                 /\ Done(h)
                 /\ refused' = IF pkce THEN refused ELSE refused \cup {r.code}
  /\ UNCHANGED <<now, clients, tokens, grants, accepted>>

\* Mutant: tokens are always for this server.
Audience_Own(row) == Own

\* The audience asked for at /authorize, or the server's own.
Audience(row) == IF row.resource = None THEN Own ELSE row.resource

IssueToken(h) ==
  /\ pc[h] = "issue"
  /\ \E t \in Tokens :
       /\ tokens[t] = None
       /\ tokens' = [tokens EXCEPT ![t] =
            [client |-> consumed[h].client, audience |-> Audience(consumed[h]),
             expires |-> now + TokenTTL]]
       /\ grants' = grants \cup
            {[code |-> req[h].code, token |-> t, uri |-> req[h].uri,
              verifier |-> req[h].verifier]}
  /\ Done(h)
  /\ UNCHANGED <<now, clients, codes, refused, accepted>>

-----------------------------------------------------------------------------
(* The bearer check on /mcp. *)

Accepts(t) ==
  tokens[t] # None /\ tokens[t].audience = Own /\ tokens[t].expires > now

Access ==
  /\ \E t \in Tokens : Accepts(t) /\ accepted' = accepted \cup {<<t, now>>}
  /\ UNCHANGED <<now, tables, handlerVars, grants, refused>>

-----------------------------------------------------------------------------
Tick ==
  /\ now < MaxTime
  /\ now' = now + 1
  /\ UNCHANGED <<tables, handlerVars, history>>

\* The process dies and is started again on the same database.
Crash ==
  /\ \E h \in Handlers : pc[h] # "idle"
  /\ pc' = [h \in Handlers |-> "idle"]
  /\ req' = [h \in Handlers |-> None]
  /\ gone' = {}
  /\ consumed' = [h \in Handlers |-> None]
  /\ UNCHANGED <<now, tables, history>>

Handle(h) == Lookup(h) \/ CreateCode(h) \/ Consume(h) \/ IssueToken(h)

Next ==
  \/ \E h \in Handlers :
       Authorize(h) \/ Token(h) \/ Handle(h) \/ DatabaseError(h) \/ HangUp(h)
  \/ Register \/ Access \/ Tick \/ Crash

Spec == Init /\ [][Next]_vars

-----------------------------------------------------------------------------
(* Safety. *)

TokensFrom(k) == {g.token : g \in {x \in grants : x.code = k}}

\* A code buys at most one token, whatever concurrent requests present it and
\* wherever a crash or a hang-up falls ("a code can never be replayed",
\* keys.rs:209).
OneTokenPerCode == \A k \in Codes : Cardinality(TokensFrom(k)) <= 1

\* A code presented once with a wrong verifier is burnt: no later request gets
\* a token for it, not even one with the right verifier.
WrongVerifierBurnsCode == \A k \in refused : TokensFrom(k) = {}

\* Every token goes back to a code issued to the same client, for the audience
\* asked for at /authorize, was obtained by a request that named the code's
\* redirect URI and knew its verifier, and that URI is one its client registered.
TokensAreBound ==
  \A g \in grants :
    LET k == codes[g.code] t == tokens[g.token] IN
      /\ k.uri = g.uri /\ k.challenge = S256(g.verifier)
      /\ k.uri \in clients[k.client]
      /\ t.client = k.client
      /\ t.audience = IF k.resource = None THEN Own ELSE k.resource

\* No request gets through on a token that had run out, or that was asked for
\* another resource when its code was made.
AcceptedTokensAreOurs ==
  \A a \in accepted :
    \E g \in grants :
      /\ g.token = a[1] /\ codes[g.code].resource # Other
      /\ a[2] < tokens[a[1]].expires
=============================================================================
