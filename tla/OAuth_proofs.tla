---------------------------- MODULE OAuth_proofs ----------------------------
(***************************************************************************)
(* For any handlers, clients, codes, tokens, URIs, verifiers and clock:    *)
(* OAuth is well typed, a code buys at most one token, none once a wrong   *)
(* verifier was presented, and every token is bound to what its code was   *)
(* asked for.                                                              *)
(***************************************************************************)
EXTENDS OAuth, FiniteSetTheorems, TLAPS

USE TimeAssumption, ResourcesAssumption, NoneAssumption

-----------------------------------------------------------------------------
(* The inductive invariant. *)

\* A code on its way to a client, or with one, leads to a registered URI.
Home ==
  /\ \A h \in Handlers : pc[h] = "create" => MayRedirect(req[h])
  /\ \A k \in Codes : codes[k] # None =>
       clients[codes[k].client] # None /\ codes[k].uri \in clients[codes[k].client]

\* A request matches the row of the code it names.
Matches(row, r) == row.uri = r.uri /\ row.challenge = S256(r.verifier)

\* A handler about to issue a token used the code up, was right about it, and
\* holds what the row says; nobody got a token for the code so far.
Issuing(h) ==
  LET row == codes[req[h].code] IN
    /\ row # None /\ row.used /\ Matches(row, req[h])
    /\ consumed[h].client = row.client /\ consumed[h].resource = row.resource
    /\ req[h].code \notin refused
    /\ \A g \in grants : g.code # req[h].code

\* What a grant says is what the rows say.
Granted(g) ==
  LET row == codes[g.code] t == tokens[g.token] IN
    /\ row # None /\ row.used /\ Matches(row, g)
    /\ t # None /\ t.client = row.client /\ t.audience = Audience(row)
    /\ g.code \notin refused

\* Whoever saw a code's used flag rise is alone with the code.
Alone ==
  /\ \A h, q \in Handlers :
       pc[h] = "issue" /\ pc[q] = "issue" /\ req[h].code = req[q].code => h = q
  /\ \A f, g \in grants : f.code = g.code => f = g

Spent ==
  /\ \A h \in Handlers : pc[h] = "issue" => Issuing(h)
  /\ \A g \in grants : Granted(g)
  /\ \A k \in refused : codes[k] # None /\ codes[k].used
  /\ \A t \in Tokens : tokens[t] # None => \E g \in grants : g.token = t
  /\ Alone

IInv == TypeOK /\ Home /\ Spent /\ AcceptedTokensAreOurs

-----------------------------------------------------------------------------
(* Types: those of the state, those of the handler that takes the step, and *)
(* those of the other handlers.                                             *)

\* A new authorization request waits for the lookup.
LEMMA AuthorizeTyped ==
  ASSUME TypeOK, NEW h \in Handlers, Authorize(h)
  PROVE  TypeOK'
<1> USE DEF TypeOK, Authorize, Start, Continue, Done, tables, handlerVars, history
<1>1. Shaped' BY DEF Shaped, HandlerTyped
<1>2. HandlerTyped(h)' BY DEF Shaped, HandlerTyped
<1>3. ASSUME NEW q \in Handlers \ {h} PROVE HandlerTyped(q)'
  BY DEF Shaped, HandlerTyped
<1>4. QED BY <1>1, <1>2, <1>3

\* A token request names a code that was issued.
LEMMA TokenTyped ==
  ASSUME TypeOK, NEW h \in Handlers, Token(h)
  PROVE  TypeOK'
<1> USE DEF TypeOK, Token, Start, Continue, Done, tables, handlerVars, history
<1>1. Shaped' BY DEF Shaped, HandlerTyped
<1>2. HandlerTyped(h)' BY DEF Shaped, HandlerTyped
<1>3. ASSUME NEW q \in Handlers \ {h} PROVE HandlerTyped(q)'
  BY DEF Shaped, HandlerTyped
<1>4. QED BY <1>1, <1>2, <1>3

\* A request that passes the lookup has a challenge.
LEMMA LookupTyped ==
  ASSUME TypeOK, NEW h \in Handlers, Lookup(h)
  PROVE  TypeOK'
<1> USE DEF TypeOK, Lookup, Start, Continue, Done, tables, handlerVars, history
<1>1. Shaped' BY DEF Shaped, HandlerTyped
<1>2. HandlerTyped(h)' BY DEF Shaped, HandlerTyped
<1>3. ASSUME NEW q \in Handlers \ {h} PROVE HandlerTyped(q)'
  BY DEF Shaped, HandlerTyped
<1>4. QED BY <1>1, <1>2, <1>3

\* The row of a new code is made from the request.
LEMMA CreateCodeTyped ==
  ASSUME TypeOK, NEW h \in Handlers, CreateCode(h)
  PROVE  TypeOK'
<1> USE DEF TypeOK, CreateCode, Done, tables, history
<1>1. PICK k \in Codes : codes' = [codes EXCEPT ![k] =
         [client |-> req[h].client, challenge |-> req[h].challenge,
          uri |-> req[h].uri, resource |-> req[h].resource,
          expires |-> now + CodeTTL, used |-> FALSE]]
  OBVIOUS
<1>2. req[h] \in AuthorizeReq /\ req[h].challenge # None BY DEF HandlerTyped
<1>3. codes' \in [Codes -> CodeRow \cup {None}]
 <2>1. now + CodeTTL \in Nat BY DEF Shaped
 <2>2. QED BY <1>1, <1>2, <2>1 DEF Shaped, CodeRow, AuthorizeReq
<1>4. Shaped' BY <1>3 DEF Shaped
<1>5. HandlerTyped(h)' BY DEF Shaped, HandlerTyped
<1>6. ASSUME NEW q \in Handlers \ {h} PROVE HandlerTyped(q)'
 <2>1. \A c \in Codes : codes[c] # None => codes'[c] # None
   BY <1>1, <1>3 DEF Shaped, CodeRow
 <2>2. QED BY <2>1 DEF Shaped, HandlerTyped, TokenReq
<1>7. QED BY <1>4, <1>5, <1>6

\* Marking a code used keeps its row a row.
LEMMA ConsumeTyped ==
  ASSUME TypeOK, NEW h \in Handlers, Consume(h)
  PROVE  TypeOK'
<1> USE DEF TypeOK
<1>1. /\ req[h] \in TokenReq /\ req[h].code \in Codes
      /\ codes[req[h].code] \in CodeRow
  BY DEF Shaped, HandlerTyped, TokenReq, Consume
<1>2. codes' \in [Codes -> CodeRow \cup {None}]
 <2>1. codes' = codes \/ codes' = [codes EXCEPT ![req[h].code].used = TRUE] BY DEF Consume
 <2>2. [codes[req[h].code] EXCEPT !.used = TRUE] \in CodeRow BY <1>1 DEF CodeRow
 <2>3. QED BY <1>1, <2>1, <2>2 DEF Shaped
<1>3. \A k \in Codes : codes[k] # None => codes'[k] # None
 <2>1. codes' = codes \/ codes' = [codes EXCEPT ![req[h].code].used = TRUE] BY DEF Consume
 <2>2. [codes[req[h].code] EXCEPT !.used = TRUE] \in CodeRow BY <1>1 DEF CodeRow
 <2>3. [codes[req[h].code] EXCEPT !.used = TRUE] # None BY <2>2
 <2>4. QED BY <1>1, <2>1, <2>3 DEF Shaped
<1>4. refused' \subseteq Codes BY <1>1 DEF Shaped, Consume
<1>5. Shaped'
  BY <1>1, <1>2, <1>4 DEF Shaped, Consume, Continue, Done
<1>6. HandlerTyped(h)'
  BY <1>1 DEF Shaped, HandlerTyped, Consume, Continue, Done
<1>7. ASSUME NEW q \in Handlers \ {h} PROVE HandlerTyped(q)'
 <2>1. pc'[q] = pc[q] /\ req'[q] = req[q] /\ consumed'[q] = consumed[q]
   BY DEF Shaped, Consume, Continue, Done
 <2>2. QED BY <1>3, <2>1 DEF HandlerTyped, TokenReq
<1>8. QED BY <1>5, <1>6, <1>7

\* The row of a new token is made from the consumed code.
LEMMA IssueTokenTyped ==
  ASSUME TypeOK, NEW h \in Handlers, IssueToken(h)
  PROVE  TypeOK'
<1> USE DEF TypeOK
<1>1. PICK t \in Tokens :
         /\ tokens' = [tokens EXCEPT ![t] =
              [client |-> consumed[h].client, audience |-> Audience(consumed[h]),
               expires |-> now + TokenTTL]]
         /\ grants' = grants \cup
              {[code |-> req[h].code, token |-> t, uri |-> req[h].uri,
                verifier |-> req[h].verifier]}
  BY DEF IssueToken
<1>2. req[h] \in TokenReq /\ consumed[h] \in CodeRow
  BY DEF Shaped, HandlerTyped, IssueToken
<1>3. Audience(consumed[h]) \in Resources BY <1>2 DEF Audience, CodeRow, Resources
<1>4. tokens' \in [Tokens -> TokenRow \cup {None}]
  BY <1>1, <1>2, <1>3 DEF Shaped, TokenRow, CodeRow
<1>5. grants' \subseteq [code : Codes, token : Tokens, uri : Uris, verifier : Verifiers]
  BY <1>1, <1>2 DEF Shaped, TokenReq
<1>6. Shaped' BY <1>4, <1>5 DEF Shaped, IssueToken, Done
<1>7. HandlerTyped(h)' BY DEF Shaped, HandlerTyped, IssueToken, Done
<1>8. ASSUME NEW q \in Handlers \ {h} PROVE HandlerTyped(q)'
  BY DEF Shaped, HandlerTyped, IssueToken, Done
<1>9. QED BY <1>6, <1>7, <1>8

\* A failed call only ends its handler.
LEMMA DatabaseErrorTyped ==
  ASSUME TypeOK, NEW h \in Handlers, DatabaseError(h)
  PROVE  TypeOK'
<1> USE DEF TypeOK, DatabaseError, Start, Continue, Done, tables, handlerVars, history
<1>1. Shaped' BY DEF Shaped, HandlerTyped
<1>2. HandlerTyped(h)' BY DEF Shaped, HandlerTyped
<1>3. ASSUME NEW q \in Handlers \ {h} PROVE HandlerTyped(q)'
  BY DEF Shaped, HandlerTyped
<1>4. QED BY <1>1, <1>2, <1>3

\* Hanging up moves nothing.
LEMMA HangUpTyped ==
  ASSUME TypeOK, NEW h \in Handlers, HangUp(h)
  PROVE  TypeOK'
<1> USE DEF TypeOK, HangUp, Start, Continue, Done, tables, handlerVars, history
<1>1. Shaped' BY DEF Shaped, HandlerTyped
<1>2. HandlerTyped(h)' BY DEF Shaped, HandlerTyped
<1>3. ASSUME NEW q \in Handlers \ {h} PROVE HandlerTyped(q)'
  BY DEF Shaped, HandlerTyped
<1>4. QED BY <1>1, <1>2, <1>3

\* Registration, access, the clock, a crash and stuttering keep the types too.
LEMMA Typing == TypeOK /\ [Next]_vars => TypeOK'
<1> SUFFICES ASSUME TypeOK, [Next]_vars PROVE TypeOK' OBVIOUS
<1> USE DEF TypeOK, tables, handlerVars, history
<1>1. CASE \E h \in Handlers :
             Authorize(h) \/ Token(h) \/ Handle(h) \/ DatabaseError(h) \/ HangUp(h)
  BY <1>1, AuthorizeTyped, TokenTyped, LookupTyped, CreateCodeTyped, ConsumeTyped,
     IssueTokenTyped, DatabaseErrorTyped, HangUpTyped DEF Handle
<1>2. CASE Register BY <1>2 DEF Register, Shaped, HandlerTyped
<1>3. CASE Access BY <1>3 DEF Access, Shaped, HandlerTyped
<1>4. CASE Tick BY <1>4 DEF Tick, Shaped, HandlerTyped
<1>5. CASE Crash BY <1>5 DEF Crash, Shaped, HandlerTyped
<1>6. CASE UNCHANGED vars BY <1>6 DEF vars, Shaped, HandlerTyped
<1>7. QED BY <1>1, <1>2, <1>3, <1>4, <1>5, <1>6 DEF Next

\* Nothing is under way at first.
LEMMA TypedInit == Init => TypeOK
<1> SUFFICES ASSUME Init PROVE TypeOK OBVIOUS
<1> USE DEF Init
<1>1. now \in Nat /\ gone \subseteq Handlers /\ refused \subseteq Codes OBVIOUS
<1>2. clients \in [Clients -> (SUBSET ValidUris) \cup {None}] OBVIOUS
<1>3. codes \in [Codes -> CodeRow \cup {None}] OBVIOUS
<1>4. tokens \in [Tokens -> TokenRow \cup {None}] OBVIOUS
<1>5. pc \in [Handlers -> {"idle", "lookup", "create", "consume", "issue"}] OBVIOUS
<1>6. req \in [Handlers -> AuthorizeReq \cup TokenReq \cup {None}] OBVIOUS
<1>7. consumed \in [Handlers -> CodeRow \cup {None}] OBVIOUS
<1>8. grants \subseteq [code : Codes, token : Tokens, uri : Uris, verifier : Verifiers] OBVIOUS
<1>9. accepted \subseteq (Tokens \X Nat) OBVIOUS
<1>10. ASSUME NEW h \in Handlers PROVE HandlerTyped(h) BY DEF HandlerTyped
<1>11. QED
  BY <1>1, <1>2, <1>3, <1>4, <1>5, <1>6, <1>7, <1>8, <1>9, <1>10 DEF TypeOK, Shaped

-----------------------------------------------------------------------------
(* Permanence. *)

\* What every step keeps of the tables: rows stay, a code's changed in nothing
\* but its used flag, which only rises.
Permanent ==
  /\ \A k \in Codes : codes[k] # None =>
       codes'[k] \in {codes[k], [codes[k] EXCEPT !.used = TRUE]}
  /\ \A t \in Tokens : tokens[t] # None => tokens'[t] = tokens[t]
  /\ \A c \in Clients : clients[c] # None => clients'[c] = clients[c]

\* Consume only marks a row used; CreateCode, IssueToken and Register write
\* rows that were not there; nothing else writes.
LEMMA Permanence == TypeOK /\ [Next]_vars => Permanent
<1> SUFFICES ASSUME TypeOK, [Next]_vars PROVE Permanent OBVIOUS
<1> USE DEF TypeOK, Permanent, tables, handlerVars, history
<1>1. ASSUME NEW h \in Handlers, CreateCode(h) PROVE Permanent
  BY <1>1 DEF CreateCode, Shaped
<1>2. ASSUME NEW h \in Handlers, Consume(h) PROVE Permanent
 <2>1. codes' = codes \/ codes' = [codes EXCEPT ![req[h].code].used = TRUE]
   BY <1>2 DEF Consume
 <2>2. ASSUME NEW k \in Codes
       PROVE  codes'[k] \in {codes[k], [codes[k] EXCEPT !.used = TRUE]}
   BY <2>1 DEF Shaped
 <2>3. QED BY <1>2, <2>2 DEF Consume
<1>3. ASSUME NEW h \in Handlers, IssueToken(h) PROVE Permanent
  BY <1>3 DEF IssueToken, Shaped
<1>4. CASE Register BY <1>4 DEF Register, Shaped
<1>5. CASE UNCHANGED tables BY <1>5
<1>6. ASSUME NEW h \in Handlers,
             Authorize(h) \/ Token(h) \/ Lookup(h) \/ DatabaseError(h) \/ HangUp(h)
      PROVE  UNCHANGED tables
  BY <1>6 DEF Authorize, Token, Lookup, DatabaseError, HangUp, Start
<1>7. CASE Access \/ Tick \/ Crash \/ UNCHANGED vars
  BY <1>7, <1>5 DEF Access, Tick, Crash, vars
<1>8. QED BY <1>1, <1>2, <1>3, <1>4, <1>5, <1>6, <1>7 DEF Next, Handle

\* What a code's row says about its client, and that it was used, stays.
LEMMA RowStays ==
  ASSUME TypeOK, TypeOK', Permanent, NEW k \in Codes, codes[k] # None
  PROVE  /\ codes'[k] # None /\ codes'[k].client = codes[k].client
         /\ codes'[k].uri = codes[k].uri /\ codes'[k].challenge = codes[k].challenge
         /\ codes'[k].resource = codes[k].resource
         /\ codes[k].used => codes'[k].used
<1>1. codes[k] \in CodeRow BY DEF TypeOK, Shaped
<1>2. [codes[k] EXCEPT !.used = TRUE] \in CodeRow BY <1>1 DEF CodeRow
<1>3. CASE codes'[k] = codes[k] BY <1>3
<1>4. CASE codes'[k] = [codes[k] EXCEPT !.used = TRUE]
 <2>1. codes'[k] # None BY <1>2, <1>4
 <2>2. QED BY <1>1, <1>4, <2>1 DEF CodeRow
<1>5. QED BY <1>3, <1>4 DEF Permanent

-----------------------------------------------------------------------------
(* Codes lead home. *)

\* Registered URIs are never changed, so what the lookup saw still holds when
\* the code is created, and whenever it is used.
LEMMA HomeStays == TypeOK /\ TypeOK' /\ Home /\ Permanent /\ [Next]_vars => Home'
<1> SUFFICES ASSUME TypeOK, TypeOK', Home, Permanent, [Next]_vars PROVE Home' OBVIOUS
<1>1. ASSUME NEW c \in Clients, NEW u \in Uris, clients[c] # None, u \in clients[c]
      PROVE  clients'[c] # None /\ u \in clients'[c]
  BY <1>1 DEF Permanent
<1>2. ASSUME NEW h \in Handlers, pc'[h] = "create" PROVE MayRedirect(req[h])' 
 <2>1. \/ pc[h] = "create" /\ req'[h] = req[h]
       \/ Lookup(h) /\ MayRedirect(req[h]) /\ req'[h] = req[h]
   <3> USE <1>2 DEF TypeOK, Shaped, tables, handlerVars, history
   <3>1. ASSUME NEW q \in Handlers,
                Authorize(q) \/ Token(q) \/ DatabaseError(q) \/ HangUp(q)
         PROVE  pc[h] = "create" /\ req'[h] = req[h]
     BY <3>1 DEF Authorize, Token, DatabaseError, HangUp, Start, Done
   <3>2. ASSUME NEW q \in Handlers, CreateCode(q) \/ Consume(q) \/ IssueToken(q)
         PROVE  pc[h] = "create" /\ req'[h] = req[h]
     BY <3>2 DEF CreateCode, Consume, IssueToken, Continue, Done
   <3>3. ASSUME NEW q \in Handlers, Lookup(q), q # h
         PROVE  pc[h] = "create" /\ req'[h] = req[h]
     BY <3>3 DEF Lookup, Continue, Done
   <3>4. ASSUME Lookup(h) PROVE MayRedirect(req[h]) /\ req'[h] = req[h]
     BY <3>4 DEF Lookup, Continue, Done
   <3>5. CASE Register \/ Access \/ Tick \/ Crash \/ UNCHANGED vars
     BY <3>5 DEF Register, Access, Tick, Crash, vars
   <3>6. QED BY <3>1, <3>2, <3>3, <3>4, <3>5 DEF Next, Handle
 <2>2. MayRedirect(req[h]) /\ req'[h] = req[h] BY <2>1 DEF Home
 <2>3. req[h] \in AuthorizeReq BY <1>2, <2>2 DEF TypeOK, HandlerTyped
 <2>4. QED BY <1>1, <2>2, <2>3 DEF MayRedirect, AuthorizeReq
<1>3. ASSUME NEW k \in Codes, codes'[k] # None
      PROVE  /\ clients'[codes'[k].client] # None
             /\ codes'[k].uri \in clients'[codes'[k].client]
 <2>1. CASE codes[k] # None
   <3>1. codes[k].client \in Clients /\ codes[k].uri \in Uris
     BY <2>1 DEF TypeOK, Shaped, CodeRow
   <3>2. QED BY <1>1, <2>1, <3>1, RowStays DEF Home
 <2>2. CASE codes[k] = None
   <3>1. PICK h \in Handlers :
           /\ pc[h] = "create" /\ UNCHANGED clients
           /\ codes'[k].client = req[h].client /\ codes'[k].uri = req[h].uri
     <4> USE <1>3, <2>2 DEF TypeOK, Shaped, tables, handlerVars, history
     <4>1. ASSUME NEW h \in Handlers, Consume(h) PROVE FALSE
       <5>1. req[h].code # k BY <4>1 DEF Consume, HandlerTyped
       <5>2. codes' = codes \/ codes' = [codes EXCEPT ![req[h].code].used = TRUE]
         BY <4>1 DEF Consume
       <5>3. QED BY <5>1, <5>2
     <4>2. ASSUME NEW h \in Handlers,
                  Authorize(h) \/ Token(h) \/ Lookup(h) \/ IssueToken(h)
                    \/ DatabaseError(h) \/ HangUp(h)
           PROVE  FALSE
       BY <4>2 DEF Authorize, Token, Lookup, IssueToken, DatabaseError, HangUp, Start
     <4>3. ASSUME NEW h \in Handlers, CreateCode(h)
           PROVE  /\ pc[h] = "create" /\ UNCHANGED clients
                  /\ codes'[k].client = req[h].client /\ codes'[k].uri = req[h].uri
       BY <4>3 DEF CreateCode
     <4>4. CASE Register \/ Access \/ Tick \/ Crash \/ UNCHANGED vars
       BY <4>4 DEF Register, Access, Tick, Crash, vars
     <4>5. QED BY <4>1, <4>2, <4>3, <4>4 DEF Next, Handle
   <3>2. QED BY <3>1 DEF Home, MayRedirect
 <2>3. QED BY <2>1, <2>2
<1>4. QED BY <1>2, <1>3 DEF Home

-----------------------------------------------------------------------------
(* Codes are spent once. *)

\* A step after which nobody is newly about to issue, and nothing was granted
\* or refused.
Quiet ==
  /\ UNCHANGED <<tokens, grants, refused>>
  /\ \A h \in Handlers : pc'[h] = "issue" =>
       pc[h] = "issue" /\ req'[h] = req[h] /\ consumed'[h] = consumed[h]

\* Matching a row stays true while the row stays.
LEMMA StillIssuing ==
  ASSUME TypeOK, TypeOK', Permanent, NEW h \in Handlers, pc[h] = "issue", Issuing(h),
         req'[h] = req[h], consumed'[h] = consumed[h], req[h].code \notin refused',
         \A g \in grants' : g.code # req[h].code
  PROVE  Issuing(h)'
<1>1. req[h].code \in Codes BY DEF TypeOK, HandlerTyped, TokenReq
<1>2. QED BY <1>1, RowStays DEF Issuing, Matches

\* So does a grant's record, while its code is not refused.
LEMMA StillGranted ==
  ASSUME TypeOK, TypeOK', Permanent, NEW g \in grants, Granted(g), g.code \notin refused'
  PROVE  Granted(g)'
<1>1. g.code \in Codes /\ g.token \in Tokens BY DEF TypeOK, Shaped
<1>2. tokens'[g.token] = tokens[g.token] BY <1>1 DEF Permanent, Granted
<1>3. QED BY <1>1, <1>2, RowStays DEF Granted, Matches, Audience

\* A quiet step keeps what was spent.
LEMMA QuietKeeps ==
  ASSUME TypeOK, TypeOK', Spent, Permanent, Quiet
  PROVE  Spent'
<1> USE DEF Spent, Quiet
<1>1. ASSUME NEW h \in Handlers, pc'[h] = "issue" PROVE Issuing(h)'
  BY <1>1, StillIssuing DEF Issuing
<1>2. ASSUME NEW g \in grants' PROVE Granted(g)'
  BY <1>2, StillGranted DEF Granted
<1>3. ASSUME NEW k \in refused' PROVE codes'[k] # None /\ codes'[k].used
 <2>1. k \in Codes BY <1>3 DEF TypeOK, Shaped
 <2>2. QED BY <1>3, <2>1, RowStays
<1>4. ASSUME NEW t \in Tokens, tokens'[t] # None PROVE \E g \in grants' : g.token = t
  BY <1>4
<1>5. Alone' BY DEF Alone
<1>6. QED BY <1>1, <1>2, <1>3, <1>4, <1>5

\* The UPDATE only hits an unused row, which no issuer, grant or refusal has.
LEMMA ConsumeKeeps ==
  ASSUME TypeOK, TypeOK', Spent, Permanent, NEW h \in Handlers, Consume(h)
  PROVE  Spent'
<1> DEFINE k == req[h].code
<1>1. k \in Codes /\ codes[k] \in CodeRow /\ codes[k] # None
  BY DEF TypeOK, Shaped, HandlerTyped, TokenReq, Consume
<1>2. UNCHANGED <<tokens, grants>> BY DEF Consume
<1>3. ASSUME NEW q \in Handlers \ {h}
      PROVE  pc'[q] = pc[q] /\ req'[q] = req[q] /\ consumed'[q] = consumed[q]
  BY DEF TypeOK, Shaped, Consume, Continue, Done
<1>4. CASE refused' = refused /\ pc'[h] = "idle"
  BY <1>2, <1>3, <1>4, QuietKeeps DEF Quiet
<1>5. CASE Consumable(req[h]) /\ ~ (refused' = refused /\ pc'[h] = "idle")
 <2>1. /\ \A q \in Handlers : pc[q] = "issue" => req[q].code # k
       /\ \A g \in grants : g.code # k
       /\ k \notin refused
   BY <1>5 DEF Spent, Issuing, Granted, Consumable
 <2>2. codes' = [codes EXCEPT ![k].used = TRUE] BY <1>5 DEF Consume
 <2>3. codes'[k] # None /\ codes'[k].used
   BY <1>1, <2>2, RowStays DEF TypeOK, Shaped, CodeRow
 <2>4. refused' \subseteq refused \cup {k} BY DEF Consume
 <2>5. pc'[h] = "issue" =>
         /\ refused' = refused /\ req'[h] = req[h] /\ consumed'[h] = codes[k]
         /\ Matches(codes[k], req[h])
   BY <1>5 DEF Consume, Consumable, Matches, Continue, Done, TypeOK, Shaped
 <2>6. ASSUME NEW q \in Handlers \ {h}, pc'[q] = "issue" PROVE Issuing(q)'
   BY <1>2, <1>3, <2>1, <2>4, <2>6, StillIssuing DEF Spent, Issuing
 <2>7. ASSUME pc'[h] = "issue" PROVE Issuing(h)'
   BY <1>1, <1>2, <2>1, <2>3, <2>5, <2>7, RowStays DEF Issuing, Matches
 <2>8. ASSUME NEW g \in grants' PROVE Granted(g)'
   BY <1>2, <2>1, <2>4, StillGranted DEF Spent, Granted
 <2>9. ASSUME NEW c \in refused' PROVE codes'[c] # None /\ codes'[c].used
   <3>1. CASE c = k BY <2>3, <3>1
   <3>2. CASE c \in refused BY <3>2, RowStays DEF Spent, TypeOK, Shaped
   <3>3. QED BY <2>4, <3>1, <3>2
 <2>10. Alone'
   <3>1. ASSUME NEW p \in Handlers, NEW q \in Handlers, pc'[p] = "issue",
                pc'[q] = "issue", req'[p].code = req'[q].code
         PROVE  p = q
     BY <1>3, <2>1, <2>5, <3>1 DEF Spent, Alone
   <3>2. QED BY <1>2, <3>1 DEF Spent, Alone
 <2>11. \A t \in Tokens : tokens'[t] # None => \E g \in grants' : g.token = t
   BY <1>2 DEF Spent
 <2>12. QED BY <2>6, <2>7, <2>8, <2>9, <2>10, <2>11 DEF Spent
<1>6. Consumable(req[h]) \/ (refused' = refused /\ pc'[h] = "idle")
  BY DEF Consume, Done, TypeOK, Shaped
<1>7. QED BY <1>4, <1>5, <1>6

\* The token goes to the one handler that has the code.
LEMMA IssueTokenKeeps ==
  ASSUME TypeOK, TypeOK', Spent, Permanent, NEW h \in Handlers, IssueToken(h)
  PROVE  Spent'
<1>1. PICK t \in Tokens :
        /\ tokens[t] = None
        /\ tokens' = [tokens EXCEPT ![t] =
             [client |-> consumed[h].client, audience |-> Audience(consumed[h]),
              expires |-> now + TokenTTL]]
        /\ grants' = grants \cup
             {[code |-> req[h].code, token |-> t, uri |-> req[h].uri,
               verifier |-> req[h].verifier]}
  BY DEF IssueToken
<1>0. PICK new :
        new = [code |-> req[h].code, token |-> t, uri |-> req[h].uri,
               verifier |-> req[h].verifier]
  OBVIOUS
<1>2. UNCHANGED <<codes, refused>> /\ pc[h] = "issue" /\ Issuing(h)
  BY DEF IssueToken, Spent
<1>3. pc'[h] = "idle" /\ \A q \in Handlers \ {h} :
         pc'[q] = pc[q] /\ req'[q] = req[q] /\ consumed'[q] = consumed[q]
  BY DEF IssueToken, Done, TypeOK, Shaped
<1>4. ASSUME NEW q \in Handlers, pc'[q] = "issue" PROVE Issuing(q)'
 <2>1. q # h /\ pc[q] = "issue" BY <1>3, <1>4
 <2>2. req[q].code # req[h].code BY <1>2, <2>1 DEF Spent, Alone
 <2>3. QED BY <1>1, <1>2, <1>3, <2>1, <2>2, StillIssuing DEF Spent, Issuing
<1>5. ASSUME NEW g \in grants PROVE Granted(g)'
  BY <1>2, StillGranted DEF Spent, Granted
<1>6. Granted(new)'
 <2>1. tokens'[t] = [client |-> consumed[h].client, audience |-> Audience(consumed[h]),
                     expires |-> now + TokenTTL]
   BY <1>1 DEF TypeOK, Shaped
 <2>2. tokens'[t] # None
   <3>1. now + TokenTTL \in Nat BY DEF TypeOK, Shaped
   <3>2. consumed[h] \in CodeRow BY <1>2 DEF TypeOK, Shaped, HandlerTyped
   <3>3. Audience(consumed[h]) \in Resources BY <3>2 DEF Audience, CodeRow, Resources
   <3>4. tokens'[t] \in TokenRow BY <2>1, <3>1, <3>2, <3>3 DEF TokenRow, CodeRow
   <3>5. QED BY <3>4
 <2>3. /\ codes'[req[h].code] = codes[req[h].code] /\ req[h].code \notin refused'
       /\ codes[req[h].code] # None /\ codes[req[h].code].used
       /\ Matches(codes[req[h].code], req[h])
       /\ consumed[h].client = codes[req[h].code].client
       /\ Audience(consumed[h]) = Audience(codes[req[h].code])
   BY <1>2 DEF Issuing, Audience
 <2>4. /\ new.code = req[h].code /\ new.token = t
       /\ new.uri = req[h].uri /\ new.verifier = req[h].verifier
   BY <1>0
 <2>5. tokens'[t].client = consumed[h].client
         /\ tokens'[t].audience = Audience(consumed[h])
   BY <2>1
 <2>6. QED BY <1>2, <2>2, <2>3, <2>4, <2>5 DEF Granted, Matches, Audience
<1>7. \A c \in refused' : codes'[c] # None /\ codes'[c].used BY <1>2 DEF Spent
<1>8. ASSUME NEW u \in Tokens, tokens'[u] # None PROVE \E g \in grants' : g.token = u
 <2>1. CASE u = t
   <3>1. new \in grants' /\ new.token = t BY <1>0, <1>1
   <3>2. QED BY <2>1, <3>1
 <2>2. CASE u # t
   <3>1. tokens[u] # None BY <1>1, <1>8, <2>2 DEF TypeOK, Shaped
   <3>2. grants \subseteq grants' BY <1>1
   <3>3. QED BY <3>1, <3>2 DEF Spent
 <2>3. QED BY <2>1, <2>2
<1>9. Alone'
 <2>1. ASSUME NEW f \in grants', NEW g \in grants', f.code = g.code PROVE f = g
   BY <1>1, <1>2, <2>1 DEF Spent, Alone, Issuing
 <2>2. ASSUME NEW p \in Handlers, NEW q \in Handlers, pc'[p] = "issue",
              pc'[q] = "issue", req'[p].code = req'[q].code
       PROVE  p = q
   BY <1>3, <2>2 DEF Spent, Alone
 <2>3. QED BY <2>1, <2>2 DEF Alone
<1>10. \A g \in grants' : Granted(g)'
 <2>1. grants' = grants \cup {new} BY <1>0, <1>1
 <2>2. QED BY <1>5, <1>6, <2>1
<1>11. QED BY <1>4, <1>7, <1>8, <1>9, <1>10 DEF Spent

\* Every other step is quiet.
LEMMA SpentStays ==
  TypeOK /\ TypeOK' /\ Spent /\ Permanent /\ [Next]_vars => Spent'
<1> SUFFICES ASSUME TypeOK, TypeOK', Spent, Permanent, [Next]_vars PROVE Spent' OBVIOUS
<1> USE DEF Quiet, TypeOK, Shaped, tables, handlerVars, history
<1>1. ASSUME NEW h \in Handlers,
             Authorize(h) \/ Token(h) \/ DatabaseError(h) \/ HangUp(h)
      PROVE  Quiet
  BY <1>1 DEF Authorize, Token, DatabaseError, HangUp, Start, Done
<1>2. ASSUME NEW h \in Handlers, Lookup(h) \/ CreateCode(h) PROVE Quiet
  BY <1>2 DEF Lookup, CreateCode, Continue, Done
<1>3. CASE Register \/ Access \/ Tick \/ Crash \/ UNCHANGED vars
 <2>1. Quiet BY <1>3 DEF Register, Access, Tick, Crash, vars
 <2>2. QED BY <2>1, QuietKeeps
<1>4. QED BY <1>1, <1>2, <1>3, QuietKeeps, ConsumeKeeps, IssueTokenKeeps DEF Next, Handle

-----------------------------------------------------------------------------
(* The bearer check. *)

\* The history of grants only grows, and only Access accepts a token.
LEMMA HistoryGrows ==
  [Next]_vars => grants \subseteq grants' /\ (Access \/ accepted' = accepted)
<1> SUFFICES ASSUME [Next]_vars
             PROVE  grants \subseteq grants' /\ (Access \/ accepted' = accepted)
  OBVIOUS
<1> USE DEF history
<1>1. ASSUME NEW h \in Handlers,
             Authorize(h) \/ Token(h) \/ Lookup(h) \/ DatabaseError(h) \/ HangUp(h)
      PROVE  UNCHANGED <<grants, accepted>>
  BY <1>1 DEF Authorize, Token, Lookup, DatabaseError, HangUp, Start
<1>2. ASSUME NEW h \in Handlers, CreateCode(h) \/ Consume(h) \/ IssueToken(h)
      PROVE  grants \subseteq grants' /\ accepted' = accepted
  BY <1>2 DEF CreateCode, Consume, IssueToken
<1>3. CASE Register \/ Access \/ Tick \/ Crash \/ UNCHANGED vars
  BY <1>3 DEF Register, Access, Tick, Crash, vars
<1>4. QED BY <1>1, <1>2, <1>3 DEF Next, Handle

\* A token that passes was granted for a code whose resource gave it this
\* server's audience, and neither row changes afterwards.
LEMMA AcceptedStays ==
  TypeOK /\ TypeOK' /\ Spent /\ Permanent /\ AcceptedTokensAreOurs /\ [Next]_vars
    => AcceptedTokensAreOurs'
<1> SUFFICES ASSUME TypeOK, TypeOK', Spent, Permanent, AcceptedTokensAreOurs,
                    [Next]_vars, NEW a \in accepted'
             PROVE  \E g \in grants' :
                      /\ g.token = a[1] /\ codes'[g.code].resource # Other
                      /\ a[2] < tokens'[a[1]].expires
  BY DEF AcceptedTokensAreOurs
<1>1. ASSUME NEW g \in grants, g.token = a[1], codes[g.code].resource # Other,
             a[2] < tokens[a[1]].expires
      PROVE  /\ g \in grants' /\ codes'[g.code].resource # Other
             /\ a[2] < tokens'[a[1]].expires
 <2>1. g.code \in Codes /\ g.token \in Tokens BY DEF TypeOK, Shaped
 <2>2. codes[g.code] # None /\ tokens[g.token] # None BY DEF Spent, Granted
 <2>3. tokens'[g.token] = tokens[g.token] BY <2>1, <2>2 DEF Permanent
 <2>4. codes'[g.code].resource = codes[g.code].resource BY <2>1, <2>2, RowStays
 <2>5. g \in grants' BY HistoryGrows
 <2>6. QED BY <1>1, <2>3, <2>4, <2>5
<1>2. CASE a \in accepted BY <1>1, <1>2 DEF AcceptedTokensAreOurs
<1>3. CASE a \notin accepted
 <2>1. PICK t \in Tokens : Accepts(t) /\ a = <<t, now>> BY <1>3, HistoryGrows DEF Access
 <2>2. PICK g \in grants : g.token = t BY <2>1 DEF Spent, Accepts
 <2>3. Audience(codes[g.code]) = Own BY <2>1, <2>2 DEF Spent, Granted, Accepts
 <2>4. codes[g.code].resource # Other BY <2>3 DEF Audience
 <2>5. now < tokens[t].expires
  <3>1. tokens[t] \in TokenRow BY <2>1 DEF Accepts, TypeOK, Shaped
  <3>2. tokens[t].expires \in Nat /\ now \in Nat BY <3>1 DEF TokenRow, TypeOK, Shaped
  <3>3. QED BY <2>1, <3>2 DEF Accepts
 <2>6. a[1] = t /\ a[2] = now BY <2>1
 <2>7. QED BY <1>1, <2>2, <2>4, <2>5, <2>6
<1>4. QED BY <1>2, <1>3

-----------------------------------------------------------------------------
(* The invariant holds, and with it the properties. *)

\* The invariant holds of an empty database.
LEMMA Initially == Init => IInv
<1> SUFFICES ASSUME Init PROVE IInv OBVIOUS
<1>1. TypeOK BY TypedInit
<1>2. Home BY DEF Init, Home
<1>3. Spent BY DEF Init, Spent, Alone
<1>4. AcceptedTokensAreOurs BY DEF Init, AcceptedTokensAreOurs
<1>5. QED BY <1>1, <1>2, <1>3, <1>4 DEF IInv

\* Every step keeps the invariant and the rows.
LEMMA Inductive == IInv /\ [Next]_vars => IInv' /\ Permanent
<1> SUFFICES ASSUME IInv, [Next]_vars PROVE IInv' /\ Permanent OBVIOUS
<1>1. TypeOK' /\ Permanent BY Typing, Permanence DEF IInv
<1>2. Home' BY <1>1, HomeStays DEF IInv
<1>3. Spent' BY <1>1, SpentStays DEF IInv
<1>4. AcceptedTokensAreOurs' BY <1>1, AcceptedStays DEF IInv
<1>5. QED BY <1>1, <1>2, <1>3, <1>4 DEF IInv

\* A code's grants are one at most, so its tokens are.
LEMMA OneGrant == Spent => OneTokenPerCode
<1> SUFFICES ASSUME Spent, NEW k \in Codes PROVE Cardinality(TokensFrom(k)) <= 1
  BY DEF OneTokenPerCode
<1>1. CASE \A g \in grants : g.code # k
 <2>1. TokensFrom(k) = {} BY <1>1 DEF TokensFrom
 <2>2. QED BY <2>1, FS_EmptySet
<1>2. ASSUME NEW g \in grants, g.code = k PROVE Cardinality(TokensFrom(k)) <= 1
 <2>1. TokensFrom(k) = {g.token} BY <1>2 DEF TokensFrom, Spent, Alone
 <2>2. Cardinality({g.token}) = 1 BY FS_Singleton, Zenon
 <2>3. Cardinality(TokensFrom(k)) = 1 BY <2>1, <2>2
 <2>4. QED BY <2>3
<1>3. QED BY <1>1, <1>2

\* What the invariant says of the properties.
LEMMA Properties ==
  IInv => /\ TypeOK /\ OneTokenPerCode /\ WrongVerifierBurnsCode
          /\ TokensAreBound /\ AcceptedTokensAreOurs
<1> SUFFICES ASSUME IInv
             PROVE  /\ OneTokenPerCode /\ WrongVerifierBurnsCode
                    /\ TokensAreBound
  BY DEF IInv
<1> USE DEF IInv
<1>1. OneTokenPerCode BY OneGrant
<1>2. WrongVerifierBurnsCode BY DEF WrongVerifierBurnsCode, TokensFrom, Spent, Granted
<1>3. ASSUME NEW g \in grants PROVE codes[g.code].uri \in clients[codes[g.code].client]
 <2>1. g.code \in Codes BY DEF TypeOK, Shaped
 <2>2. QED BY <2>1 DEF Home, Spent, Granted
<1>4. TokensAreBound BY <1>3 DEF TokensAreBound, Spent, Granted, Matches, Audience
<1>5. QED BY <1>1, <1>2, <1>4

\* The invariant holds in every state.
LEMMA Invariance == Spec => []IInv
<1>1. Init => IInv BY Initially
<1>2. IInv /\ [Next]_vars => IInv' BY Inductive
<1>3. QED BY <1>1, <1>2, PTL DEF Spec

\* The tables, handlers and histories keep their types, and a handler's request
\* is of the kind its next database call needs.
THEOREM TypeCorrectness == Spec => []TypeOK
<1>1. IInv => TypeOK BY Properties
<1>2. QED BY <1>1, Invariance, PTL

\* However many requests present a code at once, and wherever the process dies
\* between marking it used and storing the token, it buys one token at most.
THEOREM SingleUse == Spec => []OneTokenPerCode
<1>1. IInv => OneTokenPerCode BY Properties
<1>2. QED BY <1>1, Invariance, PTL

\* A wrong verifier burns the code for every later request, as the UPDATE comes
\* before the PKCE check (oauth.rs).
THEOREM Burnt == Spec => []WrongVerifierBurnsCode
<1>1. IInv => WrongVerifierBurnsCode BY Properties
<1>2. QED BY <1>1, Invariance, PTL

\* Every token agrees with its code's client, redirect URI, challenge and
\* resource, and the URI is a registered one: what the lookup saw cannot change
\* before the code is stored.
THEOREM Binding == Spec => []TokensAreBound
<1>1. IInv => TokensAreBound BY Properties
<1>2. QED BY <1>1, Invariance, PTL

\* The bearer check passes only tokens granted for this server, in their time.
THEOREM Ours == Spec => []AcceptedTokensAreOurs
<1>1. IInv => AcceptedTokensAreOurs BY Properties
<1>2. QED BY <1>1, Invariance, PTL
=============================================================================
