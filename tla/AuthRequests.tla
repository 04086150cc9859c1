----------------------------- MODULE AuthRequests -----------------------------
(***************************************************************************)
(* The auth router of the API: nonce, login and logout, each behind the    *)
(* rate limiter and the validation of its body, await by await.  Redis     *)
(* holds the nonces.  What createOrGetUser and createSession do inside is  *)
(* in AccountSetup and Sessions; here each of them is one step.            *)
(***************************************************************************)
EXTENDS RateLimiter

CONSTANTS
  Requests,
  Wallets,
  Nonces,      \* what randomBytes can return
  NonceLife    \* EX of the key

ASSUME AuthAssumption == NonceLife \in Nat \ {0}

VARIABLES
  pc,        \* where the handler of each request is
  input,     \* what each request asks for
  outcome,   \* its answer
  nonces,    \* when the key of a wallet and a nonce expires; 0: there is none
  sessions,  \* logins whose session is valid
  \* for checking
  issued,    \* <<wallet, nonce>> pairs given out
  before     \* requests that had been answered when this one came

requestVars == <<pc, input, outcome, nonces, sessions, issued, before>>

vars == <<limiterVars, requestVars>>

NoInput == [kind |-> "none"]

NonceInputs == [kind : {"nonce"}, wallet : Wallets]

\* signed: whether verifySignature accepts the signature for this wallet.
LoginInputs ==
  [kind : {"login"}, wallet : Wallets, nonce : Nonces, signed : BOOLEAN]

\* header: the login whose token the Authorization header has.  The body is
\* parsed JSON with that token or without one, or there is none.
LogoutInputs ==
  [kind : {"logout"}, header : Requests, body : {"token", "no token", "none"}]

Inputs == NonceInputs \cup LoginInputs \cup LogoutInputs

Steps == {"new", "make nonce", "ask", "delete", "verify", "session",
          "authenticate", "revoke", "done"}

\* "error": status 500, nothing having failed; "failure": 500 because Redis or
\* Postgres did.
Outcomes == {"none", "200", "400", "401", "429", "error", "failure"}

RequestTypeOK ==
  /\ pc \in [Requests -> Steps]
  /\ input \in [Requests -> Inputs \cup {NoInput}]
  /\ outcome \in [Requests -> Outcomes]
  /\ nonces \in [Wallets \X Nonces -> 0..(LastTime + NonceLife)]
  /\ sessions \subseteq Requests
  /\ issued \subseteq Wallets \X Nonces
  /\ before \in [Requests -> SUBSET Requests]

TypeOK == LimiterTypeOK /\ RequestTypeOK

Init ==
  /\ LimiterInit
  /\ pc = [r \in Requests |-> "new"]
  /\ input = [r \in Requests |-> NoInput]
  /\ outcome = [r \in Requests |-> "none"]
  /\ nonces = [key \in Wallets \X Nonces |-> 0]
  /\ sessions = {}
  /\ issued = {}
  /\ before = [r \in Requests |-> {}]

-----------------------------------------------------------------------------
Goto(r, from, to) ==
  /\ pc[r] = from
  /\ pc' = [pc EXCEPT ![r] = to]

Answer(r, from, status) ==
  /\ Goto(r, from, "done")
  /\ outcome' = [outcome EXCEPT ![r] = status]

\* Requests with an answer.
Done == {r \in Requests : pc[r] = "done"}

Key(r) == <<input[r].wallet, input[r].nonce>>

FirstStep(i) ==
  IF i.kind = "nonce" THEN "make nonce"
  ELSE IF i.kind = "login" THEN "ask" ELSE "authenticate"

Arrives(r, i) ==
  /\ pc[r] = "new"
  /\ input' = [input EXCEPT ![r] = i]
  /\ before' = [before EXCEPT ![r] = Done]

\* The limiter lets it in, or its Redis fails.
Admitted(r, c, i) ==
  /\ Arrives(r, i)
  /\ Judge(c, "admitted") \/ FailOpen(c)
  /\ Goto(r, "new", FirstStep(i))
  /\ UNCHANGED <<outcome, nonces, sessions, issued>>

\* 429
Refused(r, c, i) ==
  /\ Arrives(r, i)
  /\ Judge(c, "refused")
  /\ Answer(r, "new", "429")
  /\ UNCHANGED <<nonces, sessions, issued>>

\* validateBody: the body has not the form of the schema.
BadBody(r) ==
  /\ pc[r] \in {"make nonce", "ask"}
  /\ Answer(r, pc[r], "400")
  /\ UNCHANGED <<limiterVars, input, nonces, sessions, issued, before>>

\* Given out, to somebody.
Known(n) == \E w \in Wallets : <<w, n>> \in issued

\* generateNonce: SET with EX.  What randomBytes returns has not been given out.
MakeNonce(r, n) ==
  /\ Answer(r, "make nonce", "200")
  /\ ~Known(n)
  /\ nonces' = [nonces EXCEPT ![<<input[r].wallet, n>>] = now + NonceLife]
  /\ issued' = issued \cup {<<input[r].wallet, n>>}
  /\ UNCHANGED <<limiterVars, input, sessions, before>>

\* Whether the key is there.
Exists(key) == nonces[key] > now

\* validateAndConsumeNonce: EXISTS.
AskNonce(r) ==
  /\ pc[r] = "ask"
  /\ IF Exists(Key(r))
     THEN Goto(r, "ask", "delete") /\ UNCHANGED outcome
     ELSE Answer(r, "ask", "401")
  /\ UNCHANGED <<limiterVars, input, nonces, sessions, issued, before>>

\* Variant: the nonce is deleted only for a good signature.
DeleteIfSigned(r) ==
  /\ Goto(r, "delete", "verify")
  /\ nonces' = [nonces EXCEPT ![Key(r)] = IF input[r].signed THEN 0 ELSE @]
  /\ UNCHANGED <<limiterVars, input, outcome, sessions, issued, before>>

\* ... DEL, whoever has deleted it meanwhile.
DeleteNonce(r) ==
  /\ Goto(r, "delete", "verify")
  /\ nonces' = [nonces EXCEPT ![Key(r)] = 0]
  /\ UNCHANGED <<limiterVars, input, outcome, sessions, issued, before>>

\* verifySignature
Verify(r) ==
  /\ pc[r] = "verify"
  /\ IF input[r].signed
     THEN Goto(r, "verify", "session") /\ UNCHANGED outcome
     ELSE Answer(r, "verify", "401")
  /\ UNCHANGED <<limiterVars, input, nonces, sessions, issued, before>>

\* createOrGetUser, createSession and the answer.
OpenSession(r) ==
  /\ Answer(r, "session", "200")
  /\ sessions' = sessions \cup {r}
  /\ UNCHANGED <<limiterVars, input, nonces, issued, before>>

\* authMiddleware.  validateSession answers that a token is not valid when
\* Redis or Postgres fails.
Authenticate(r) ==
  /\ \/ /\ Goto(r, "authenticate", "revoke")
        /\ input[r].header \in sessions
        /\ UNCHANGED outcome
     \/ Answer(r, "authenticate", "401")
  /\ UNCHANGED <<limiterVars, input, nonces, sessions, issued, before>>

\* logout of the controller looks for the token in the body, and nowhere else.
\* Without a body the destructuring throws; without a token revokeSession is
\* called all the same, for no session, and the answer stays the first one.
RevokeSession(r) ==
  /\ \/ /\ Answer(r, "revoke", "200")
        /\ input[r].body = "token"
        /\ sessions' = sessions \ {input[r].header}
     \/ /\ Answer(r, "revoke", "400")
        /\ input[r].body = "no token"
        /\ UNCHANGED sessions
     \/ /\ Answer(r, "revoke", "error")
        /\ input[r].body = "none"
        /\ UNCHANGED sessions
  /\ UNCHANGED <<limiterVars, input, nonces, issued, before>>

\* A call to Redis or Postgres fails.  It may have taken effect.  (A nonce or a
\* session nobody was told of is as good as none.)
StoreFails(r) ==
  /\ pc[r] \in {"make nonce", "ask", "delete", "session", "revoke"}
  /\ pc[r] = "revoke" => input[r].body = "token"
  /\ Answer(r, pc[r], "failure")
  /\ \/ UNCHANGED <<nonces, sessions>>
     \/ /\ pc[r] = "delete"
        /\ nonces' = [nonces EXCEPT ![Key(r)] = 0]
        /\ UNCHANGED sessions
     \/ /\ pc[r] = "revoke"
        /\ sessions' = sessions \ {input[r].header}
        /\ UNCHANGED nonces
  /\ UNCHANGED <<limiterVars, input, issued, before>>

Step(r) ==
  \/ BadBody(r)
  \/ \E n \in Nonces : MakeNonce(r, n)
  \/ AskNonce(r)
  \/ DeleteNonce(r)
  \/ Verify(r)
  \/ OpenSession(r)
  \/ Authenticate(r)
  \/ RevokeSession(r)
  \/ StoreFails(r)

\* The web client takes tokens and nonces from answers it has had.
Sensible(i) ==
  /\ i.kind = "login" => Known(i.nonce)
  /\ i.kind = "logout" =>
       input[i.header].kind = "login" /\ outcome[i.header] = "200"

Next ==
  \/ Tick /\ UNCHANGED requestVars
  \/ \E r \in Requests : Step(r)
  \/ \E r \in Requests, c \in Clients, i \in Inputs :
       Sensible(i) /\ (Admitted(r, c, i) \/ Refused(r, c, i))

Spec == Init /\ [][Next]_vars

-----------------------------------------------------------------------------
\* Every variable has its type, and nobody is refused who has not made more than
\* maxRequests requests within the window before, refused ones included.
RefusedForCause ==
  /\ TypeOK
  /\ \A i \in 1..Len(asked) :
       asked[i].verdict = "refused" =>
         Cardinality(Recent(asked[i].client, i - 1, asked[i].at)) > MaxRequests

\* The logins that got a session.
LoggedIn == {r \in Requests : input[r].kind = "login" /\ outcome[r] = "200"}

\* A session is opened for a wallet that was given the nonce and signed it, and a
\* nonce is good for nothing once a login with it has been answered, be it with a
\* session or with 401.  (Two logins with one nonce under way at once may both
\* succeed: EXISTS and DEL are two calls.)
SessionFromOwnNonce ==
  \A r \in LoggedIn :
    /\ Key(r) \in issued /\ input[r].signed
    /\ \A q \in before[r] :
         (input[q].kind = "login" /\ outcome[q] \in {"200", "401"}) => Key(q) # Key(r)

\* README.md:224: "POST /auth/logout - Invalidate session".  A logout with a
\* valid session, during which nothing failed, has ended it.
LogoutEndsSession ==
  \A r \in Requests :
    input[r].kind = "logout" /\ outcome[r] \in {"200", "400", "error"}
      => input[r].header \notin sessions
=============================================================================
