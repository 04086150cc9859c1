------------------------------ MODULE AuthProofs ------------------------------
(***************************************************************************)
(* The theorems about logging in.  Of AuthRequests: about nonces, for any  *)
(* number of requests, wallets and nonces and whatever the limiter does;   *)
(* and about the limiter, for every window and every limit.  Of Sessions:  *)
(* for every lifetime and any number of validations and logouts at once.   *)
(***************************************************************************)
EXTENDS AuthRequests, Sessions, TLAPS, FiniteSetTheorems, SequenceTheorems

\* Where a handler is tells what its request asks for.
Fits(r) ==
  /\ pc[r] = "new" => input[r].kind = "none"
  /\ pc[r] = "make nonce" => input[r].kind = "nonce"
  /\ pc[r] \in {"ask", "delete", "verify", "session"} => input[r].kind = "login"
  /\ pc[r] \in {"authenticate", "revoke"} => input[r].kind = "logout"
  /\ pc[r] # "done" => outcome[r] = "none"

KindsFit == \A r \in Requests : Fits(r)

\* A key in Redis was given out; a login uses a nonce that was, to whomever; and
\* what had been answered stays answered.
GivenOut ==
  /\ \A key \in Wallets \X Nonces : nonces[key] > 0 => key \in issued
  /\ \A r \in Requests :
       /\ input[r].kind = "login" => Known(input[r].nonce)
       /\ \A q \in before[r] : pc[q] = "done"

\* The login q has been answered for its nonce's sake.
Used(q) == input[q].kind = "login" /\ outcome[q] \in {"200", "401"}

\* The key of the login r is not one that an answered login had before r came.
Fresh(r) == \A q \in before[r] : Used(q) => Key(q) # Key(r)

\* What a login has reached is behind it for good: the nonce was its wallet's
\* and unused, its key is gone and never comes back, the signature was good.
Advances(r) ==
  /\ pc[r] \in {"verify", "session"} \/ outcome[r] \in {"200", "401"} => ~Exists(Key(r))
  /\ pc[r] \in {"delete", "verify", "session"} \/ outcome[r] = "200"
       => Key(r) \in issued /\ Fresh(r)
  /\ pc[r] = "session" \/ outcome[r] = "200" => input[r].signed

LoginsAdvance == \A r \in Requests : input[r].kind = "login" => Advances(r)

IInv ==
  /\ RequestTypeOK
  /\ now \in Times
  /\ KindsFit
  /\ GivenOut
  /\ LoginsAdvance

-----------------------------------------------------------------------------
\* The kinds of requests are told apart by their field kind.
LEMMA Kinds ==
  /\ \A i \in NonceInputs : i.kind = "nonce" /\ i.wallet \in Wallets
  /\ \A i \in LoginInputs : i.kind = "login" /\ i.wallet \in Wallets
                            /\ i.nonce \in Nonces /\ i.signed \in BOOLEAN
  /\ \A i \in LogoutInputs : i.kind = "logout"
  /\ NoInput.kind = "none"
BY DEF NonceInputs, LoginInputs, LogoutInputs, NoInput

\* The first step belongs to the kind of the request.
LEMMA FirstStepFits ==
  ASSUME NEW i \in Inputs
  PROVE  \/ i.kind = "nonce" /\ FirstStep(i) = "make nonce"
         \/ i.kind = "login" /\ FirstStep(i) = "ask"
         \/ i.kind = "logout" /\ FirstStep(i) = "authenticate"
BY Kinds DEF Inputs, FirstStep

\* A request that says it is a login is one, and so is a request for a nonce.
LEMMA InputFits ==
  ASSUME RequestTypeOK, NEW r \in Requests
  PROVE  /\ input[r].kind = "nonce" => input[r].wallet \in Wallets
         /\ input[r].kind = "login" =>
              /\ input[r].wallet \in Wallets /\ input[r].nonce \in Nonces
              /\ Key(r) \in Wallets \X Nonces
<1>1. \/ input[r] \in NonceInputs \/ input[r] \in LoginInputs
      \/ input[r] \in LogoutInputs \/ input[r] = NoInput
  BY DEF RequestTypeOK, Inputs
<1>2. /\ input[r].kind = "nonce" => input[r].wallet \in Wallets
      /\ input[r].kind = "login" =>
           input[r].wallet \in Wallets /\ input[r].nonce \in Nonces
  BY <1>1, Kinds
<1> QED
  BY <1>2 DEF Key

-----------------------------------------------------------------------------
\* What a request does on arrival, let in or not.
LEMMA Arrival ==
  ASSUME NEW r \in Requests, NEW c \in Clients, NEW i \in Inputs,
         Admitted(r, c, i) \/ Refused(r, c, i)
  PROVE  /\ pc[r] = "new"
         /\ input' = [input EXCEPT ![r] = i]
         /\ before' = [before EXCEPT ![r] = Done]
         /\ UNCHANGED <<now, nonces, sessions, issued>>
         /\ \/ pc' = [pc EXCEPT ![r] = FirstStep(i)] /\ UNCHANGED outcome
            \/ /\ pc' = [pc EXCEPT ![r] = "done"]
               /\ outcome' = [outcome EXCEPT ![r] = "429"]
BY DEF Admitted, Refused, Arrives, Judge, FailOpen, Goto, Answer

\* What a step leaves alone.
LEMMA StepFrame ==
  ASSUME NEW r \in Requests, Step(r)
  PROVE  UNCHANGED <<now, input, before>>
BY DEF Step, BadBody, MakeNonce, AskNonce, DeleteNonce, Verify, OpenSession,
       Authenticate, RevokeSession, StoreFails, limiterVars

\* A step that answers: a login answered 200 comes from its session, one
\* answered 401 had no nonce or a bad signature.
Ends(r, status) ==
  /\ Answer(r, pc[r], status) /\ pc[r] # "done"
  /\ (input[r].kind = "login" /\ status = "200") => pc[r] = "session"
  /\ (input[r].kind = "login" /\ status = "401") =>
       pc[r] = "verify" \/ (~Exists(Key(r)) /\ UNCHANGED nonces)

\* A step that goes on.
Moves(r) ==
  /\ UNCHANGED outcome
  /\ \/ Goto(r, "ask", "delete") /\ Exists(Key(r)) /\ UNCHANGED nonces
     \/ Goto(r, "delete", "verify") /\ nonces' = [nonces EXCEPT ![Key(r)] = 0]
     \/ Goto(r, "verify", "session") /\ input[r].signed /\ UNCHANGED nonces
     \/ Goto(r, "authenticate", "revoke") /\ UNCHANGED nonces

\* Every step does the one or the other.
LEMMA StepControl ==
  ASSUME NEW r \in Requests, Step(r), KindsFit
  PROVE  (\E status \in Outcomes \ {"none"} : Ends(r, status)) \/ Moves(r)
<1> USE DEF Ends, Moves, Goto, Answer
<1>1. CASE BadBody(r)
  <2> Ends(r, "400")
    BY <1>1 DEF BadBody
  <2> QED
    BY DEF Outcomes
<1>2. ASSUME NEW n \in Nonces, MakeNonce(r, n)
      PROVE  Ends(r, "200")
  BY <1>2 DEF MakeNonce, KindsFit, Fits
<1>3. CASE AskNonce(r)
  <2> Ends(r, "401") \/ Moves(r)
    BY <1>3 DEF AskNonce
  <2> QED
    BY DEF Outcomes
<1>4. CASE DeleteNonce(r)
  BY <1>4 DEF DeleteNonce
<1>5. CASE Verify(r)
  <2> Ends(r, "401") \/ Moves(r)
    BY <1>5 DEF Verify
  <2> QED
    BY DEF Outcomes
<1>6. CASE OpenSession(r)
  <2> Ends(r, "200")
    BY <1>6 DEF OpenSession
  <2> QED
    BY DEF Outcomes
<1>7. CASE Authenticate(r)
  <2> Ends(r, "401") \/ Moves(r)
    BY <1>7 DEF Authenticate, KindsFit, Fits
  <2> QED
    BY DEF Outcomes
<1>8. CASE RevokeSession(r)
  <2> Ends(r, "200") \/ Ends(r, "400") \/ Ends(r, "error")
    BY <1>8 DEF RevokeSession, KindsFit, Fits
  <2> QED
    BY DEF Outcomes
<1>9. CASE StoreFails(r)
  <2> Ends(r, "failure")
    BY <1>9 DEF StoreFails
  <2> QED
    BY DEF Outcomes
<1> QED
  BY <1>1, <1>2, <1>3, <1>4, <1>5, <1>6, <1>7, <1>8, <1>9 DEF Step, Outcomes

\* What a step does to the data.
LEMMA StepData ==
  ASSUME NEW r \in Requests, Step(r), RequestTypeOK, KindsFit
  PROVE  /\ \/ UNCHANGED <<nonces, issued>>
            \/ \E n \in Nonces :
                 LET key == <<input[r].wallet, n>>
                 IN  /\ ~Known(n) /\ key \in Wallets \X Nonces
                     /\ nonces' = [nonces EXCEPT ![key] = now + NonceLife]
                     /\ issued' = issued \cup {key}
            \/ /\ pc[r] = "delete" /\ UNCHANGED issued
               /\ nonces' = [nonces EXCEPT ![Key(r)] = 0]
         /\ sessions' \in SUBSET (sessions \cup {r})
<1>1. CASE BadBody(r) \/ AskNonce(r) \/ Verify(r) \/ Authenticate(r)
  BY <1>1 DEF BadBody, AskNonce, Verify, Authenticate
<1>2. ASSUME NEW n \in Nonces, MakeNonce(r, n)
      PROVE  /\ ~Known(n) /\ <<input[r].wallet, n>> \in Wallets \X Nonces
             /\ nonces' = [nonces EXCEPT ![<<input[r].wallet, n>>] = now + NonceLife]
             /\ issued' = issued \cup {<<input[r].wallet, n>>}
             /\ UNCHANGED sessions
  BY <1>2, InputFits DEF MakeNonce, Answer, Goto, KindsFit, Fits
<1>3. CASE DeleteNonce(r)
  BY <1>3 DEF DeleteNonce, Goto
<1>4. CASE OpenSession(r) \/ RevokeSession(r)
  BY <1>4 DEF OpenSession, RevokeSession
<1>5. CASE StoreFails(r)
  BY <1>5 DEF StoreFails, Answer, Goto
<1> QED
  BY <1>1, <1>2, <1>3, <1>4, <1>5 DEF Step

-----------------------------------------------------------------------------
\* Initially nothing has been asked for.
LEMMA InitIInv == Init => IInv
<1> SUFFICES ASSUME Init PROVE IInv
  OBVIOUS
<1> USE LimiterAssumption, AuthAssumption DEF Init, LimiterInit
<1>1. RequestTypeOK
  BY DEF RequestTypeOK, Steps, Outcomes
<1>2. now \in Times
  BY DEF Times
<1>3. \A r \in Requests : input[r].kind = "none"
  BY DEF NoInput
<1>4. KindsFit /\ GivenOut /\ LoginsAdvance
  BY <1>3 DEF KindsFit, Fits, GivenOut, LoginsAdvance
<1> QED
  BY <1>1, <1>2, <1>4 DEF IInv

\* Every variable of the requests keeps its type.
LEMMA TypeStep == IInv /\ [Next]_vars => RequestTypeOK' /\ now' \in Times
<1> SUFFICES ASSUME IInv, [Next]_vars PROVE RequestTypeOK' /\ now' \in Times
  OBVIOUS
<1> USE LimiterAssumption, AuthAssumption DEF IInv
<1>1. CASE Tick /\ UNCHANGED requestVars
  BY <1>1 DEF Tick, requestVars, RequestTypeOK, Times
<1>2. ASSUME NEW r \in Requests, Step(r) PROVE RequestTypeOK' /\ now' \in Times
  <2>1. UNCHANGED <<now, input, before>>
    BY <1>2, StepFrame
  <2>2. pc' \in [Requests -> Steps] /\ outcome' \in [Requests -> Outcomes]
    <3>1. ASSUME NEW status \in Outcomes, Ends(r, status)
          PROVE  pc' \in [Requests -> Steps] /\ outcome' \in [Requests -> Outcomes]
      BY <3>1 DEF RequestTypeOK, Ends, Answer, Goto, Steps
    <3>2. CASE Moves(r)
      BY <3>2 DEF RequestTypeOK, Moves, Goto, Steps
    <3> QED
      BY <1>2, <3>1, <3>2, StepControl
  <2>3. now + NonceLife \in 0..(LastTime + NonceLife) /\ 0 \in 0..(LastTime + NonceLife)
    BY DEF Times
  <2>4. /\ nonces' \in [Wallets \X Nonces -> 0..(LastTime + NonceLife)]
        /\ issued' \subseteq Wallets \X Nonces
    <3>1. CASE UNCHANGED <<nonces, issued>>
      BY <3>1 DEF RequestTypeOK
    <3>2. ASSUME NEW n \in Nonces,
                 <<input[r].wallet, n>> \in Wallets \X Nonces,
                 nonces' = [nonces EXCEPT ![<<input[r].wallet, n>>] = now + NonceLife],
                 issued' = issued \cup {<<input[r].wallet, n>>}
          PROVE  /\ nonces' \in [Wallets \X Nonces -> 0..(LastTime + NonceLife)]
                 /\ issued' \subseteq Wallets \X Nonces
      BY <3>2, <2>3 DEF RequestTypeOK
    <3>3. CASE /\ UNCHANGED issued
               /\ nonces' = [nonces EXCEPT ![Key(r)] = 0]
      BY <3>3, <2>3 DEF RequestTypeOK
    <3> QED
      BY <1>2, <3>1, <3>2, <3>3, StepData
  <2>5. sessions' \subseteq Requests
    BY <1>2, StepData DEF RequestTypeOK
  <2> QED
    BY <2>1, <2>2, <2>4, <2>5 DEF RequestTypeOK
<1>3. ASSUME NEW r \in Requests, NEW c \in Clients, NEW i \in Inputs,
             Admitted(r, c, i) \/ Refused(r, c, i)
      PROVE  RequestTypeOK' /\ now' \in Times
  <2>1. FirstStep(i) \in Steps
    BY FirstStepFits DEF Steps
  <2>2. Done \in SUBSET Requests
    BY DEF Done
  <2>3. pc' \in [Requests -> Steps] /\ outcome' \in [Requests -> Outcomes]
    <3>1. pc' = [pc EXCEPT ![r] = FirstStep(i)] \/ pc' = [pc EXCEPT ![r] = "done"]
      BY <1>3, Arrival
    <3>2. UNCHANGED outcome \/ outcome' = [outcome EXCEPT ![r] = "429"]
      BY <1>3, Arrival
    <3>3. "done" \in Steps /\ "429" \in Outcomes
      BY DEF Steps, Outcomes
    <3> QED
      BY <2>1, <3>1, <3>2, <3>3 DEF RequestTypeOK
  <2>4. input' \in [Requests -> Inputs \cup {NoInput}]
    BY <1>3, Arrival DEF RequestTypeOK
  <2>5. before' \in [Requests -> SUBSET Requests]
    BY <1>3, <2>2, Arrival DEF RequestTypeOK
  <2> QED
    BY <1>3, <2>3, <2>4, <2>5, Arrival DEF RequestTypeOK
<1>4. CASE UNCHANGED vars
  BY <1>4 DEF vars, requestVars, limiterVars, RequestTypeOK
<1> QED
  BY <1>1, <1>2, <1>3, <1>4 DEF Next

\* A request is of the kind its handler is for.
LEMMA KindsStep == IInv /\ [Next]_vars => KindsFit'
<1> SUFFICES ASSUME IInv, [Next]_vars PROVE KindsFit'
  OBVIOUS
<1> USE DEF IInv
<1>1. CASE UNCHANGED requestVars
  BY <1>1 DEF requestVars, KindsFit, Fits
<1>2. ASSUME NEW r \in Requests, Step(r) PROVE KindsFit'
  <2>1. UNCHANGED input
    BY <1>2, StepFrame
  <2>2. ASSUME NEW q \in Requests, q # r PROVE Fits(q)'
    <3>1. pc'[q] = pc[q] /\ outcome'[q] = outcome[q]
      BY <1>2, <2>2, StepControl DEF RequestTypeOK, Ends, Moves, Answer, Goto
    <3> QED
      BY <2>1, <3>1 DEF KindsFit, Fits
  <2>3. Fits(r)'
    <3>1. Fits(r)
      BY DEF KindsFit
    <3>2. ASSUME NEW status, Answer(r, pc[r], status) PROVE Fits(r)'
      BY <3>2 DEF RequestTypeOK, Answer, Goto, Fits
    <3>3. CASE UNCHANGED outcome /\ \/ Goto(r, "ask", "delete")
                                    \/ Goto(r, "delete", "verify")
                                    \/ Goto(r, "verify", "session")
                                    \/ Goto(r, "authenticate", "revoke")
      BY <2>1, <3>1, <3>3 DEF RequestTypeOK, Goto, Fits
    <3> QED
      BY <1>2, <3>2, <3>3, StepControl DEF Ends, Moves
  <2> QED
    BY <2>2, <2>3 DEF KindsFit
<1>3. ASSUME NEW r \in Requests, NEW c \in Clients, NEW i \in Inputs,
             Admitted(r, c, i) \/ Refused(r, c, i)
      PROVE  KindsFit'
  <2>1. ASSUME NEW q \in Requests, q # r PROVE Fits(q)'
    <3>1. pc'[q] = pc[q] /\ outcome'[q] = outcome[q] /\ input'[q] = input[q]
      BY <1>3, <2>1, Arrival DEF RequestTypeOK
    <3> QED
      BY <3>1 DEF KindsFit, Fits
  <2>2. input'[r] = i
    BY <1>3, Arrival DEF RequestTypeOK
  <2>3. \/ pc'[r] = FirstStep(i) /\ outcome'[r] = "none"
        \/ pc'[r] = "done"
    <3>1. pc[r] = "new" /\ outcome[r] = "none"
      BY <1>3, Arrival DEF KindsFit, Fits
    <3> QED
      BY <1>3, <3>1, Arrival DEF RequestTypeOK
  <2>4. Fits(r)'
    BY <2>2, <2>3, FirstStepFits DEF Fits
  <2> QED
    BY <2>1, <2>4 DEF KindsFit
<1> QED
  BY <1>1, <1>2, <1>3 DEF Next, vars

\* What is given out stays so, and so does an answer.
LEMMA GivenStep == IInv /\ [Next]_vars => GivenOut'
<1> SUFFICES ASSUME IInv, [Next]_vars PROVE GivenOut'
  OBVIOUS
<1> USE DEF IInv
<1>1. CASE UNCHANGED requestVars
  BY <1>1 DEF requestVars, GivenOut, Known
<1>2. ASSUME NEW r \in Requests, Step(r) PROVE GivenOut'
  <2>1. UNCHANGED <<input, before>>
    BY <1>2, StepFrame
  <2>2. issued \subseteq issued'
    BY <1>2, StepData
  <2>3. \A n : Known(n) => Known(n)'
    BY <2>2 DEF Known
  <2>4. \A key \in Wallets \X Nonces : nonces'[key] > 0 => key \in issued'
    <3>1. CASE UNCHANGED <<nonces, issued>>
      BY <3>1 DEF GivenOut
    <3>2. ASSUME NEW n \in Nonces,
                 <<input[r].wallet, n>> \in Wallets \X Nonces,
                 nonces' = [nonces EXCEPT ![<<input[r].wallet, n>>] = now + NonceLife],
                 issued' = issued \cup {<<input[r].wallet, n>>}
          PROVE  \A key \in Wallets \X Nonces : nonces'[key] > 0 => key \in issued'
      BY <3>2 DEF RequestTypeOK, GivenOut
    <3>3. CASE /\ UNCHANGED issued
               /\ nonces' = [nonces EXCEPT ![Key(r)] = 0]
      BY <3>3 DEF RequestTypeOK, GivenOut
    <3> QED
      BY <1>2, <3>1, <3>2, <3>3, StepData
  <2>5. \A q \in Requests : pc[q] = "done" => pc'[q] = "done"
    BY <1>2, StepControl DEF RequestTypeOK, Ends, Moves, Answer, Goto
  <2> QED
    BY <2>1, <2>3, <2>4, <2>5 DEF GivenOut, RequestTypeOK
<1>3. ASSUME NEW r \in Requests, NEW c \in Clients, NEW i \in Inputs, Sensible(i),
             Admitted(r, c, i) \/ Refused(r, c, i)
      PROVE  GivenOut'
  <2>1. UNCHANGED <<nonces, issued>>
    BY <1>3, Arrival
  <2>2. \A n : Known(n)' <=> Known(n)
    BY <2>1 DEF Known
  <2>3. \A q \in Requests : input'[q].kind = "login" => Known(input'[q].nonce)
    BY <1>3, Arrival DEF RequestTypeOK, GivenOut, Sensible
  <2>4. \A p \in Requests : \A q \in before'[p] : pc'[q] = "done"
    BY <1>3, Arrival DEF RequestTypeOK, GivenOut, Done
  <2> QED
    BY <2>1, <2>2, <2>3, <2>4 DEF GivenOut
<1> QED
  BY <1>1, <1>2, <1>3 DEF Next, vars

\* The logins advance.  That a key which is gone does not come back is what
\* MakeNonce sees to, the nonce of a login being known.
LEMMA LoginsStep == IInv /\ [Next]_vars => LoginsAdvance'
<1> SUFFICES ASSUME IInv, [Next]_vars PROVE LoginsAdvance'
  OBVIOUS
<1> USE DEF IInv
<1>0. now \in Int /\ nonces \in [Wallets \X Nonces -> Int]
  BY LimiterAssumption, AuthAssumption DEF RequestTypeOK, Times
<1>1. CASE now' \in Int /\ now' >= now /\ UNCHANGED requestVars
  <2>1. \A q \in Requests : input[q].kind = "login" /\ ~Exists(Key(q)) => ~Exists(Key(q))'
    BY <1>0, <1>1, InputFits DEF Exists, Key, requestVars
  <2> QED
    BY <1>1, <2>1 DEF LoginsAdvance, Advances, Fresh, Used, Key, requestVars
<1>2. ASSUME NEW r \in Requests, Step(r) PROVE LoginsAdvance'
  <2>1. UNCHANGED <<now, input, before>>
    BY <1>2, StepFrame
  <2>2. \A q : Key(q)' = Key(q)
    BY <2>1 DEF Key
  <2>3. issued \subseteq issued'
    BY <1>2, StepData
  <2>4. ASSUME NEW q \in Requests, input[q].kind = "login", ~Exists(Key(q))
        PROVE  ~Exists(Key(q))'
    <3>1. Key(q) \in Wallets \X Nonces /\ Known(input[q].nonce)
      BY <2>4, InputFits DEF GivenOut
    <3>2. ASSUME NEW n \in Nonces, ~Known(n) PROVE Key(q) # <<input[r].wallet, n>>
      BY <3>1, <3>2 DEF Key
    <3>3. nonces'[Key(q)] = nonces[Key(q)] \/ nonces'[Key(q)] = 0
      <4>1. CASE UNCHANGED nonces
        BY <4>1
      <4>2. ASSUME NEW n \in Nonces, ~Known(n),
                   nonces' = [nonces EXCEPT ![<<input[r].wallet, n>>] = now + NonceLife]
            PROVE  nonces'[Key(q)] = nonces[Key(q)]
        BY <1>0, <3>1, <3>2, <4>2
      <4>3. CASE nonces' = [nonces EXCEPT ![Key(r)] = 0]
        BY <1>0, <3>1, <4>3
      <4> QED
        BY <1>2, <4>1, <4>2, <4>3, StepData
    <3> QED
      BY <1>0, <2>1, <2>2, <2>4, <3>3 DEF Exists, Times
  <2>5. \A q \in Requests : pc[q] = "done" => pc'[q] = "done" /\ outcome'[q] = outcome[q]
    BY <1>2, StepControl DEF RequestTypeOK, Ends, Moves, Answer, Goto
  <2>6. \A q \in Requests : Fresh(q) => Fresh(q)'
    BY <2>1, <2>2, <2>5 DEF Fresh, Used, GivenOut, RequestTypeOK
  <2>7. ASSUME NEW q \in Requests, q # r, input[q].kind = "login" PROVE Advances(q)'
    <3>1. pc'[q] = pc[q] /\ outcome'[q] = outcome[q]
      BY <1>2, <2>7, StepControl DEF RequestTypeOK, Ends, Moves, Answer, Goto
    <3>2. Advances(q)
      BY <2>7 DEF LoginsAdvance
    <3> QED
      BY <2>1, <2>2, <2>3, <2>4, <2>6, <2>7, <3>1, <3>2 DEF Advances
  <2>8. ASSUME input[r].kind = "login" PROVE Advances(r)'
    <3>1. Advances(r) /\ (pc[r] # "done" => outcome[r] = "none")
      BY <2>8 DEF LoginsAdvance, KindsFit, Fits
    <3>2. ASSUME NEW status \in Outcomes, Ends(r, status) PROVE Advances(r)'
      <4>1. pc[r] # "done" /\ pc'[r] = "done" /\ outcome'[r] = status
        BY <3>2 DEF Ends, Answer, Goto, RequestTypeOK
      <4>2. CASE status = "200"
        BY <2>1, <2>2, <2>3, <2>4, <2>6, <2>8, <3>1, <3>2, <4>1, <4>2
           DEF Ends, Advances
      <4>3. CASE status = "401"
        BY <2>1, <2>2, <2>4, <2>8, <3>1, <3>2, <4>1, <4>3 DEF Ends, Advances
      <4>4. CASE status \notin {"200", "401"}
        BY <4>1, <4>4 DEF Advances
      <4> QED
        BY <4>2, <4>3, <4>4
    <3>3. CASE Goto(r, "ask", "delete") /\ Exists(Key(r)) /\ UNCHANGED <<outcome, nonces>>
      <4>1. pc'[r] = "delete" /\ outcome'[r] = "none"
        BY <3>1, <3>3 DEF Goto, RequestTypeOK
      <4>2. Key(r) \in issued
        BY <1>0, <2>8, <3>3, InputFits DEF GivenOut, Exists, Times
      <4>3. Fresh(r)
        BY <3>3 DEF Fresh, Used, LoginsAdvance, Advances, RequestTypeOK
      <4> QED
        BY <2>2, <2>3, <2>6, <4>1, <4>2, <4>3 DEF Advances
    <3>4. CASE /\ Goto(r, "delete", "verify") /\ UNCHANGED outcome
               /\ nonces' = [nonces EXCEPT ![Key(r)] = 0]
      <4>1. pc[r] = "delete" /\ pc'[r] = "verify" /\ outcome'[r] = "none"
        BY <3>1, <3>4 DEF Goto, RequestTypeOK
      <4>2. nonces'[Key(r)] = 0
        BY <1>0, <2>8, <3>4, InputFits
      <4>3. ~Exists(Key(r))'
        BY <1>0, <2>1, <2>2, <4>2 DEF Exists, Times
      <4> QED
        BY <2>2, <2>3, <2>6, <3>1, <4>1, <4>3 DEF Advances
    <3>5. CASE /\ Goto(r, "verify", "session") /\ input[r].signed
               /\ UNCHANGED <<outcome, nonces>>
      <4>1. pc[r] = "verify" /\ pc'[r] = "session" /\ outcome'[r] = "none"
        BY <3>1, <3>5 DEF Goto, RequestTypeOK
      <4> QED
        BY <2>1, <2>2, <2>3, <2>4, <2>6, <2>8, <3>1, <3>5, <4>1 DEF Advances
    <3>6. CASE Goto(r, "authenticate", "revoke")
      BY <2>8, <3>6 DEF Goto, KindsFit, Fits
    <3> QED
      BY <1>2, <3>2, <3>3, <3>4, <3>5, <3>6, StepControl DEF Moves
  <2> QED
    BY <2>1, <2>7, <2>8 DEF LoginsAdvance
<1>3. ASSUME NEW r \in Requests, NEW c \in Clients, NEW i \in Inputs, Sensible(i),
             Admitted(r, c, i) \/ Refused(r, c, i)
      PROVE  LoginsAdvance'
  <2>1. UNCHANGED <<now, nonces, sessions,
  issued>> /\ pc[r] = "new" /\ outcome[r] = "none"
    BY <1>3, Arrival DEF KindsFit, Fits
  <2>2. \A q \in Requests : q # r =>
          /\ pc'[q] = pc[q] /\ outcome'[q] = outcome[q]
          /\ input'[q] = input[q] /\ before'[q] = before[q]
    BY <1>3, Arrival DEF RequestTypeOK
  <2>3. ASSUME NEW q \in Requests, q # r, input[q].kind = "login" PROVE Advances(q)'
    <3>1. Advances(q) /\ Key(q)' = Key(q)
      BY <2>2, <2>3 DEF LoginsAdvance, Key
    <3>2. \A p \in before[q] : p \in Requests /\ p # r
      BY <2>1, <2>3 DEF GivenOut, RequestTypeOK
    <3>3. Fresh(q) => Fresh(q)'
      BY <2>2, <2>3, <3>1, <3>2 DEF Fresh, Used, Key
    <3> QED
      BY <2>1, <2>2, <2>3, <3>1, <3>3 DEF Advances, Exists
  <2>4. input'[r] = i
    BY <1>3, Arrival DEF RequestTypeOK
  <2>5. \/ pc'[r] = FirstStep(i) /\ outcome'[r] = "none"
        \/ pc'[r] = "done" /\ outcome'[r] = "429"
    BY <1>3, <2>1, Arrival DEF RequestTypeOK
  <2>6. ASSUME input'[r].kind = "login" PROVE Advances(r)'
    BY <2>4, <2>5, <2>6, FirstStepFits DEF Advances
  <2> QED
    BY <2>2, <2>3, <2>6 DEF LoginsAdvance
<1>4. CASE Tick /\ UNCHANGED requestVars
  BY <1>0, <1>1, <1>4 DEF Tick, Times
<1> QED
  BY <1>0, <1>1, <1>2, <1>3, <1>4 DEF Next, vars, limiterVars

-----------------------------------------------------------------------------
\* What every step keeps.
THEOREM Invariance == Spec => []IInv
<1>1. IInv /\ [Next]_vars => IInv'
  BY TypeStep, KindsStep, GivenStep, LoginsStep DEF IInv
<1> QED
  BY <1>1, InitIInv, PTL DEF Spec

\* A login gets a session only for a nonce its own wallet was given and signed,
\* and that no login answered before it came had used up: what
\* validateAndConsumeNonce is for, in spite of its two calls.
THEOREM NonceSpentOnce == Spec => []SessionFromOwnNonce
<1>1. IInv => SessionFromOwnNonce
  BY DEF IInv, LoginsAdvance, Advances, Fresh, Used, SessionFromOwnNonce, LoggedIn
<1> QED
  BY <1>1, Invariance, PTL

-----------------------------------------------------------------------------
(* The limiter *)

\* The member of the sorted set for the i-th request.
Entry(i) == [score |-> asked[i].at, member |-> i]

\* A client's sorted set has entries of its own requests only, and, of those
\* whose window has not passed, every one that is known to have been judged.
HitsMatch ==
  /\ \A c \in Clients : \A entry \in hits[c] :
       /\ entry.member \in 1..Len(asked) /\ entry = Entry(entry.member)
       /\ asked[entry.member].client = c
  /\ \A i \in 1..Len(asked) :
       /\ asked[i].at <= now
       /\ asked[i].verdict # "unjudged" /\ asked[i].at > now - Window
            => Entry(i) \in hits[asked[i].client]

\* What RefusedForCause says beside the types.
RefusalsJustified ==
  \A i \in 1..Len(asked), c \in Clients, t \in Times :
    asked[i] = [client |-> c, at |-> t, verdict |-> "refused"] =>
      Cardinality(Recent(c, i - 1, t)) > MaxRequests

LimiterInv == LimiterTypeOK /\ HitsMatch /\ OverByOneAtMost /\ RefusalsJustified

\* Those of a client's requests in a window that are known to have been judged.
Judged(c, i, t) == {j \in Recent(c, i, t) : asked[j].verdict # "unjudged"}

\* The types of the limiter, once and for all.
LEMMA LimiterFacts ==
  ASSUME LimiterTypeOK
  PROVE  /\ now \in Nat /\ Window \in Nat \ {0} /\ MaxRequests \in Nat
         /\ \A t \in Times : t \in Nat
         /\ asked \in Seq(Verdicts) /\ Len(asked) \in Nat
         /\ \A i \in 1..Len(asked) :
              /\ asked[i] \in Verdicts
              /\ asked[i].client \in Clients /\ asked[i].at \in Nat
<1>1. now \in Nat /\ Window \in Nat \ {0} /\ MaxRequests \in Nat /\ Times \subseteq Nat
  BY LimiterAssumption DEF LimiterAssumption, LimiterTypeOK, Times
<1>2. /\ asked \in Seq(Verdicts) /\ Len(asked) \in Nat
      /\ \A i \in 1..Len(asked) : asked[i] \in Verdicts
  BY DEF LimiterTypeOK
<1>3. \A v \in Verdicts : v.client \in Clients /\ v.at \in Times
  BY DEF Verdicts
<1> QED
  BY <1>1, <1>2, <1>3

\* What the MULTI counts lies between the requests judged and those made.
LEMMA CountBounds ==
  ASSUME LimiterTypeOK, HitsMatch, NEW c \in Clients
  PROVE  /\ Cardinality(Judged(c, Len(asked), now)) <= Cardinality(InWindow(c))
         /\ Cardinality(InWindow(c)) <= Cardinality(Recent(c, Len(asked), now))
         /\ IsFiniteSet(Judged(c, Len(asked), now))
         /\ Cardinality(Judged(c, Len(asked), now)) \in Nat
         /\ Cardinality(InWindow(c)) \in Nat
         /\ Cardinality(Recent(c, Len(asked), now)) \in Nat
<1>1. PICK n \in Nat : n = Len(asked)
  BY LimiterFacts
<1> n \in Nat
  BY <1>1
<1> DEFINE recent == Recent(c, n, now)
           judged == Judged(c, n, now)
           window == InWindow(c)
<1>2. IsFiniteSet(recent) /\ Cardinality(recent) \in Nat
  <2>1. recent \in SUBSET (1..n) /\ IsFiniteSet(1..n)
    BY FS_Interval DEF Recent
  <2> QED
    BY <2>1, FS_Subset, FS_CardinalityType
<1>3. ASSUME NEW entry \in window
      PROVE  entry.member \in recent /\ entry = Entry(entry.member)
  <2>1. entry \in hits[c] /\ entry.score > now - Window
    BY DEF InWindow
  <2>2. /\ entry.member \in 1..n /\ entry = Entry(entry.member)
        /\ asked[entry.member].client = c /\ asked[entry.member].at <= now
    BY <1>1, <2>1 DEF HitsMatch
  <2>3. entry.score = asked[entry.member].at
    BY <2>2 DEF Entry
  <2> QED
    BY <2>1, <2>2, <2>3 DEF Recent
<1>4. ASSUME NEW i \in judged PROVE Entry(i) \in window /\ Entry(i).member = i
  <2>1. /\ i \in 1..n /\ asked[i].client = c /\ asked[i].at > now - Window
        /\ asked[i].verdict # "unjudged"
    BY DEF Judged, Recent
  <2>2. Entry(i) \in hits[c]
    BY <1>1, <2>1 DEF HitsMatch
  <2> QED
    BY <2>1, <2>2 DEF InWindow, Entry
<1> HIDE DEF recent, judged, window
<1>5. IsFiniteSet(window) /\ Cardinality(window) <= Cardinality(recent)
  <2> DEFINE index == [entry \in window |-> entry.member]
  <2>1. index \in [window -> recent] /\ \A a, b \in window : index[a] = index[b] => a = b
    BY <1>3
  <2> HIDE DEF index
  <2>2. index \in Injection(window, recent)
    BY <2>1 DEF Injection, IsInjective
  <2> QED
    BY <1>2, <2>2, FS_Injection
<1>6. IsFiniteSet(judged) /\ Cardinality(judged) <= Cardinality(window)
  <2> DEFINE entries == [i \in judged |-> Entry(i)]
  <2>1. entries \in [judged -> window] /\ \A i,
  j \in judged : entries[i] = entries[j] => i = j
    BY <1>4
  <2> HIDE DEF entries
  <2>2. entries \in Injection(judged, window)
    BY <2>1 DEF Injection, IsInjective
  <2> QED
    BY <1>5, <2>2, FS_Injection
<1>7. Cardinality(judged) \in Nat /\ Cardinality(window) \in Nat
  BY <1>5, <1>6, FS_CardinalityType
<1> QED
  BY <1>1, <1>2, <1>5, <1>6, <1>7 DEF recent, judged, window

\* One more request asked leaves those before it as they are.
LEMMA AskedFacts ==
  ASSUME LimiterTypeOK, NEW c \in Clients,
         NEW verdict \in {"admitted", "refused", "unjudged"}, Asked(c, verdict)
  PROVE  \E n \in Nat :
           /\ n = Len(asked) /\ Len(asked') = n + 1
           /\ asked' \in Seq(Verdicts)
           /\ asked'[n + 1] = [client |-> c, at |-> now, verdict |-> verdict]
           /\ \A i \in 1..n : asked'[i] = asked[i] /\ Entry(i)' = Entry(i)
           /\ \A d, t : \A i \in 0..n : Recent(d, i, t)' = Recent(d, i, t)
<1> DEFINE last == [client |-> c, at |-> now, verdict |-> verdict]
<1>1. PICK n \in Nat : n = Len(asked)
  BY LimiterFacts
<1> n \in Nat
  BY <1>1
<1>2. last \in Verdicts /\ asked' = Append(asked, last)
  BY DEF Asked, Verdicts, LimiterTypeOK
<1> HIDE DEF last
<1>3. /\ asked' \in Seq(Verdicts) /\ Len(asked') = n + 1 /\ asked'[n + 1] = last
      /\ \A i \in 1..n : asked'[i] = asked[i]
  <2>1. PICK queue \in Seq(Verdicts) : queue = asked
    BY LimiterFacts
  <2>2. /\ Append(queue, last) \in Seq(Verdicts) /\ Len(Append(queue, last)) = n + 1
        /\ Append(queue, last)[n + 1] = last
        /\ \A i \in 1..n : Append(queue, last)[i] = queue[i]
    BY ONLY <1>1, <1>2, <2>1, AppendProperties
  <2> QED
    BY ONLY <1>2, <2>1, <2>2
<1>4. \A i \in 1..n : Entry(i)' = Entry(i)
  BY <1>3 DEF Entry
<1>5. ASSUME NEW d, NEW t, NEW i \in 0..n PROVE Recent(d, i, t)' = Recent(d, i, t)
  <2>1. \A j \in 1..i : asked'[j] = asked[j]
    BY <1>3
  <2> QED
    BY <2>1 DEF Recent
<1> QED
  BY <1>1, <1>3, <1>4, <1>5 DEF last

\* The sorted set after the MULTI, or after none.
LEMMA HitsStep ==
  ASSUME LimiterTypeOK, HitsMatch, NEW c \in Clients,
         NEW verdict \in {"admitted", "refused", "unjudged"}, Asked(c, verdict),
         hits' = Recorded(c) \/ (hits' = hits /\ verdict = "unjudged"), UNCHANGED now
  PROVE  LimiterTypeOK' /\ HitsMatch'
<1>1. PICK n \in Nat :
        /\ n = Len(asked) /\ Len(asked') = n + 1
        /\ asked' \in Seq(Verdicts)
        /\ asked'[n + 1] = [client |-> c, at |-> now, verdict |-> verdict]
        /\ \A i \in 1..n : asked'[i] = asked[i] /\ Entry(i)' = Entry(i)
  BY AskedFacts
<1> n \in Nat
  BY <1>1
<1>2. Entry(n + 1)' = [score |-> now, member |-> n + 1]
  BY <1>1 DEF Entry
<1>3. /\ \A d \in Clients : hits[d] \in SUBSET [score : Times, member : Nat]
      /\ hits \in [Clients -> SUBSET [score : Times, member : Nat]] /\ now \in Times
      /\ now \in Nat /\ Window \in Nat \ {0}
  BY LimiterFacts DEF LimiterTypeOK
<1>4. /\ hits' \in [Clients -> SUBSET [score : Times, member : Nat]]
      /\ \A d \in Clients \ {c} : hits'[d] = hits[d]
      /\ hits'[c] \subseteq hits[c] \cup {Entry(n + 1)'}
      /\ InWindow(c) \subseteq hits'[c]
      /\ verdict # "unjudged" => Entry(n + 1)' \in hits'[c]
  <2>1. /\ InWindow(c) \subseteq hits[c]
        /\ [score |-> now, member |-> n + 1] \in [score : Times, member : Nat]
    BY <1>3 DEF InWindow
  <2>2. CASE hits' = hits /\ verdict = "unjudged"
    BY <1>3, <2>1, <2>2
  <2>3. CASE hits' = Recorded(c)
    <3>1. hits' = [hits EXCEPT ![c] = InWindow(c) \cup {Entry(n + 1)'}]
      BY <1>1, <1>2, <2>3 DEF Recorded
    <3>2. InWindow(c) \cup {Entry(n + 1)'} \in SUBSET [score : Times, member : Nat]
      BY <1>2, <1>3, <2>1
    <3> QED
      BY <1>3, <2>1, <3>1, <3>2
  <2> QED
    BY <2>2, <2>3
<1>5. LimiterTypeOK'
  BY <1>1, <1>3, <1>4 DEF LimiterTypeOK
<1>6. ASSUME NEW d \in Clients, NEW entry \in hits'[d]
      PROVE  /\ entry.member \in 1..n + 1 /\ entry = Entry(entry.member)'
             /\ asked'[entry.member].client = d
  <2>1. CASE entry \in hits[d]
    <3>1. /\ entry.member \in 1..n /\ entry = Entry(entry.member)
          /\ asked[entry.member].client = d
      BY <1>1, <2>1 DEF HitsMatch
    <3>2. PICK i \in 1..n : i = entry.member
      BY <3>1
    <3>3. asked'[i] = asked[i] /\ Entry(i)' = Entry(i) /\ i \in 1..n + 1
      BY <1>1, <3>2
    <3> QED
      BY <3>1, <3>2, <3>3
  <2>2. CASE d = c /\ entry = Entry(n + 1)'
    BY <1>1, <1>2, <2>2
  <2> QED
    BY <1>4, <2>1, <2>2
<1>7. ASSUME NEW i \in 1..n + 1
      PROVE  /\ asked'[i].at <= now
             /\ asked'[i].verdict # "unjudged" /\ asked'[i].at > now - Window
                  => Entry(i)' \in hits'[asked'[i].client]
  <2>1. CASE i = n + 1
    BY <1>1, <1>3, <1>4, <2>1
  <2>2. CASE i # n + 1
    <3>1. i \in 1..n
      BY <2>2
    <3>2. /\ asked[i].at <= now /\ asked[i].client \in Clients
          /\ asked[i].verdict # "unjudged" /\ asked[i].at > now - Window
               => Entry(i) \in hits[asked[i].client]
      BY <1>1, <3>1, LimiterFacts DEF HitsMatch
    <3>3. Entry(i).score = asked[i].at
      BY DEF Entry
    <3>4. Entry(i) \in hits[c] /\ asked[i].at > now - Window => Entry(i) \in hits'[c]
      BY <1>4, <3>3 DEF InWindow
    <3> QED
      BY <1>1, <1>4, <3>1, <3>2, <3>4
  <2> QED
    BY <2>1, <2>2
<1>8. HitsMatch'
  BY <1>1, <1>6, <1>7 DEF HitsMatch
<1> QED
  BY <1>5, <1>8

\* One more request keeps the bounds, if it is judged by the count.
LEMMA VerdictStep ==
  ASSUME LimiterInv, NEW c \in Clients,
         NEW verdict \in {"admitted", "refused", "unjudged"}, Asked(c, verdict),
         verdict = "admitted" => Cardinality(InWindow(c)) <= MaxRequests,
         verdict = "refused" => Cardinality(InWindow(c)) > MaxRequests
  PROVE  OverByOneAtMost' /\ RefusalsJustified'
<1> USE DEF LimiterInv
<1>1. PICK n \in Nat :
        /\ n = Len(asked) /\ Len(asked') = n + 1
        /\ asked'[n + 1] = [client |-> c, at |-> now, verdict |-> verdict]
        /\ \A i \in 1..n : asked'[i] = asked[i]
        /\ \A d, t : \A i \in 0..n : Recent(d, i, t)' = Recent(d, i, t)
  BY AskedFacts
<1> n \in Nat
  BY <1>1
<1>2. /\ now \in Nat /\ Window \in Nat \ {0} /\ MaxRequests \in Nat
      /\ Times \subseteq Nat
      /\ \A i \in 1..n : asked[i].at \in Nat /\ asked[i].at <= now
  BY <1>1, LimiterFacts DEF HitsMatch
<1>3. RefusalsJustified'
  <2> SUFFICES ASSUME NEW i \in 1..n + 1, NEW d \in Clients, NEW t \in Times,
                      asked'[i] = [client |-> d, at |-> t, verdict |-> "refused"]
               PROVE  Cardinality(Recent(d, i - 1, t)') > MaxRequests
    BY <1>1 DEF RefusalsJustified
  <2>1. CASE i = n + 1
    <3>1. verdict = "refused" /\ d = c /\ t = now /\ i - 1 = n
      BY <1>1, <2>1
    <3>2. Recent(d, i - 1, t)' = Recent(c, n, now)
      BY <1>1, <3>1
    <3>3. /\ Cardinality(InWindow(c)) <= Cardinality(Recent(c, n, now))
          /\ Cardinality(InWindow(c)) \in Nat
          /\ Cardinality(Recent(c, n, now)) \in Nat
      BY <1>1, CountBounds
    <3> QED
      BY <1>2, <3>1, <3>2, <3>3
  <2>2. CASE i # n + 1
    <3>1. i \in 1..n /\ i - 1 \in 0..n
      BY <2>2
    <3>2. asked'[i] = asked[i] /\ Recent(d, i - 1, t)' = Recent(d, i - 1, t)
      BY <1>1, <3>1
    <3> QED
      BY <1>1, <3>1, <3>2 DEF RefusalsJustified
  <2> QED
    BY <2>1, <2>2
<1>4. OverByOneAtMost'
  <2> SUFFICES ASSUME NEW d \in Clients, NEW t \in Times
               PROVE  Cardinality({j \in Recent(d, n + 1, t)' :
                                     asked'[j].verdict = "admitted"}) <= MaxRequests + 1
    BY <1>1 DEF OverByOneAtMost, LetIn
  <2> DEFINE old == {j \in Recent(d, n, t) : asked[j].verdict = "admitted"}
             new == {j \in Recent(d, n + 1, t)' : asked'[j].verdict = "admitted"}
  <2>1. Cardinality(old) <= MaxRequests + 1 /\ t \in Nat
    BY <1>1, <1>2 DEF OverByOneAtMost, LetIn
  <2>2. IsFiniteSet(old) /\ Cardinality(old) \in Nat
    <3>1. old \in SUBSET (1..n) /\ IsFiniteSet(1..n)
      BY FS_Interval DEF Recent
    <3> QED
      BY <3>1, FS_Subset, FS_CardinalityType
  <2>3. \A j \in 1..n : j \in new <=> j \in old
    BY <1>1 DEF Recent
  <2>4. new \subseteq 1..n + 1 /\ old \subseteq 1..n
    BY DEF Recent
  <2>5. CASE n + 1 \notin new
    <3>1. new = old
      BY <2>3, <2>4, <2>5
    <3> QED
      BY <2>1, <3>1
  <2>6. CASE n + 1 \in new
    <3>1. new = old \cup {n + 1} /\ n + 1 \notin old
      BY <2>3, <2>4, <2>6
    <3>2. verdict = "admitted" /\ d = c /\ now <= t /\ now > t - Window
      BY <1>1, <2>6 DEF Recent
    <3>3. old \subseteq Judged(c, n, now)
      BY <1>2, <2>1, <3>2 DEF Recent, Judged
    <3>4. /\ Cardinality(Judged(c, n, now)) <= Cardinality(InWindow(c))
          /\ IsFiniteSet(Judged(c, n, now))
          /\ Cardinality(Judged(c, n, now)) \in Nat /\ Cardinality(InWindow(c)) \in Nat
      BY <1>1, CountBounds
    <3>5. Cardinality(old) <= Cardinality(Judged(c, n, now))
      BY <3>3, <3>4, FS_Subset
    <3>6. Cardinality(new) = Cardinality(old) + 1
      BY <2>2, <3>1, FS_AddElement
    <3> QED
      BY <1>2, <2>2, <3>2, <3>4, <3>5, <3>6
  <2> QED
    BY <2>5, <2>6
<1> QED
  BY <1>3, <1>4

\* What a step of the router does to the limiter.
LEMMA LimiterMoves ==
  ASSUME [Next]_vars
  PROVE  \/ UNCHANGED limiterVars
         \/ Tick
         \/ \E c \in Clients : Judge(c, "admitted") \/ Judge(c, "refused") \/ FailOpen(c)
<1>1. ASSUME NEW r \in Requests, Step(r) PROVE UNCHANGED limiterVars
  BY <1>1 DEF Step, BadBody, MakeNonce, AskNonce, DeleteNonce, Verify, OpenSession,
       Authenticate, RevokeSession, StoreFails
<1>2. ASSUME NEW r \in Requests, NEW c \in Clients, NEW i \in Inputs,
             Admitted(r, c, i) \/ Refused(r, c, i)
      PROVE  Judge(c, "admitted") \/ Judge(c, "refused") \/ FailOpen(c)
  BY <1>2 DEF Admitted, Refused
<1> QED
  BY <1>1, <1>2 DEF Next, vars

LEMMA LimiterStep == LimiterInv /\ [Next]_vars => LimiterInv'
<1> SUFFICES ASSUME LimiterInv, [Next]_vars PROVE LimiterInv'
  OBVIOUS
<1> USE DEF LimiterInv
<1>1. CASE UNCHANGED limiterVars
  BY <1>1 DEF limiterVars, LimiterTypeOK, HitsMatch, Entry, OverByOneAtMost, LetIn, Recent,
       RefusalsJustified
<1>2. CASE Tick
  <2>1. now' = now + 1 /\ now' \in Times /\ UNCHANGED <<hits, asked>>
    BY <1>2, LimiterAssumption DEF LimiterAssumption, Tick, LimiterTypeOK, Times
  <2>2. LimiterTypeOK' /\ OverByOneAtMost' /\ RefusalsJustified'
    BY <2>1 DEF LimiterTypeOK, OverByOneAtMost, LetIn, Recent, RefusalsJustified
  <2>3. HitsMatch'
    BY <2>1, LimiterFacts DEF HitsMatch, Entry
  <2> QED
    BY <2>2, <2>3
<1>3. ASSUME NEW c \in Clients, NEW verdict \in {"admitted", "refused"}, Judge(c, verdict)
      PROVE  LimiterInv'
  <2>1. /\ Asked(c, verdict) /\ hits' = Recorded(c) /\ UNCHANGED now
        /\ verdict = IF Cardinality(InWindow(c)) > MaxRequests THEN "refused" ELSE "admitted"
    BY <1>3 DEF Judge
  <2>2. Cardinality(InWindow(c)) \in Nat /\ MaxRequests \in Nat
    BY CountBounds, LimiterFacts
  <2>3. /\ verdict = "admitted" => Cardinality(InWindow(c)) <= MaxRequests
        /\ verdict = "refused" => Cardinality(InWindow(c)) > MaxRequests
    BY <2>1, <2>2
  <2> QED
    BY <2>1, <2>3, HitsStep, VerdictStep
<1>4. ASSUME NEW c \in Clients, FailOpen(c) PROVE LimiterInv'
  <2>1. /\ Asked(c, "unjudged") /\ UNCHANGED now
        /\ hits' = Recorded(c) \/ hits' = hits
    BY <1>4 DEF FailOpen
  <2> QED
    BY <2>1, HitsStep, VerdictStep
<1> QED
  BY <1>1, <1>2, <1>3, <1>4, LimiterMoves

LEMMA LimiterStart == Init => LimiterInv
<1> SUFFICES ASSUME Init PROVE LimiterInv
  OBVIOUS
<1> USE DEF Init, LimiterInit
<1>1. LimiterTypeOK
  BY LimiterAssumption, EmptySeq DEF LimiterAssumption, LimiterTypeOK, Times
<1>2. Len(asked) = 0 /\ 1..0 = {}
  OBVIOUS
<1>3. HitsMatch /\ RefusalsJustified
  BY <1>2 DEF HitsMatch, RefusalsJustified
<1>4. OverByOneAtMost
  <2> SUFFICES ASSUME NEW c \in Clients, NEW t \in Times
               PROVE  Cardinality({j \in Recent(c, Len(asked),
               t) : asked[j].verdict = "admitted"})
                        <= MaxRequests + 1
    BY DEF OverByOneAtMost, LetIn
  <2>1. {j \in Recent(c, Len(asked), t) : asked[j].verdict = "admitted"} = {}
    BY <1>2 DEF Recent
  <2>2. MaxRequests \in Nat
    BY LimiterAssumption DEF LimiterAssumption
  <2>3. Cardinality({}) = 0
    BY FS_EmptySet
  <2>4. 0 <= MaxRequests + 1
    BY ONLY <2>2
  <2> QED
    BY <2>1, <2>3, <2>4
<1> QED
  BY <1>1, <1>3, <1>4 DEF LimiterInv

LEMMA LimiterInvariance == Spec => []LimiterInv
<1> QED
  BY LimiterStart, LimiterStep, PTL DEF Spec

\* createRateLimiter (rateLimit.ts:38-63): as long as Redis answers, no window has
\* more than maxRequests + 1 requests of one client let in, whatever the numbers.
THEOREM AtMostOneOver == Spec => []OverByOneAtMost
<1>1. LimiterInv => OverByOneAtMost
  BY DEF LimiterInv
<1> QED
  BY <1>1, LimiterInvariance, PTL

\* Every variable has its type, and a client that is refused has made more than
\* maxRequests requests within the window before.
THEOREM NobodyRefusedForNothing == Spec => []RefusedForCause
<1>1. LimiterInv /\ IInv => RefusedForCause
  <2> SUFFICES ASSUME LimiterInv, IInv, NEW i \in 1..Len(asked),
  asked[i].verdict = "refused"
               PROVE  Cardinality(Recent(asked[i].client, i - 1,
               asked[i].at)) > MaxRequests
    BY DEF LimiterInv, IInv, TypeOK, RefusedForCause
  <2>1. asked[i] \in Verdicts
    BY LimiterFacts DEF LimiterInv
  <2>2. PICK c \in Clients, t \in Times :
          asked[i] = [client |-> c, at |-> t, verdict |-> "refused"]
    BY <2>1 DEF Verdicts
  <2> QED
    BY <2>2 DEF LimiterInv, RefusalsJustified
<1> QED
  BY <1>1, LimiterInvariance, Invariance, PTL

-----------------------------------------------------------------------------
(* Sessions *)

\* A token, and a key, are there only once the row is; a validation that is
\* about to write the key has seen the row.
RowComesFirst ==
  /\ login \in {"cache", "token"} => row # "absent"
  /\ row = "revoked" => login = "token"
  /\ login = "insert" => row = "absent"
  /\ login = "cache" => left > 0
  /\ \A v \in Validations : check[v] # "idle" => login = "token"
  /\ \A o \in Logouts : logout[o] # "idle" => login = "token"

\* A validation that began too late has been refused, or will be.
LateIsLate ==
  late # {} => Over /\ \A v \in late : check[v] \notin {"fill", "valid"}

SessionInv == SessionTypeOK /\ RowComesFirst /\ DurableFirst /\ InvalidForCause

\* Every variable keeps its type.
LEMMA SessionTypeStep ==
  SessionTypeOK /\ [SessionNext]_sessionVars => SessionTypeOK'
<1> SUFFICES ASSUME SessionTypeOK, [SessionNext]_sessionVars PROVE SessionTypeOK'
  OBVIOUS
<1> USE LifetimeAssumption DEF LifetimeAssumption, SessionTypeOK
<1>1. CASE InsertRow \/ CacheNew \/ LoginFails
  BY <1>1 DEF InsertRow, CacheNew, LoginFails
<1>2. ASSUME NEW v \in Validations, Validate(v) \/ ValidateStep(v) \/ ValidateFails(v)
      PROVE  SessionTypeOK'
  <2>1. CASE Validate(v)
    BY <2>1 DEF Validate, CheckGoes
  <2>2. CASE ValidateStep(v) \/ ValidateFails(v)
    BY <2>2 DEF ValidateStep, ValidateFails, Get, Select, Fill, CheckGoes
  <2> QED
    BY <1>2, <2>1, <2>2
<1>3. ASSUME NEW o \in Logouts, Logout(o) \/ LogoutStep(o) \/ LogoutFails(o)
      PROVE  SessionTypeOK'
  BY <1>3 DEF Logout, LogoutStep, LogoutFails, UpdateRow, DeleteKey, LogoutGoes
<1>4. CASE Evict \/ SessionTick
  BY <1>4 DEF Evict, SessionTick, Less
<1>5. CASE UNCHANGED sessionVars
  BY <1>5 DEF sessionVars
<1> QED
  BY <1>1, <1>2, <1>3, <1>4, <1>5 DEF SessionNext

\* The row is written before anything that stands for it.
LEMMA RowStep ==
  SessionInv /\ [SessionNext]_sessionVars => RowComesFirst' /\ DurableFirst'
<1> SUFFICES ASSUME SessionInv,
    [SessionNext]_sessionVars PROVE RowComesFirst' /\ DurableFirst'
  OBVIOUS
<1> USE LifetimeAssumption DEF LifetimeAssumption, SessionInv, SessionTypeOK,
                        RowComesFirst, DurableFirst
<1>1. CASE InsertRow \/ CacheNew \/ LoginFails
  BY <1>1 DEF InsertRow, CacheNew, LoginFails
<1>2. ASSUME NEW v \in Validations, Validate(v) \/ ValidateStep(v) \/ ValidateFails(v)
      PROVE  RowComesFirst' /\ DurableFirst'
  BY <1>2
     DEF Validate, ValidateStep, ValidateFails, Get, Select, Fill, CheckGoes
<1>3. ASSUME NEW o \in Logouts, Logout(o) \/ LogoutStep(o) \/ LogoutFails(o)
      PROVE  RowComesFirst' /\ DurableFirst'
  BY <1>3 DEF Logout, LogoutStep, LogoutFails, UpdateRow, DeleteKey, LogoutGoes
<1>4. CASE Evict \/ SessionTick
  BY <1>4 DEF Evict, SessionTick, Less
<1>5. CASE UNCHANGED sessionVars
  BY <1>5 DEF sessionVars
<1> QED
  BY <1>1, <1>2, <1>3, <1>4, <1>5 DEF SessionNext

\* A revocation and an expiry are never taken back, and a failure is forgotten with
\* the next question only, so a refusal stays justified.
LEMMA RefusalStep ==
  SessionInv /\ [SessionNext]_sessionVars => InvalidForCause'
<1> SUFFICES ASSUME SessionInv, [SessionNext]_sessionVars, NEW w \in Validations,
    check'[w] = "invalid"
             PROVE  row' = "revoked" \/ left' = 0 \/ w \in broken'
  BY DEF InvalidForCause
<1> USE LifetimeAssumption DEF LifetimeAssumption, SessionInv, SessionTypeOK,
                        RowComesFirst, InvalidForCause
<1>1. CASE InsertRow \/ CacheNew \/ LoginFails
  BY <1>1 DEF InsertRow, CacheNew, LoginFails
<1>2. ASSUME NEW v \in Validations, Validate(v) \/ ValidateStep(v) \/ ValidateFails(v)
      PROVE  row' = "revoked" \/ left' = 0 \/ w \in broken'
  BY <1>2
     DEF Validate, ValidateStep, ValidateFails, Get, Select, Fill, CheckGoes
<1>3. ASSUME NEW o \in Logouts, Logout(o) \/ LogoutStep(o) \/ LogoutFails(o)
      PROVE  row' = "revoked" \/ left' = 0 \/ w \in broken'
  BY <1>3 DEF Logout, LogoutStep, LogoutFails, UpdateRow, DeleteKey, LogoutGoes
<1>4. CASE Evict \/ SessionTick
  BY <1>4 DEF Evict, SessionTick, Less
<1>5. CASE UNCHANGED sessionVars
  BY <1>5 DEF sessionVars
<1> QED
  BY <1>1, <1>2, <1>3, <1>4, <1>5 DEF SessionNext

\* SessionInv is inductive: the argument behind every theorem below.
THEOREM SessionInvariance == SessionSpec => []SessionInv
<1>1. SessionInit => SessionInv
  BY LifetimeAssumption DEF LifetimeAssumption, SessionInit, SessionInv, SessionTypeOK,
                        RowComesFirst, DurableFirst, InvalidForCause
<1>2. SessionInv /\ [SessionNext]_sessionVars => SessionInv'
  BY SessionTypeStep, RowStep, RefusalStep DEF SessionInv
<1> QED
  BY <1>1, <1>2, PTL DEF SessionSpec

\* Neither a token nor a key is ever ahead of the database.
THEOREM DatabaseFirst == SessionSpec => []DurableFirst
  BY SessionInvariance, PTL DEF SessionInv

\* validateSession (session.ts:58-113): no eviction, no race and no failure of
\* anything but this very validation has a good session refused.
THEOREM NoFalseRefusal == SessionSpec => []InvalidForCause
  BY SessionInvariance, PTL DEF SessionInv

\* What is over cannot be undone by any later step.
LEMMA OverStep ==
  SessionInv /\ Over /\ [SessionNext]_sessionVars => Over'
<1> SUFFICES ASSUME SessionInv, Over, [SessionNext]_sessionVars PROVE Over'
  OBVIOUS
<1> USE LifetimeAssumption DEF LifetimeAssumption, SessionInv, SessionTypeOK,
                        RowComesFirst, Over, Ended
<1>1. CASE InsertRow \/ CacheNew \/ LoginFails
  BY <1>1 DEF InsertRow, CacheNew, LoginFails
<1>2. ASSUME NEW v \in Validations, Validate(v) \/ ValidateStep(v) \/ ValidateFails(v)
      PROVE  Over'
  BY <1>2
     DEF Validate, ValidateStep, ValidateFails, Get, Select, Fill, CheckGoes
<1>3. ASSUME NEW o \in Logouts, Logout(o) \/ LogoutStep(o) \/ LogoutFails(o)
      PROVE  Over'
  BY <1>3 DEF Logout, LogoutStep, LogoutFails, UpdateRow, DeleteKey, LogoutGoes
<1>4. CASE Evict \/ SessionTick
  BY <1>4 DEF Evict, SessionTick, Less
<1>5. CASE UNCHANGED sessionVars
  BY <1>5 DEF sessionVars
<1> QED
  BY <1>1, <1>2, <1>3, <1>4, <1>5 DEF SessionNext

\* Whoever validates, fails or times out later, what is over stays over.
THEOREM OverStays == SessionSpec => OverForGood
<1>1. SessionInv /\ [SessionNext]_sessionVars => [Over => Over']_sessionVars
  BY OverStep DEF sessionVars, Over, Ended
<1> QED
  BY <1>1, SessionInvariance, PTL DEF SessionSpec, OverForGood

\* A validation that began when the session was over takes the way to "invalid".
LEMMA LateStep ==
  SessionInv /\ LateIsLate /\ [SessionNext]_sessionVars => LateIsLate'
<1> SUFFICES ASSUME SessionInv, LateIsLate, [SessionNext]_sessionVars, late' # {}
             PROVE  Over' /\ \A w \in late' : check'[w] \notin {"fill", "valid"}
  BY DEF LateIsLate
<1>1. Over
  BY DEF LateIsLate, SessionNext, InsertRow, CacheNew, LoginFails, Validate, ValidateStep,
         ValidateFails, Get, Select, Fill, Logout, LogoutStep, LogoutFails, UpdateRow,
         DeleteKey, Evict, SessionTick, sessionVars, SessionInv, SessionTypeOK
<1>2. Over'
  BY <1>1, OverStep
<1>3. \A w \in late' : check'[w] \notin {"fill", "valid"}
  <2> USE DEF SessionInv, SessionTypeOK, LateIsLate, Over, Ended
  <2>1. CASE \E v \in Validations : Validate(v) \/ ValidateStep(v) \/ ValidateFails(v)
    BY <1>1, <2>1
       DEF Validate, ValidateStep, ValidateFails, Get, Select, Fill, CheckGoes
  <2>2. CASE UNCHANGED <<check, late>>
    BY <2>2
  <2> QED
    BY <2>1, <2>2 DEF SessionNext, InsertRow, CacheNew, LoginFails, Logout, LogoutStep,
       LogoutFails, UpdateRow, DeleteKey, Evict, SessionTick, sessionVars
<1> QED
  BY <1>2, <1>3

\* validateSession (session.ts:58-113): no answer "valid" to a question that was
\* asked when the session was over.
THEOREM NoLateAnswer == SessionSpec => []LateIsRefused
<1>1. SessionInit => LateIsLate
  BY DEF SessionInit, LateIsLate
<1>2. SessionInv /\ LateIsLate => LateIsRefused
  BY DEF SessionInv, LateIsLate, LateIsRefused
<1> QED
  BY <1>1, <1>2, LateStep, SessionInvariance, PTL DEF SessionSpec
=============================================================================
