----------------------------- MODULE RateLimiter -----------------------------
(***************************************************************************)
(* The sliding window of createRateLimiter (apps/api, rateLimit.ts): a     *)
(* sorted set of time stamps for each client, trimmed, counted and added   *)
(* to in one MULTI.  AuthRequests has it in front of the auth router.      *)
(***************************************************************************)
EXTENDS Integers, Sequences, FiniteSets

CONSTANTS
  Clients,      \* the values of keyGenerator
  Window,       \* windowMs
  MaxRequests,
  LastTime      \* bound: the clock stops here

ASSUME LimiterAssumption ==
  /\ Window \in Nat \ {0}
  /\ MaxRequests \in Nat /\ LastTime \in Nat

VARIABLES
  now,
  hits,   \* the sorted set of each client
  asked   \* for checking: every request, and what became of it

limiterVars == <<now, hits, asked>>

Times == 0..LastTime

Verdicts ==
  [client : Clients, at : Times, verdict : {"admitted", "refused", "unjudged"}]

LimiterTypeOK ==
  /\ now \in Times
  /\ hits \in [Clients -> SUBSET [score : Times, member : Nat]]
  /\ asked \in Seq(Verdicts)

LimiterInit ==
  /\ now = 0
  /\ hits = [c \in Clients |-> {}]
  /\ asked = <<>>

Tick ==
  /\ now < LastTime
  /\ now' = now + 1
  /\ UNCHANGED <<hits, asked>>

\* Variant: zRemRangeByScore with the window the wrong way round.
NothingTrimmed(c) == hits[c]

\* zRemRangeByScore: what is as old as the window, or older, is removed.
InWindow(c) == {entry \in hits[c] : entry.score > now - Window}

\* ... and zAdd.  The member is the time and a random number: no two are the same.
Recorded(c) ==
  [hits EXCEPT ![c] = InWindow(c) \cup {[score |-> now, member |-> Len(asked) + 1]}]

Asked(c, verdict) ==
  asked' = Append(asked, [client |-> c, at |-> now, verdict |-> verdict])

\* Variant: the comparison is off by one more.
JudgeOffByTwo(c, verdict) ==
  /\ verdict = IF Cardinality(InWindow(c)) > MaxRequests + 1 THEN "refused" ELSE "admitted"
  /\ hits' = Recorded(c)
  /\ Asked(c, verdict)
  /\ UNCHANGED now

\* The MULTI, and the comparison: zCard counts the requests before this one,
\* which is recorded whatever the verdict.  The key outlives its entries, so
\* its expiry removes nothing that counts.
Judge(c, verdict) ==
  /\ verdict = IF Cardinality(InWindow(c)) > MaxRequests THEN "refused" ELSE "admitted"
  /\ hits' = Recorded(c)
  /\ Asked(c, verdict)
  /\ UNCHANGED now

\* Redis fails, having executed the MULTI or not: the request is let in.
FailOpen(c) ==
  /\ hits' \in {hits, Recorded(c)}
  /\ Asked(c, "unjudged")
  /\ UNCHANGED now

-----------------------------------------------------------------------------
\* Requests a client made in the window that ends at time t, up to the i-th.
Recent(c, i, t) ==
  {j \in 1..i : asked[j].client = c /\ asked[j].at > t - Window /\ asked[j].at <= t}

\* Requests let in within the window that ends at time t.
LetIn(c, t) == {j \in Recent(c, Len(asked), t) : asked[j].verdict = "admitted"}

\* rateLimit.ts:13: "Max requests per window", and :111: "Auth endpoints: 10
\* requests per minute per IP".
LimitKept ==
  \A c \in Clients, t \in Times : Cardinality(LetIn(c, t)) <= MaxRequests

\* What the code keeps: in no window, whenever it begins, does a client get in
\* more often than one more than maxRequests, unless Redis fails: the comparison
\* is made with the requests before this one.
OverByOneAtMost ==
  \A c \in Clients, t \in Times : Cardinality(LetIn(c, t)) <= MaxRequests + 1
=============================================================================
