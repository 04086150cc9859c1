------------------------------ MODULE Sessions ------------------------------
(***************************************************************************)
(* packages/auth/src/session.ts: one session, kept as a row in Postgres    *)
(* and as a key with a time to live in Redis.  createSession, any number   *)
(* of concurrent calls of validateSession and revokeSession, each one a    *)
(* sequence of calls to the two stores that can fail between any two.      *)
(* A token is random and nobody knows it before createSession returns it,  *)
(* so sessions do not touch each other and one is enough.                  *)
(*                                                                         *)
(* Time is the number of ticks that are left: until the row's expiresAt,   *)
(* and until Redis drops the key.  0 is "over".  A tick is hours: no tick  *)
(* passes between the two writes of createSession.                         *)
(***************************************************************************)
EXTENDS Integers

CONSTANTS
  Lifetime,      \* 24 hours, in ticks
  Validations,   \* concurrent calls of validateSession
  Logouts        \* concurrent calls of revokeSession

ASSUME LifetimeAssumption == Lifetime \in Nat \ {0}

VARIABLES
  row,      \* sessions row: "absent", "live", or "revoked" (revokedAt is set)
  left,     \* ticks until expiresAt
  ttl,      \* ticks until the Redis key is gone; 0: no key
  login,    \* where createSession is
  check,    \* [validation -> where it is, or its answer]
  logout,   \* [logout -> where it is, or its answer]
  \* for checking
  late,     \* validations that began when the session was over
  broken    \* validations in which a store failed

sessionVars == <<row, left, ttl, login, check, logout, late, broken>>

SessionTypeOK ==
  /\ row \in {"absent", "live", "revoked"}
  /\ left \in 0..Lifetime
  /\ ttl \in 0..Lifetime
  /\ login \in {"insert", "cache", "token", "failed"}
  /\ check \in [Validations -> {"idle", "get", "select", "fill", "valid", "invalid"}]
  /\ logout \in [Logouts -> {"idle", "update", "delete", "revoked", "error"}]
  /\ late \subseteq Validations
  /\ broken \subseteq Validations

SessionInit ==
  /\ row = "absent"
  /\ left = 0
  /\ ttl = 0
  /\ login = "insert"
  /\ check = [v \in Validations |-> "idle"]
  /\ logout = [o \in Logouts |-> "idle"]
  /\ late = {}
  /\ broken = {}

CheckGoes(v, label) == check' = [check EXCEPT ![v] = label]

LogoutGoes(o, label) == logout' = [logout EXCEPT ![o] = label]

-----------------------------------------------------------------------------
(* createSession *)

\* sessions.create
InsertRow ==
  /\ login = "insert"
  /\ row' = "live"
  /\ left' = Lifetime
  /\ login' = "cache"
  /\ UNCHANGED <<ttl, check, logout, late, broken>>

\* redis.set(key, ..., EX), and the token is returned.
CacheNew ==
  /\ login = "cache"
  /\ ttl' = Lifetime
  /\ login' = "token"
  /\ UNCHANGED <<row, left, check, logout, late, broken>>

\* "Auth: Could not create session": a row that is there stays.
LoginFails ==
  /\ login \in {"insert", "cache"}
  /\ login' = "failed"
  /\ UNCHANGED <<row, left, ttl, check, logout, late, broken>>

-----------------------------------------------------------------------------
(* validateSession *)

\* The row is there, and revoked or expired.
Ended == row = "revoked" \/ (row = "live" /\ left = 0)

\* Nobody can use the session any more: it has ended, the key is gone, and no
\* validation that saw the row before is about to write the key again.
Over ==
  /\ Ended
  /\ ttl = 0
  /\ \A v \in Validations : check[v] # "fill"

Validate(v) ==
  /\ login = "token"
  /\ check[v] \in {"idle", "valid", "invalid"}
  /\ late' = IF Over THEN late \cup {v} ELSE late \ {v}
  /\ broken' = broken \ {v}
  /\ CheckGoes(v, "get")
  /\ UNCHANGED <<row, left, ttl, login, logout>>

\* Variant: no fallback to Postgres.
TrustCache(v) ==
  /\ check[v] = "get"
  /\ CheckGoes(v, IF ttl > 0 THEN "valid" ELSE "invalid")
  /\ UNCHANGED <<row, left, ttl, login, logout, late, broken>>

\* redis.get: a key is an answer.
Get(v) ==
  /\ check[v] = "get"
  /\ CheckGoes(v, IF ttl > 0 THEN "valid" ELSE "select")
  /\ UNCHANGED <<row, left, ttl, login, logout, late, broken>>

\* Variant: revokedAt is not looked at.
SelectUnexpired(v) ==
  /\ check[v] = "select"
  /\ CheckGoes(v, IF row # "absent" /\ left > 0 THEN "fill" ELSE "invalid")
  /\ UNCHANGED <<row, left, ttl, login, logout, late, broken>>

\* sessions.findUnique: there, not expired, not revoked.
Select(v) ==
  /\ check[v] = "select"
  /\ CheckGoes(v, IF row = "live" /\ left > 0 THEN "fill" ELSE "invalid")
  /\ UNCHANGED <<row, left, ttl, login, logout, late, broken>>

\* "Repopulate Redis cache", for another full lifetime.
Fill(v) ==
  /\ check[v] = "fill"
  /\ ttl' = Lifetime
  /\ CheckGoes(v, "valid")
  /\ UNCHANGED <<row, left, login, logout, late, broken>>

\* A store fails, and may have done what it was asked for.  The error is caught,
\* and the answer is that of a refusal.
ValidateFails(v) ==
  /\ check[v] \in {"get", "select", "fill"}
  /\ CheckGoes(v, "invalid")
  /\ broken' = broken \cup {v}
  /\ \/ UNCHANGED ttl
     \/ check[v] = "fill" /\ ttl' = Lifetime
  /\ UNCHANGED <<row, left, login, logout, late>>

-----------------------------------------------------------------------------
(* revokeSession *)

Logout(o) ==
  /\ login = "token"
  /\ logout[o] \in {"idle", "revoked", "error"}
  /\ LogoutGoes(o, "update")
  /\ UNCHANGED <<row, left, ttl, login, check, late, broken>>

\* sessions.update({ revokedAt })
UpdateRow(o) ==
  /\ logout[o] = "update"
  /\ row' = "revoked"
  /\ LogoutGoes(o, "delete")
  /\ UNCHANGED <<left, ttl, login, check, late, broken>>

\* redis.del
DeleteKey(o) ==
  /\ logout[o] = "delete"
  /\ ttl' = 0
  /\ LogoutGoes(o, "revoked")
  /\ UNCHANGED <<row, left, login, check, late, broken>>

\* A store fails: false is returned, the row may be revoked and the key there.
LogoutFails(o) ==
  /\ logout[o] \in {"update", "delete"}
  /\ LogoutGoes(o, "error")
  /\ UNCHANGED <<row, left, ttl, login, check, late, broken>>

-----------------------------------------------------------------------------
(* The surroundings *)

\* Redis drops the key before its time (memory, restart).
Evict ==
  /\ ttl > 0
  /\ ttl' = 0
  /\ UNCHANGED <<row, left, login, check, logout, late, broken>>

Less(n) == IF n > 0 THEN n - 1 ELSE 0

\* Variant: the key has no EX.
TickRow ==
  /\ login # "cache"
  /\ left > 0 \/ ttl > 0
  /\ left' = Less(left)
  /\ UNCHANGED <<row, ttl, login, check, logout, late, broken>>

SessionTick ==
  /\ login # "cache"
  /\ left > 0 \/ ttl > 0
  /\ left' = Less(left)
  /\ ttl' = Less(ttl)
  /\ UNCHANGED <<row, login, check, logout, late, broken>>

ValidateStep(v) == Get(v) \/ Select(v) \/ Fill(v)

LogoutStep(o) == UpdateRow(o) \/ DeleteKey(o)

SessionNext ==
  \/ InsertRow
  \/ CacheNew
  \/ LoginFails
  \/ \E v \in Validations : Validate(v) \/ ValidateStep(v) \/ ValidateFails(v)
  \/ \E o \in Logouts : Logout(o) \/ LogoutStep(o) \/ LogoutFails(o)
  \/ Evict
  \/ SessionTick

SessionSpec == SessionInit /\ [][SessionNext]_sessionVars

\* Calls that were made go on, and time passes.
FairSessionSpec ==
  /\ SessionSpec
  /\ WF_sessionVars(SessionTick)
  /\ \A v \in Validations : WF_sessionVars(ValidateStep(v))
  /\ \A o \in Logouts : WF_sessionVars(LogoutStep(o))

-----------------------------------------------------------------------------
\* The cache is never ahead of the database: a key, or a token in the hands of
\* a client, stands for a row, also when createSession dies half way.
DurableFirst == (ttl > 0 \/ login = "token") => row # "absent"

\* A session is refused only for cause: it is revoked or expired, or a store
\* failed in this very validation, which validateSession answers alike
\* (session.ts:109-112).  No eviction, no failed logout, no failure of another
\* validation and no race is a cause.
InvalidForCause ==
  \A v \in Validations :
    check[v] = "invalid" => row = "revoked" \/ left = 0 \/ v \in broken

\* Once over, for good: no later validation brings the key back.
OverForGood == [][Over => Over']_sessionVars

\* Every variable has its type, and
\* a validation that begins when the session is over does not answer "valid",
\* whatever validations and logouts run beside it.  (Success of a logout, or the
\* passing of expiresAt, is not enough: a validation that has read the row
\* before writes the key again, and a key that is there is not compared with
\* expiresAt.)
LateIsRefused == SessionTypeOK /\ \A v \in late : check[v] # "valid"

\* A revocation and an expiry reach that point, also when the logout failed after
\* the row was written, or when a validation wrote the key again behind it: what
\* is left in the cache runs out, and nothing renews it.
EndTakesHold == Ended ~> []Over
=============================================================================
