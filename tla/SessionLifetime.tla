-------------------------- MODULE SessionLifetime ---------------------------
(***************************************************************************)
(* How long one session lives in Redis while its browser keeps using it:   *)
(* every response renews the key's time to live (rolling), which is the    *)
(* idle lifetime of the configuration, capped by what is left of the       *)
(* session's absolute lifetime.                                            *)
(*                                                                         *)
(* Times are what is left of them, in ticks, and a tick takes one from     *)
(* each.  Redis counts in whole seconds.  A session that is logged out or  *)
(* revoked is Identity's matter.                                           *)
(***************************************************************************)
EXTENDS Naturals, FiniteSets

CONSTANTS
  Requests,    \* those the browser has open at a time
  Second,      \* ticks in a second
  MaxSeconds   \* bound: of a configured lifetime

ASSUME LifetimeAssumption ==
  /\ IsFiniteSet(Requests)
  /\ Second \in Nat \ {0} /\ MaxSeconds \in Nat \ {0}

VARIABLES
  config,     \* the configured lifetimes, in seconds
  signedIn,   \* whether the session has a user, and so an absolute lifetime
  key,        \* ticks until Redis drops the key: 0 once it has
  absolute,   \* ticks until absoluteExpiresAt, if signedIn
  unused,     \* ticks since a response renewed the key, no more than idle
  phase       \* phase[r]: "idle", "loaded" or "served"

vars == <<config, signedIn, key, absolute, unused, phase>>

Seconds == 1 .. MaxSeconds
Ticks   == 0 .. MaxSeconds * Second
Phases  == {"idle", "loaded", "served"}

\* buildSessionConfiguration
Accepted(c) == c.absoluteTtl >= c.idleTtl

Least(a, b)    == IF a < b THEN a ELSE b
Greatest(a, b) == IF a > b THEN a ELSE b
LessOne(t)     == IF t = 0 THEN 0 ELSE t - 1

Idle == config.idleTtl * Second

\* Mutation: seconds that have begun are dropped.
Floor(t) == t \div Second

\* Math.ceil
Ceiling(t) == (t + Second - 1) \div Second

\* Mutation: the absolute lifetime is not looked at.
UncappedTtl(s) == config.idleTtl

\* Mutation: the idle lifetime is not looked at.
AbsoluteTtl(s) == Greatest(1, s)

\* What is left of a signed-in session, in seconds: at least one.
CappedTtl(s) == Greatest(1, Least(config.idleTtl, s))

\* remainingSessionTtlSeconds, in ticks
RemainingTtl ==
  Second * (IF signedIn THEN CappedTtl(Ceiling(absolute)) ELSE config.idleTtl)
-----------------------------------------------------------------------------
(* establishAuthenticatedSession, or the save of a CSRF token *)
Init ==
  /\ config \in [idleTtl : Seconds, absoluteTtl : Seconds] /\ Accepted(config)
  /\ signedIn \in BOOLEAN
  /\ absolute = config.absoluteTtl * Second
  /\ key = RemainingTtl
  /\ unused = 0
  /\ phase = [r \in Requests |-> "idle"]

Tick ==
  /\ key' = LessOne(key)
  /\ absolute' = IF signedIn THEN LessOne(absolute) ELSE absolute
  /\ unused' = Least(unused + 1, Idle)
  /\ UNCHANGED <<config, signedIn, phase>>

Goto(r, p) == phase' = [phase EXCEPT ![r] = p]

\* Mutation: the expiry middleware and the guard let everything pass.
NeverExpired == signedIn /\ absolute < 0

\* absolute-session-expiry.middleware and SessionAuthGuard
Expired == signedIn /\ absolute = 0

\* Mutation: an expired session is loaded as any other.
LoadExpired(r) ==
  /\ phase[r] = "idle"
  /\ key > 0
  /\ Goto(r, "loaded")
  /\ UNCHANGED <<config, signedIn, key, absolute, unused>>

\* The session middleware finds the key, and the expiry middleware nothing wrong.
Load(r) ==
  /\ phase[r] = "idle"
  /\ key > 0 /\ ~ Expired
  /\ Goto(r, "loaded")
  /\ UNCHANGED <<config, signedIn, key, absolute, unused>>

\* The expiry middleware destroys the session; the request goes on without one.
DestroyExpired(r) ==
  /\ phase[r] = "idle"
  /\ key > 0 /\ Expired
  /\ key' = 0
  /\ UNCHANGED <<config, signedIn, absolute, unused, phase>>

\* SessionAuthGuard looks again, some time later.
Admit(r) ==
  /\ phase[r] = "loaded" /\ ~ Expired
  /\ Goto(r, "served")
  /\ UNCHANGED <<config, signedIn, key, absolute, unused>>

Refuse(r) ==
  /\ phase[r] = "loaded" /\ Expired
  /\ Goto(r, "idle")
  /\ key' = 0
  /\ UNCHANGED <<config, signedIn, absolute, unused>>

Renew(r) ==
  /\ key' = RemainingTtl
  /\ unused' = 0
  /\ Goto(r, "idle")
  /\ UNCHANGED <<config, signedIn, absolute>>

\* The response ends.  A session that was not changed is touched: EXPIRE does
\* nothing to a key that is gone.  A public route is not seen by the guard.
Touch(r) ==
  /\ phase[r] \in {"loaded", "served"}
  /\ key > 0
  /\ Renew(r)

TouchNothing(r) ==
  /\ phase[r] \in {"loaded", "served"}
  /\ key = 0
  /\ Goto(r, "idle")
  /\ UNCHANGED <<config, signedIn, key, absolute, unused>>

\* One that was, by a CSRF token, is saved, and the key is there again.
Save(r) ==
  /\ phase[r] \in {"loaded", "served"}
  /\ Renew(r)

Finish(r) == Refuse(r) \/ Touch(r) \/ TouchNothing(r) \/ Save(r)

Next ==
  \/ Tick
  \/ \E r \in Requests : Load(r) \/ DestroyExpired(r) \/ Admit(r) \/ Finish(r)

\* Time goes on, and every request is answered.
Spec ==
  /\ Init /\ [][Next]_vars
  /\ WF_vars(Tick)
  /\ \A r \in Requests : WF_vars(Finish(r))
-----------------------------------------------------------------------------
(* Correctness *)

TypeOK ==
  /\ config \in [idleTtl : Seconds, absoluteTtl : Seconds] /\ Accepted(config)
  /\ signedIn \in BOOLEAN
  /\ key \in 0 .. Idle
  /\ absolute \in Ticks
  /\ unused \in 0 .. Idle
  /\ phase \in [Requests -> Phases]

\* While its absolute lifetime lasts, rolling never gives a session's key a second
\* more than is left of it; after that, late responses give it a second at most.
CappedByAbsolute ==
  signedIn => key < absolute + Second \/ key <= Second

\* The requests whose response may still renew the key.
Open == {r \in Requests : phase[r] # "idle"}

\* The longest time the key may still be there once its session has expired.
TimeLeft == key + Second * Cardinality(Open)

\* Those late responses do not go on forever: after the absolute lifetime each
\* request that was then under way renews the key at most once, for a second,
\* and no other request takes its place.
ExpiredRunsOut == [][Expired => TimeLeft' <= TimeLeft]_vars

\* Nor does it fall short: as long as the session was used within the idle
\* lifetime, in the order its responses happened to end, and its absolute
\* lifetime lasts, it is there.
UsedSessionKept ==
  unused < Idle /\ ~ Expired => key > 0

\* A signed-in session ends for good, however long its browser keeps it busy.
SignedInSessionEnds == <>[](signedIn => key = 0)
=============================================================================
