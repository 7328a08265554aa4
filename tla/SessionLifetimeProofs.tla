----------------------- MODULE SessionLifetimeProofs ------------------------
(***************************************************************************)
(* Proofs about SessionLifetime for every length of a second, all accepted *)
(* lifetimes and every set of requests.                                    *)
(***************************************************************************)
EXTENDS SessionLifetime, FiniteSetTheorems, TLAPS

-----------------------------------------------------------------------------
(* Arithmetic *)

\* Factors that do not decrease do not decrease a product.
LEMMA ProductMonotonic ==
  ASSUME NEW k \in Nat, NEW m \in Nat, NEW n \in Nat, m <= n
  PROVE  k * m \in Nat /\ k * m <= k * n
OBVIOUS

\* A time rounded up to seconds is at least the time, and less than a second more.
LEMMA CeilingBounds ==
  ASSUME NEW t \in Nat
  PROVE  /\ Ceiling(t) \in Nat
         /\ t <= Second * Ceiling(t)
         /\ Second * Ceiling(t) < t + Second
BY LifetimeAssumption DEF Ceiling
-----------------------------------------------------------------------------
(* Types *)

\* What every renewal gives a key: a second or more, the idle lifetime or less;
\* of a signed-in session, all that is left of it, and less than a second more.
LEMMA RemainingTtlBounds ==
  ASSUME config \in [idleTtl : Seconds, absoluteTtl : Seconds],
         signedIn \in BOOLEAN, absolute \in Ticks
  PROVE  /\ RemainingTtl \in 0 .. Idle
         /\ Idle \in Nat /\ Second <= RemainingTtl
         /\ ~ signedIn => RemainingTtl = Idle
         /\ signedIn => /\ RemainingTtl = Idle \/ RemainingTtl >= absolute
                        /\ RemainingTtl < absolute + Second \/ RemainingTtl = Second
<1> DEFINE c   == Ceiling(absolute)
           ttl == IF signedIn THEN CappedTtl(c) ELSE config.idleTtl
<1>1. /\ absolute \in Nat /\ Second \in Nat \ {0} /\ MaxSeconds \in Nat
      /\ config.idleTtl \in Nat \ {0}
  <2>1. MaxSeconds * Second \in Nat
    BY LifetimeAssumption
  <2> QED
    BY <2>1, LifetimeAssumption DEF Ticks, Seconds
<1>2. c \in Nat /\ absolute <= Second * c /\ Second * c < absolute + Second
  BY <1>1, CeilingBounds
<1>3. /\ ttl \in Nat \ {0} /\ ttl <= config.idleTtl
      /\ ~ signedIn => ttl = config.idleTtl
      /\ signedIn => /\ ttl = config.idleTtl \/ ttl >= c
                     /\ ttl <= c \/ ttl = 1
  <2> HIDE DEF c
  <2> QED
    BY <1>1, <1>2 DEF CappedTtl, Least, Greatest
<1>4. RemainingTtl = Second * ttl /\ Idle = Second * config.idleTtl
  BY <1>1 DEF RemainingTtl, Idle
<1> HIDE DEF c, ttl
<1>5. /\ Second * ttl \in Nat /\ Second * ttl <= Second * config.idleTtl
      /\ Second * config.idleTtl \in Nat
  BY <1>1, <1>3, ProductMonotonic
<1>6. Second * 1 = Second /\ Second <= Second * ttl
  BY <1>1, <1>3, ProductMonotonic
<1>7. ttl >= c => Second * ttl >= Second * c
  BY <1>1, <1>2, <1>3, ProductMonotonic
<1>8. ttl <= c => Second * ttl <= Second * c
  BY <1>1, <1>2, <1>3, ProductMonotonic
<1>9. Second * c \in Nat
  BY <1>1, <1>2
<1> QED
  BY <1>1, <1>2, <1>3, <1>4, <1>5, <1>6, <1>7, <1>8, <1>9

\* The initial states have the types.
LEMMA TypeInit == Init => TypeOK
<1> SUFFICES ASSUME Init
             PROVE  TypeOK
  OBVIOUS
<1>1. /\ config \in [idleTtl : Seconds, absoluteTtl : Seconds] /\ Accepted(config)
      /\ signedIn \in BOOLEAN
      /\ config.absoluteTtl \in Seconds
  BY DEF Init
<1>2. absolute \in Ticks
  BY <1>1, LifetimeAssumption, ProductMonotonic DEF Init, Seconds, Ticks
<1>3. key \in 0 .. Idle /\ Idle \in Nat
  BY <1>1, <1>2, RemainingTtlBounds DEF Init
<1> QED
  BY <1>1, <1>2, <1>3 DEF Init, TypeOK, Phases

\* A renewal renews, and another step of a request leaves the key or drops it.
LEMMA NextCases ==
  ASSUME [Next]_vars
  PROVE  \/ Tick
         \/ \E r \in Requests : Renew(r)
         \/ /\ UNCHANGED <<config, signedIn, absolute, unused>>
            /\ phase' = phase \/ \E r \in Requests, p \in Phases : Goto(r, p)
            /\ key' = key \/ (Expired /\ key' = 0)
BY DEF Next, vars, Load, DestroyExpired, Admit, Finish, Refuse, Touch,
       TouchNothing, Save, Phases

\* Every step keeps the types.
LEMMA TypeStep == TypeOK /\ [Next]_vars => TypeOK'
<1> SUFFICES ASSUME TypeOK, [Next]_vars
             PROVE  TypeOK'
  OBVIOUS
<1>1. /\ RemainingTtl \in 0 .. Idle /\ Idle \in Nat
      /\ MaxSeconds * Second \in Nat
  BY RemainingTtlBounds, LifetimeAssumption DEF TypeOK
<1>2. CASE Tick
  BY <1>1, <1>2 DEF TypeOK, Tick, LessOne, Least, Idle, Ticks
<1>3. ASSUME NEW r \in Requests, Renew(r)
      PROVE  TypeOK'
  BY <1>1, <1>3 DEF TypeOK, Renew, Goto, Phases, Idle
<1>4. CASE /\ UNCHANGED <<config, signedIn, absolute, unused>>
           /\ phase' = phase \/ \E r \in Requests, p \in Phases : Goto(r, p)
           /\ key' = key \/ (Expired /\ key' = 0)
  BY <1>1, <1>4 DEF TypeOK, Goto, Idle
<1> QED
  BY <1>2, <1>3, <1>4, NextCases

\* SessionLifetime.TypeOK, for every instance.
THEOREM TypeCorrect == Spec => []TypeOK
BY TypeInit, TypeStep, PTL DEF Spec
-----------------------------------------------------------------------------
(* The absolute lifetime *)

\* Each step keeps the key within its bound: only a renewal raises
\* it, and RemainingTtl looks at what is left.
LEMMA CapStep == TypeOK /\ CappedByAbsolute /\ [Next]_vars => CappedByAbsolute'
<1> SUFFICES ASSUME TypeOK, CappedByAbsolute, [Next]_vars
             PROVE  CappedByAbsolute'
  OBVIOUS
<1> USE DEF CappedByAbsolute
<1>1. key \in Nat /\ absolute \in Nat /\ Second \in Nat \ {0}
  <2>1. MaxSeconds * Second \in Nat
    BY LifetimeAssumption
  <2> QED
    BY <2>1, LifetimeAssumption, RemainingTtlBounds DEF TypeOK, Ticks
<1>2. CASE Tick
  BY <1>1, <1>2 DEF Tick, LessOne
<1>3. ASSUME NEW r \in Requests, Renew(r)
      PROVE  CappedByAbsolute'
  BY <1>3, RemainingTtlBounds DEF Renew, TypeOK
<1>4. CASE /\ UNCHANGED <<config, signedIn, absolute, unused>>
           /\ phase' = phase \/ \E r \in Requests, p \in Phases : Goto(r, p)
           /\ key' = key \/ (Expired /\ key' = 0)
  BY <1>1, <1>4
<1> QED
  BY <1>2, <1>3, <1>4, NextCases

\* While the absolute lifetime lasts the key has less than a second more than is
\* left of it, and after that a second at most.  How often a response can still
\* give it that second is ExpiredSessionsRunOut's matter.
THEOREM AbsoluteLifetimeKept == Spec => []CappedByAbsolute
<1>1. Init => CappedByAbsolute
  <2> SUFFICES ASSUME Init, signedIn
               PROVE  key < absolute + Second \/ key <= Second
    BY DEF CappedByAbsolute
  <2>1. Second \in Nat
    BY LifetimeAssumption
  <2> QED
    BY <2>1, TypeInit, RemainingTtlBounds DEF Init, TypeOK
<1> QED
  BY <1>1, CapStep, TypeCorrect, PTL DEF Spec

\* Of an expired session, the requests under way only become fewer, and one that
\* renews the key is one of them; otherwise the key does not grow.
LEMMA ExpiredCases ==
  ASSUME TypeOK, [Next]_vars, Expired
  PROVE  /\ Open' \subseteq Open
         /\ \/ key' \in Nat /\ key' <= key
            \/ key' = Second /\ \E r \in Open : r \notin Open'
<1>1. /\ key \in Nat /\ config.idleTtl \in Nat \ {0}
  BY RemainingTtlBounds DEF TypeOK, Seconds
<1>2. CASE Tick
  BY <1>1, <1>2 DEF Tick, LessOne, Open
<1>3. ASSUME NEW r \in Requests, phase[r] \in {"loaded", "served"}, Renew(r)
      PROVE  /\ Open' \subseteq Open
             /\ key' = Second /\ \E q \in Open : q \notin Open'
  <2>1. RemainingTtl = Second
    <3>1. Ceiling(absolute) = 0
      BY LifetimeAssumption DEF Expired, Ceiling
    <3>2. CappedTtl(0) = 1
      BY <1>1 DEF CappedTtl, Greatest, Least
    <3> QED
      BY <3>1, <3>2, LifetimeAssumption DEF RemainingTtl, Expired
  <2>2. /\ r \in Open /\ r \notin Open'
        /\ Open' \subseteq Open
    BY <1>3 DEF Renew, Goto, Open, TypeOK
  <2> QED
    BY <1>3, <2>1, <2>2 DEF Renew
<1>4. ASSUME NEW r \in Requests, NEW p \in Phases, Goto(r, p), phase[r] # "idle" \/ p = "idle",
             key' = key \/ key' = 0
      PROVE  Open' \subseteq Open /\ key' \in Nat /\ key' <= key
  BY <1>1, <1>4 DEF Goto, Open, TypeOK
<1>5. CASE UNCHANGED phase /\ (key' = key \/ key' = 0)
  BY <1>1, <1>5 DEF Open
<1>6. \/ Tick
      \/ \E r \in Requests : phase[r] \in {"loaded", "served"} /\ Renew(r)
      \/ \E r \in Requests : \E p \in Phases :
           /\ Goto(r, p) /\ (phase[r] # "idle" \/ p = "idle")
           /\ key' = key \/ key' = 0
      \/ UNCHANGED phase /\ (key' = key \/ key' = 0)
  BY DEF Next, vars, Load, DestroyExpired, Admit, Finish, Refuse, Touch,
         TouchNothing, Save, Phases
<1> QED
  BY <1>2, <1>3, <1>4, <1>5, <1>6

\* After the absolute lifetime a session is there for no longer than its key then
\* was, and a second for each request that was under way.
THEOREM ExpiredSessionsRunOut == Spec => ExpiredRunsOut
<1>1. ASSUME TypeOK, [Next]_vars, Expired
      PROVE  TimeLeft' <= TimeLeft
  <2> DEFINE n == Cardinality(Open)
             m == Cardinality(Open')
  <2>1. key \in Nat /\ Second \in Nat
    BY <1>1, LifetimeAssumption, RemainingTtlBounds DEF TypeOK
  <2>2. IsFiniteSet(Open) /\ n \in Nat
    BY LifetimeAssumption, FS_Subset, FS_CardinalityType DEF Open
  <2>3. Open' \subseteq Open
    BY <1>1, ExpiredCases
  <2>4. m \in Nat /\ m <= n /\ (Open' # Open => m < n)
    BY <2>2, <2>3, FS_Subset, FS_CardinalityType
  <2>5. TimeLeft = key + Second * n /\ TimeLeft' = key' + Second * m
    BY LifetimeAssumption DEF TimeLeft
  <2> HIDE DEF n, m
  <2>6. CASE key' \in Nat /\ key' <= key
    <3>1. Second * m \in Nat /\ Second * m <= Second * n /\ Second * n \in Nat
      BY <2>1, <2>2, <2>4, ProductMonotonic
    <3> QED
      BY <2>1, <2>5, <2>6, <3>1
  <2>7. CASE key' = Second /\ Open' # Open
    <3>1. /\ Second * (m + 1) \in Nat /\ Second * (m + 1) <= Second * n
          /\ Second * n \in Nat /\ Second * m \in Nat
      BY <2>1, <2>2, <2>4, <2>7, ProductMonotonic
    <3>2. Second * (m + 1) = Second + Second * m
      BY <2>1, <2>4
    <3> QED
      BY <2>1, <2>5, <2>7, <3>1, <3>2
  <2> QED
    BY <1>1, <2>6, <2>7, ExpiredCases
<1>2. TypeOK /\ [Next]_vars => [Expired => TimeLeft' <= TimeLeft]_vars
  BY <1>1
<1> QED
  BY <1>2, TypeCorrect, PTL DEF Spec, ExpiredRunsOut
-----------------------------------------------------------------------------
(* Never short of the idle lifetime *)

\* The key and the time without a renewal make up the idle lifetime, or the key
\* lasts as long as the session may.  UsedSessionKept alone says nothing of how
\* long a key is still there.
KeyLasts == key + unused >= Idle \/ (signedIn /\ key >= absolute)

\* Each step keeps that: a tick takes from one what it adds to the other, and
\* only expired sessions are destroyed.
LEMMA LastsStep == TypeOK /\ KeyLasts /\ [Next]_vars => KeyLasts'
<1> SUFFICES ASSUME TypeOK, KeyLasts, [Next]_vars
             PROVE  KeyLasts'
  OBVIOUS
<1>1. /\ key \in Nat /\ absolute \in Nat /\ Idle \in Nat
      /\ unused \in Nat /\ unused <= Idle
  <2>1. MaxSeconds * Second \in Nat
    BY LifetimeAssumption
  <2> QED
    BY <2>1, LifetimeAssumption, RemainingTtlBounds DEF TypeOK, Ticks
<1>2. Idle' = Idle
  BY NextCases DEF Tick, Renew, Idle
<1>3. CASE Tick
  BY <1>1, <1>2, <1>3 DEF KeyLasts, Tick, LessOne, Least
<1>4. ASSUME NEW r \in Requests, Renew(r)
      PROVE  KeyLasts'
  BY <1>1, <1>2, <1>4, RemainingTtlBounds DEF KeyLasts, Renew, TypeOK
<1>5. CASE /\ UNCHANGED <<config, signedIn, absolute, unused>>
           /\ phase' = phase \/ \E r \in Requests, p \in Phases : Goto(r, p)
           /\ key' = key \/ (Expired /\ key' = 0)
  BY <1>1, <1>2, <1>5 DEF KeyLasts, Expired
<1> QED
  BY <1>3, <1>4, <1>5, NextCases

\* A session that is used within the idle lifetime is there until its absolute
\* lifetime ends, in whatever order responses renew it.
THEOREM UseKeepsSession == Spec => []UsedSessionKept
<1>1. Init => KeyLasts
  <2> SUFFICES ASSUME Init
               PROVE  KeyLasts
    OBVIOUS
  <2>1. /\ absolute \in Nat /\ Idle \in Nat
        /\ ~ signedIn => key = Idle
        /\ signedIn => key = Idle \/ key >= absolute
    <3>1. MaxSeconds * Second \in Nat
      BY LifetimeAssumption
    <3> QED
      BY <3>1, TypeInit, RemainingTtlBounds DEF Init, TypeOK, Ticks
  <2> QED
    BY <2>1, TypeInit DEF Init, KeyLasts, TypeOK
<1>2. TypeOK /\ KeyLasts => UsedSessionKept
  <2> SUFFICES ASSUME TypeOK, KeyLasts, unused < Idle, ~ Expired
               PROVE  key > 0
    BY DEF UsedSessionKept
  <2>1. key \in Nat /\ absolute \in Nat /\ Idle \in Nat /\ unused \in Nat
    <3>1. MaxSeconds * Second \in Nat
      BY LifetimeAssumption
    <3> QED
      BY <3>1, RemainingTtlBounds DEF TypeOK, Ticks
  <2> QED
    BY <2>1 DEF KeyLasts, Expired
<1> QED
  BY <1>1, <1>2, LastsStep, TypeCorrect, PTL DEF Spec
=============================================================================
