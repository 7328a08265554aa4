--------------------------- MODULE AbuseProtection ---------------------------
(***************************************************************************)
(* The abuse limits of one public flow: a counter per network address and  *)
(* one per account, each a Redis key that is counted up by every attempt,  *)
(* refused ones included, and expires a window after its first.  A         *)
(* verification request also takes the account's cooldown; a login that    *)
(* succeeds deletes the account's counter.                                 *)
(*                                                                         *)
(* A Lua script is one action: Redis runs nothing in between, and no time  *)
(* passes.  Time is counted in ticks, TicksPerSecond of them to a second,  *)
(* for Redis has milliseconds where Retry-After has whole seconds.  A key  *)
(* is kept as its remaining ticks, 0 when it does not exist.               *)
(***************************************************************************)
EXTENDS Naturals, FiniteSets

CONSTANTS
  Clients,          \* callers, each with one request at a time
  Addresses,        \* what requestIpAddress returns
  Accounts,         \* normalised e-mail addresses
  AddressLimit, AccountLimit,      \* ipLimit and identifierLimit
  AddressWindow, AccountWindow,    \* their windows, in seconds
  Cooldown,         \* resendCooldown, in seconds
  TicksPerSecond

ASSUME KeysAssumption ==
  Addresses \cap Accounts = {} /\ "cooldown" \notin Addresses \cup Accounts

\* Every setting is a positiveInteger.
ASSUME SettingsAssumption ==
  {AddressLimit, AccountLimit, AddressWindow, AccountWindow, Cooldown,
   TicksPerSecond} \subseteq Nat \ {0}

VARIABLES
  flow,      \* the flow: their key prefixes keep the flows apart
  count,     \* count[k]: the counter of key k
  ttl,       \* ttl[k]: its PTTL
  cooldown,  \* cooldown[x]: the PTTL of the cooldown of account x
  pc,        \* pc[c]: what client c is doing
  account,   \* account[c]: the account of its request
  advice,    \* advice[c]: what is left of its Retry-After
  blockers,  \* blockers[c]: the keys that refused it and still run
  watched,   \* the key whose admissions are recorded
  ages       \* ages[i]: how long ago its i-th last admission was

keys    == <<count, ttl, cooldown>>
clients == <<pc, account, advice, blockers>>
vars    == <<flow, keys, clients, watched, ages>>

Flows == {"login", "verificationRequest"}   \* the others count and nothing more
Keys  == Addresses \cup Accounts

Limit(k)  == IF k \in Addresses THEN AddressLimit ELSE AccountLimit
Window(k) == TicksPerSecond * (IF k \in Addresses THEN AddressWindow ELSE AccountWindow)
CooldownTicks == TicksPerSecond * Cooldown

Largest(S) == CHOOSE n \in S : \A m \in S : m <= n

\* How many admissions are recorded, and how far back: what is longer ago, or was
\* never, is Horizon ago.
Recorded == 2 * Largest({AddressLimit, AccountLimit}) + 1
Horizon  == TicksPerSecond * Largest({AddressWindow, AccountWindow, Cooldown})
Never    == [i \in 1 .. Recorded |-> Horizon]
-----------------------------------------------------------------------------
(* The scripts *)

\* INCR; counts above the limit are all alike.
Counted(k) == IF count[k] > Limit(k) THEN count[k] ELSE count[k] + 1

\* Mutation: PEXPIRE after every INCR.
ExpiryAlwaysRenewed(k) == Window(k)

\* Mutation: PEXPIRE left to a second call, which fails.
ExpiryForgotten(k) == ttl[k]

\* PEXPIRE if the INCR created the counter.
Expiry(k) == IF Counted(k) = 1 THEN Window(k) ELSE ttl[k]

\* Mutation: what SET NX answered is ignored.
CooldownAlwaysGranted(x) == TRUE

\* SET NX PX
CooldownGranted(x) == flow # "verificationRequest" \/ cooldown[x] = 0

\* The keys of an attempt after its script.
Consume(a, x) ==
  /\ count' = [k \in Keys |-> IF k \in {a, x} THEN Counted(k) ELSE count[k]]
  /\ ttl' = [k \in Keys |-> IF k \in {a, x} THEN Expiry(k) ELSE ttl[k]]
  /\ cooldown' = IF flow = "verificationRequest" /\ cooldown[x] = 0
                 THEN [cooldown EXCEPT ![x] = CooldownTicks] ELSE cooldown
-----------------------------------------------------------------------------
(* The answer *)

\* Mutation: the last request within the limit is counted out by one.
BlockedLate(k) == Counted(k) >= Limit(k) + 2

Blocked(k) == Counted(k) > Limit(k)

Blockers(a, x) == {k \in {a, x} : Blocked(k)}

Admits(a, x) == Blockers(a, x) = {} /\ CooldownGranted(x)

\* Mutation: seconds rounded down.
RoundedDown(ticks) == Largest({1, ticks \div TicksPerSecond})

\* Retry-After: whole seconds, at least one.
WholeSeconds(ticks) ==
  Largest({1, (ticks + TicksPerSecond - 1) \div TicksPerSecond})

RetryAfter(a, x) ==
  WholeSeconds(Largest({Expiry(k) : k \in Blockers(a, x)} \cup
                       (IF CooldownGranted(x) THEN {} ELSE {cooldown[x]})))
-----------------------------------------------------------------------------
(* Clients *)

Init ==
  /\ flow \in Flows
  /\ count = [k \in Keys |-> 0]
  /\ ttl = [k \in Keys |-> 0]
  /\ cooldown = [x \in Accounts |-> 0]
  /\ pc = [c \in Clients |-> "idle"]
  /\ account \in [Clients -> Accounts]
  /\ advice = [c \in Clients |-> 0]
  /\ blockers = [c \in Clients |-> {}]
  /\ watched \in Keys
  /\ ages = Never

Admit(c) ==
  /\ pc[c] = "idle"
  /\ \E a \in Addresses, x \in Accounts :
       /\ Admits(a, x)
       /\ Consume(a, x)
       /\ account' = [account EXCEPT ![c] = x]
       /\ ages' = IF watched \in {a, x}
                  THEN [i \in 1 .. Recorded |-> IF i = 1 THEN 0 ELSE ages[i - 1]]
                  ELSE ages
  /\ pc' = [pc EXCEPT ![c] = "admitted"]
  /\ UNCHANGED <<flow, advice, blockers, watched>>

Refuse(c) ==
  /\ pc[c] = "idle"
  /\ \E a \in Addresses, x \in Accounts :
       /\ ~ Admits(a, x)
       /\ Consume(a, x)
       /\ account' = [account EXCEPT ![c] = x]
       /\ advice' = [advice EXCEPT ![c] = TicksPerSecond * RetryAfter(a, x)]
       /\ blockers' = [blockers EXCEPT ![c] =
            Blockers(a, x) \cup (IF CooldownGranted(x) THEN {} ELSE {"cooldown"})]
  /\ pc' = [pc EXCEPT ![c] = "refused"]
  /\ UNCHANGED <<flow, watched, ages>>

\* Redis does not answer: 503, whether or not the attempt was counted.
FailClosed(c) ==
  /\ pc[c] = "idle"
  /\ \E a \in Addresses, x \in Accounts : Consume(a, x)
  /\ UNCHANGED <<flow, clients, watched, ages>>

\* resetLoginAfterSuccess: the account starts anew.
Succeed(c) ==
  /\ pc[c] = "admitted" /\ flow = "login"
  /\ count' = [count EXCEPT ![account[c]] = 0]
  /\ ttl' = [ttl EXCEPT ![account[c]] = 0]
  /\ blockers' = [d \in Clients |-> blockers[d] \ {account[c]}]
  /\ ages' = IF watched = account[c] THEN Never ELSE ages
  /\ pc' = [pc EXCEPT ![c] = "idle"]
  /\ UNCHANGED <<flow, cooldown, account, advice, watched>>

\* A wrong password, a failing reset, or a request with nothing to reset.
Finish(c) ==
  /\ pc[c] = "admitted"
  /\ pc' = [pc EXCEPT ![c] = "idle"]
  /\ UNCHANGED <<flow, keys, account, advice, blockers, watched, ages>>

\* A refused client comes back, whatever it was told.
Return(c) ==
  /\ pc[c] = "refused"
  /\ pc' = [pc EXCEPT ![c] = "idle"]
  /\ advice' = [advice EXCEPT ![c] = 0]
  /\ blockers' = [blockers EXCEPT ![c] = {}]
  /\ UNCHANGED <<flow, keys, account, watched, ages>>
-----------------------------------------------------------------------------
(* Time *)

Left(n) == IF n = 0 THEN 0 ELSE n - 1

\* A blocker that expires is one no more, even if its key is counted again.
StillRuns(c, k) == IF k = "cooldown" THEN cooldown[account[c]] > 1 ELSE ttl[k] > 1

Tick ==
  /\ ttl' = [k \in Keys |-> Left(ttl[k])]
  /\ count' = [k \in Keys |-> IF ttl[k] = 1 THEN 0 ELSE count[k]]
  /\ cooldown' = [x \in Accounts |-> Left(cooldown[x])]
  /\ advice' = [c \in Clients |-> Left(advice[c])]
  /\ blockers' = [c \in Clients |-> {k \in blockers[c] : StillRuns(c, k)}]
  /\ ages' = [i \in 1 .. Recorded |-> IF ages[i] = Horizon THEN Horizon ELSE ages[i] + 1]
  /\ UNCHANGED <<flow, pc, account, watched>>

Next ==
  \/ \E c \in Clients :
       Admit(c) \/ Refuse(c) \/ FailClosed(c) \/ Succeed(c) \/ Finish(c) \/ Return(c)
  \/ Tick

Spec == Init /\ [][Next]_vars

FairSpec == Spec /\ WF_vars(Tick)
-----------------------------------------------------------------------------
(* Safety *)

\* Every key that counts is going to expire: none was created without it.
TypeOK ==
  /\ flow \in Flows
  /\ count \in [Keys -> Nat] /\ ttl \in [Keys -> Nat]
  /\ \A k \in Keys : count[k] <= Limit(k) + 1 /\ ttl[k] \in 0 .. Window(k)
  /\ \A k \in Keys : count[k] = 0 <=> ttl[k] = 0
  /\ cooldown \in [Accounts -> 0 .. CooldownTicks]
  /\ pc \in [Clients -> {"idle", "admitted", "refused"}]
  /\ account \in [Clients -> Accounts]
  /\ advice \in [Clients -> Nat]
  /\ blockers \in [Clients -> SUBSET (Keys \cup {"cooldown"})]
  /\ watched \in Keys
  /\ ages \in [1 .. Recorded -> 0 .. Horizon]

\* In no span of one window, wherever it begins, are more than twice the limit
\* admitted for a key (since the account last signed in), however the attempts,
\* lost answers and resets of several clients overlap.
LimitHolds == ages[2 * Limit(watched) + 1] >= Window(watched)

\* An account is sent at most one verification mail in any span of the cooldown.
MailsSpaced ==
  flow = "verificationRequest" /\ watched \in Accounts
    => ages[2] >= CooldownTicks

\* Whoever waits for as long as Retry-After said finds none of the windows that
\* refused it still running.
RetryAfterSuffices ==
  \A c \in Clients :
    /\ \A k \in blockers[c] \ {"cooldown"} : ttl[k] <= advice[c]
    /\ "cooldown" \in blockers[c] => cooldown[account[c]] <= advice[c]
-----------------------------------------------------------------------------
(* Liveness *)

\* No counter and no cooldown lasts, even if the refused never stop trying.
BlocksEnd ==
  /\ \A k \in Keys : count[k] > Limit(k) ~> count[k] = 0
  /\ \A x \in Accounts : cooldown[x] > 0 ~> cooldown[x] = 0
=============================================================================
