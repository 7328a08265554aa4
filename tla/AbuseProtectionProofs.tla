----------------------- MODULE AbuseProtectionProofs ------------------------
(***************************************************************************)
(* Proofs about AbuseProtection, for every set of clients, addresses and   *)
(* accounts and every setting.                                             *)
(***************************************************************************)
EXTENDS AbuseProtection, TLAPS

-----------------------------------------------------------------------------
(* Settings *)

LEMMA LargestOfThree ==
  ASSUME NEW a \in Nat, NEW b \in Nat, NEW c \in Nat,
         NEW S, S \subseteq {a, b, c}, S # {}
  PROVE  Largest(S) \in S /\ \A m \in S : m <= Largest(S)
<1>1. \E n \in S : \A m \in S : m <= n
  <2>1. \A m \in S : m = a \/ m = b \/ m = c
    OBVIOUS
  <2>2. CASE a \in S /\ (b \in S => b <= a) /\ (c \in S => c <= a)
    BY <2>1, <2>2
  <2>3. CASE b \in S /\ (a \in S => a <= b) /\ (c \in S => c <= b)
    BY <2>1, <2>3
  <2>4. CASE c \in S /\ (a \in S => a <= c) /\ (b \in S => b <= c)
    BY <2>1, <2>4
  <2>5. a \in S \/ b \in S \/ c \in S
    BY <2>1
  <2> QED
    BY <2>2, <2>3, <2>4, <2>5
<1> QED
  BY <1>1 DEF Largest

LEMMA Longer ==
  ASSUME NEW t \in Nat, NEW m \in Nat, NEW n \in Nat, m <= n
  PROVE  t * m <= t * n /\ t * m \in Nat
OBVIOUS

LEMMA Positive ==
  ASSUME NEW m \in Nat \ {0}, NEW n \in Nat \ {0}
  PROVE  m * n \in Nat \ {0}
OBVIOUS

\* What is recorded reaches over twice a limit, and over every window.
LEMMA Settings ==
  /\ Recorded \in Nat /\ Recorded >= 3 /\ Horizon \in Nat
  /\ CooldownTicks \in Nat \ {0} /\ CooldownTicks <= Horizon
  /\ \A k \in Keys : /\ Limit(k) \in Nat \ {0} /\ 2 * Limit(k) + 1 <= Recorded
                     /\ Window(k) \in Nat \ {0} /\ Window(k) <= Horizon
<1>1. PICK l : l = Largest({AddressLimit, AccountLimit})
  OBVIOUS
<1>2. PICK w : w = Largest({AddressWindow, AccountWindow, Cooldown})
  OBVIOUS
<1>3. l \in Nat \ {0} /\ AddressLimit <= l /\ AccountLimit <= l
  <2>1. {AddressLimit, AccountLimit} \subseteq {AddressLimit, AccountLimit, AccountLimit}
    OBVIOUS
  <2>2. /\ l \in {AddressLimit, AccountLimit}
        /\ \A m \in {AddressLimit, AccountLimit} : m <= l
    BY <1>1, <2>1, LargestOfThree, SettingsAssumption
  <2> QED
    BY <2>2, SettingsAssumption
<1>4. w \in Nat \ {0} /\ AddressWindow <= w /\ AccountWindow <= w /\ Cooldown <= w
  <2>1. /\ w \in {AddressWindow, AccountWindow, Cooldown}
        /\ \A m \in {AddressWindow, AccountWindow, Cooldown} : m <= w
    BY <1>2, LargestOfThree, SettingsAssumption
  <2> QED
    BY <2>1, SettingsAssumption
<1>5. Recorded = 2 * l + 1 /\ Horizon = TicksPerSecond * w
  BY <1>1, <1>2 DEF Recorded, Horizon
<1>6. Horizon \in Nat \ {0}
  BY <1>4, <1>5, Positive, SettingsAssumption
<1>7. CooldownTicks \in Nat \ {0} /\ CooldownTicks <= Horizon
  BY <1>4, <1>5, Positive, Longer, SettingsAssumption DEF CooldownTicks
<1>8. ASSUME NEW k \in Keys
      PROVE  /\ Limit(k) \in Nat \ {0} /\ 2 * Limit(k) + 1 <= Recorded
             /\ Window(k) \in Nat \ {0} /\ Window(k) <= Horizon
  <2>1. Limit(k) \in Nat \ {0} /\ Limit(k) <= l
    BY <1>3, SettingsAssumption DEF Limit
  <2>2. PICK s \in Nat \ {0} : Window(k) = TicksPerSecond * s /\ s <= w
    BY <1>4, SettingsAssumption DEF Window
  <2>3. Window(k) \in Nat \ {0} /\ Window(k) <= Horizon
    BY <1>4, <1>5, <2>2, Positive, Longer, SettingsAssumption
  <2> QED
    BY <1>3, <1>5, <2>1, <2>3
<1> QED
  BY <1>3, <1>5, <1>6, <1>7, <1>8

\* Seconds, rounded up, are no less than the ticks.
LEMMA WholeSecondsSuffice ==
  ASSUME NEW n \in Nat
  PROVE  WholeSeconds(n) \in Nat /\ n <= TicksPerSecond * WholeSeconds(n)
<1> DEFINE t == TicksPerSecond
           q == (n + t - 1) \div t
<1>1. t \in Nat \ {0} /\ n + t - 1 \in Nat
  BY SettingsAssumption
<1>2. q \in Nat /\ n + t - 1 < t * (q + 1)
  BY <1>1
<1>3. n <= t * q
  BY <1>1, <1>2
<1>4. Largest({1, q}) \in {1, q} /\ q <= Largest({1, q})
  <2>1. {1, q} \subseteq {1, q, q}
    OBVIOUS
  <2> QED
    BY <1>2, <2>1, LargestOfThree
<1>5. t * q <= t * Largest({1, q}) /\ t * Largest({1, q}) \in Nat
  BY <1>1, <1>2, <1>4, Longer
<1> QED
  BY <1>1, <1>2, <1>3, <1>4, <1>5 DEF WholeSeconds
-----------------------------------------------------------------------------
(* Types *)

LEMMA CountedType ==
  ASSUME TypeOK, NEW k \in Keys
  PROVE  /\ Counted(k) \in Nat \ {0} /\ Counted(k) <= Limit(k) + 1
         /\ Expiry(k) \in Nat \ {0} /\ Expiry(k) <= Window(k)
         /\ count[k] # 0 => Expiry(k) = ttl[k]
<1>1. /\ count[k] \in Nat /\ count[k] <= Limit(k) + 1 /\ ttl[k] \in 0 .. Window(k)
      /\ count[k] = 0 <=> ttl[k] = 0
      /\ Limit(k) \in Nat \ {0} /\ Window(k) \in Nat \ {0}
  BY Settings DEF TypeOK
<1>2. Counted(k) \in Nat \ {0} /\ Counted(k) <= Limit(k) + 1
  BY <1>1 DEF Counted
<1>3. Counted(k) = 1 <=> count[k] = 0
  BY <1>1 DEF Counted
<1> QED
  BY <1>1, <1>2, <1>3 DEF Expiry

\* What an attempt leaves in Redis.
LEMMA ConsumeType ==
  ASSUME TypeOK, NEW a \in Addresses, NEW x \in Accounts, Consume(a, x)
  PROVE  /\ count' \in [Keys -> Nat] /\ ttl' \in [Keys -> Nat]
         /\ \A k \in Keys : count'[k] <= Limit(k) + 1 /\ ttl'[k] \in 0 .. Window(k)
         /\ \A k \in Keys : count'[k] = 0 <=> ttl'[k] = 0
         /\ cooldown' \in [Accounts -> 0 .. CooldownTicks]
<1>1. count' \in [Keys -> Nat] /\ ttl' \in [Keys -> Nat]
  BY CountedType DEF Consume, TypeOK
<1>2. ASSUME NEW k \in Keys
      PROVE  /\ count'[k] <= Limit(k) + 1 /\ ttl'[k] \in 0 .. Window(k)
             /\ count'[k] = 0 <=> ttl'[k] = 0
  <2>1. CASE k \in {a, x}
    <3>1. count'[k] = Counted(k) /\ ttl'[k] = Expiry(k)
      BY <2>1 DEF Consume
    <3> QED
      BY <3>1, CountedType, Settings
  <2>2. CASE k \notin {a, x}
    BY <2>2 DEF Consume, TypeOK
  <2> QED
    BY <2>1, <2>2
<1>3. cooldown' \in [Accounts -> 0 .. CooldownTicks]
  BY Settings DEF Consume, TypeOK
<1> QED
  BY <1>1, <1>2, <1>3

\* Whom an attempt is refused, it is told how long what refused it runs.
LEMMA RefusalTold ==
  ASSUME TypeOK, NEW a \in Addresses, NEW x \in Accounts, ~ Admits(a, x)
  PROVE  /\ RetryAfter(a, x) \in Nat /\ TicksPerSecond * RetryAfter(a, x) \in Nat
         /\ \A k \in Blockers(a, x) : Expiry(k) <= TicksPerSecond * RetryAfter(a, x)
         /\ ~ CooldownGranted(x) => cooldown[x] <= TicksPerSecond * RetryAfter(a, x)
<1> DEFINE S == {Expiry(k) : k \in Blockers(a, x)} \cup
                (IF CooldownGranted(x) THEN {} ELSE {cooldown[x]})
<1>1. a \in Keys /\ x \in Keys
  BY DEF Keys
<1>2. Expiry(a) \in Nat /\ Expiry(x) \in Nat /\ cooldown[x] \in Nat
  <2>1. Expiry(a) \in Nat /\ Expiry(x) \in Nat
    BY <1>1, CountedType
  <2>2. cooldown[x] \in 0 .. CooldownTicks
    BY DEF TypeOK
  <2> QED
    BY <2>1, <2>2
<1>3. S \subseteq {Expiry(a), Expiry(x), cooldown[x]} /\ S # {}
  BY DEF Blockers, Admits
<1>4. PICK n : n = Largest(S)
  OBVIOUS
<1>5. n \in Nat /\ \A m \in S : m \in Nat /\ m <= n
  BY <1>2, <1>3, <1>4, LargestOfThree
<1>6. PICK s : s = WholeSeconds(n)
  OBVIOUS
<1>7. s \in Nat /\ n <= TicksPerSecond * s
  BY <1>5, <1>6, WholeSecondsSuffice
<1>8. RetryAfter(a, x) = s
  BY <1>4, <1>6 DEF RetryAfter
<1>9. TicksPerSecond * s \in Nat
  BY <1>7, SettingsAssumption
<1>10. \A m \in S : m <= TicksPerSecond * s
  BY <1>5, <1>7, <1>9
<1> QED
  BY <1>7, <1>8, <1>9, <1>10

LEMMA AgesShift ==
  ASSUME TypeOK
  PROVE  [i \in 1 .. Recorded |-> IF i = 1 THEN 0 ELSE ages[i - 1]]
           \in [1 .. Recorded -> 0 .. Horizon]
BY Settings DEF TypeOK

LEMMA NeverType == Never \in [1 .. Recorded -> 0 .. Horizon]
BY Settings DEF Never

LEMMA TypeStep ==
  ASSUME TypeOK, Next
  PROVE  TypeOK'
<1>1. ASSUME NEW c \in Clients, Admit(c)
      PROVE  TypeOK'
  <2>1. PICK a \in Addresses, x \in Accounts :
          /\ Consume(a, x)
          /\ account' = [account EXCEPT ![c] = x]
          /\ ages' = IF watched \in {a, x}
                     THEN [i \in 1 .. Recorded |-> IF i = 1 THEN 0 ELSE ages[i - 1]]
                     ELSE ages
    BY <1>1 DEF Admit
  <2>2. ages' \in [1 .. Recorded -> 0 .. Horizon]
    BY <2>1, AgesShift DEF TypeOK
  <2>3. account' \in [Clients -> Accounts]
    BY <2>1 DEF TypeOK
  <2>4. pc' \in [Clients -> {"idle", "admitted", "refused"}]
    BY <1>1 DEF Admit, TypeOK
  <2> QED
    BY <1>1, <2>1, <2>2, <2>3, <2>4, ConsumeType DEF Admit, TypeOK, Limit, Window
<1>2. ASSUME NEW c \in Clients, Refuse(c)
      PROVE  TypeOK'
  <2>1. PICK a \in Addresses, x \in Accounts :
          /\ ~ Admits(a, x) /\ Consume(a, x)
          /\ account' = [account EXCEPT ![c] = x]
          /\ advice' = [advice EXCEPT ![c] = TicksPerSecond * RetryAfter(a, x)]
          /\ blockers' = [blockers EXCEPT ![c] =
               Blockers(a, x) \cup (IF CooldownGranted(x) THEN {} ELSE {"cooldown"})]
    BY <1>2 DEF Refuse
  <2>2. advice' \in [Clients -> Nat]
    BY <2>1, RefusalTold DEF TypeOK
  <2>3. blockers' \in [Clients -> SUBSET (Keys \cup {"cooldown"})]
    BY <2>1 DEF TypeOK, Blockers, Keys
  <2>4. account' \in [Clients -> Accounts]
    BY <2>1 DEF TypeOK
  <2>5. pc' \in [Clients -> {"idle", "admitted", "refused"}]
    BY <1>2 DEF Refuse, TypeOK
  <2> QED
    BY <1>2, <2>1, <2>2, <2>3, <2>4, <2>5, ConsumeType DEF Refuse, TypeOK, Limit, Window
<1>3. ASSUME NEW c \in Clients, FailClosed(c)
      PROVE  TypeOK'
  <2>1. PICK a \in Addresses, x \in Accounts : Consume(a, x)
    BY <1>3 DEF FailClosed
  <2> QED
    BY <1>3, <2>1, ConsumeType DEF FailClosed, clients, TypeOK, Limit, Window
<1>4. ASSUME NEW c \in Clients, Succeed(c)
      PROVE  TypeOK'
  <2>1. /\ count' = [count EXCEPT ![account[c]] = 0]
        /\ ttl' = [ttl EXCEPT ![account[c]] = 0]
        /\ ages' = IF watched = account[c] THEN Never ELSE ages
        /\ blockers' = [d \in Clients |-> blockers[d] \ {account[c]}]
        /\ pc' = [pc EXCEPT ![c] = "idle"]
    BY <1>4 DEF Succeed
  <2>2. ages' \in [1 .. Recorded -> 0 .. Horizon]
    BY <2>1, NeverType DEF TypeOK
  <2>3. \A k \in Keys : /\ count'[k] = IF k = account[c] THEN 0 ELSE count[k]
                        /\ ttl'[k] = IF k = account[c] THEN 0 ELSE ttl[k]
    BY <2>1 DEF TypeOK
  <2>4. \A k \in Keys : count'[k] <= Limit(k) + 1 /\ ttl'[k] \in 0 .. Window(k)
                        /\ (count'[k] = 0 <=> ttl'[k] = 0)
    <3> SUFFICES ASSUME NEW k \in Keys
                 PROVE  count'[k] <= Limit(k) + 1 /\ ttl'[k] \in 0 .. Window(k)
                        /\ (count'[k] = 0 <=> ttl'[k] = 0)
      OBVIOUS
    <3>1. ttl[k] \in 0 .. Window(k) /\ count[k] <= Limit(k) + 1
          /\ (count[k] = 0 <=> ttl[k] = 0)
      BY DEF TypeOK
    <3>2. Limit(k) \in Nat /\ Window(k) \in Nat
      BY Settings
    <3>3. CASE k = account[c]
      BY <2>3, <3>2, <3>3
    <3>4. CASE k # account[c]
      BY <2>3, <3>1, <3>4
    <3> QED
      BY <3>3, <3>4
  <2>5. count' \in [Keys -> Nat] /\ ttl' \in [Keys -> Nat]
    BY <2>1 DEF TypeOK
  <2>6. blockers' \in [Clients -> SUBSET (Keys \cup {"cooldown"})]
    BY <2>1 DEF TypeOK
  <2>7. pc' \in [Clients -> {"idle", "admitted", "refused"}]
    BY <2>1 DEF TypeOK
  <2>8. UNCHANGED <<flow, cooldown, account, advice, watched>>
    BY <1>4 DEF Succeed
  <2> QED
    BY <2>2, <2>4, <2>5, <2>6, <2>7, <2>8 DEF TypeOK, Limit, Window
<1>5. ASSUME NEW c \in Clients, Finish(c) \/ Return(c)
      PROVE  TypeOK'
  <2>1. pc' \in [Clients -> {"idle", "admitted", "refused"}]
    BY <1>5 DEF Finish, Return, TypeOK
  <2>2. advice' \in [Clients -> Nat]
    <3>1. advice' = advice \/ advice' = [advice EXCEPT ![c] = 0]
      BY <1>5 DEF Finish, Return
    <3>2. advice \in [Clients -> Nat]
      BY DEF TypeOK
    <3> QED
      BY <3>1, <3>2
  <2>3. blockers' \in [Clients -> SUBSET (Keys \cup {"cooldown"})]
    <3>1. blockers' = blockers \/ blockers' = [blockers EXCEPT ![c] = {}]
      BY <1>5 DEF Finish, Return
    <3>2. blockers \in [Clients -> SUBSET (Keys \cup {"cooldown"})]
      BY DEF TypeOK
    <3> QED
      BY <3>1, <3>2
  <2>4. UNCHANGED <<flow, keys, account, watched, ages>>
    BY <1>5 DEF Finish, Return
  <2> QED
    BY <2>1, <2>2, <2>3, <2>4 DEF keys, TypeOK, Limit, Window
<1>6. ASSUME Tick
      PROVE  TypeOK'
  <2>1. /\ ttl' = [k \in Keys |-> Left(ttl[k])]
        /\ count' = [k \in Keys |-> IF ttl[k] = 1 THEN 0 ELSE count[k]]
        /\ cooldown' = [x \in Accounts |-> Left(cooldown[x])]
        /\ advice' = [c \in Clients |-> Left(advice[c])]
        /\ blockers' = [c \in Clients |-> {k \in blockers[c] : StillRuns(c, k)}]
        /\ ages' = [i \in 1 .. Recorded |->
                      IF ages[i] = Horizon THEN Horizon ELSE ages[i] + 1]
        /\ UNCHANGED <<flow, pc, account, watched>>
    BY <1>6 DEF Tick
  <2>2. \A k \in Keys : count'[k] <= Limit(k) + 1 /\ ttl'[k] \in 0 .. Window(k)
                        /\ (count'[k] = 0 <=> ttl'[k] = 0)
    <3> SUFFICES ASSUME NEW k \in Keys
                 PROVE  count'[k] <= Limit(k) + 1 /\ ttl'[k] \in 0 .. Window(k)
                        /\ (count'[k] = 0 <=> ttl'[k] = 0)
      OBVIOUS
    <3>1. /\ ttl[k] \in 0 .. Window(k) /\ count[k] \in Nat /\ count[k] <= Limit(k) + 1
          /\ (count[k] = 0 <=> ttl[k] = 0) /\ Limit(k) \in Nat /\ Window(k) \in Nat
      BY Settings DEF TypeOK
    <3>2. ttl'[k] = Left(ttl[k]) /\ count'[k] = IF ttl[k] = 1 THEN 0 ELSE count[k]
      BY <2>1
    <3> QED
      BY <3>1, <3>2 DEF Left
  <2>3. count' \in [Keys -> Nat] /\ ttl' \in [Keys -> Nat]
    BY <2>1 DEF Left, TypeOK
  <2>4. cooldown' \in [Accounts -> 0 .. CooldownTicks]
    <3>1. CooldownTicks \in Nat /\ \A x \in Accounts : cooldown[x] \in 0 .. CooldownTicks
      BY Settings DEF TypeOK
    <3>2. \A x \in Accounts : Left(cooldown[x]) \in 0 .. CooldownTicks
      BY <3>1 DEF Left
    <3> QED
      BY <2>1, <3>2
  <2>5. advice' \in [Clients -> Nat]
    BY <2>1 DEF Left, TypeOK
  <2>6. blockers' \in [Clients -> SUBSET (Keys \cup {"cooldown"})]
    BY <2>1 DEF TypeOK
  <2>7. ages' \in [1 .. Recorded -> 0 .. Horizon]
    BY <2>1, Settings DEF TypeOK
  <2> QED
    BY <2>1, <2>2, <2>3, <2>4, <2>5, <2>6, <2>7 DEF TypeOK, Limit, Window
<1> QED
  BY <1>1, <1>2, <1>3, <1>4, <1>5, <1>6 DEF Next

\* Every key that counts is going to expire, in at most its window: it was never
\* created without its expiry, and what is left of it never exceeds the window.
THEOREM TypeCorrect == Spec => []TypeOK
<1>1. Init => TypeOK
  BY NeverType, Settings DEF Init, TypeOK
<1>2. TypeOK /\ [Next]_vars => TypeOK'
  <2>1. TypeOK /\ UNCHANGED vars => TypeOK'
    BY DEF vars, keys, clients, TypeOK, Limit, Window
  <2> QED
    BY <2>1, TypeStep
<1> QED
  BY <1>1, <1>2, PTL DEF Spec
-----------------------------------------------------------------------------
(* Retry-After *)

\* Only who was refused is blocked, and what blocks it runs for no longer than
\* its advice.
WaitInv ==
  \A c \in Clients :
    /\ blockers[c] # {} => pc[c] = "refused"
    /\ \A k \in blockers[c] \ {"cooldown"} : ttl[k] > 0 /\ ttl[k] <= advice[c]
    /\ "cooldown" \in blockers[c] =>
         cooldown[account[c]] > 0 /\ cooldown[account[c]] <= advice[c]

\* An attempt does not prolong what runs.
LEMMA RunningKept ==
  ASSUME TypeOK, NEW a \in Addresses, NEW x \in Accounts, Consume(a, x)
  PROVE  /\ \A k \in Keys : ttl[k] > 0 => ttl'[k] = ttl[k]
         /\ \A y \in Accounts : cooldown[y] > 0 => cooldown'[y] = cooldown[y]
<1>1. ASSUME NEW k \in Keys, ttl[k] > 0
      PROVE  ttl'[k] = ttl[k]
  <2>1. ttl'[k] = IF k \in {a, x} THEN Expiry(k) ELSE ttl[k]
    BY DEF Consume
  <2>2. count[k] # 0 /\ ttl[k] \in Nat
    BY <1>1 DEF TypeOK
  <2> QED
    BY <2>1, <2>2, CountedType
<1>2. ASSUME NEW y \in Accounts, cooldown[y] > 0
      PROVE  cooldown'[y] = cooldown[y]
  BY <1>2, Settings DEF Consume, TypeOK
<1> QED
  BY <1>1, <1>2

\* What another client's attempt leaves of them.
LEMMA WaitKept ==
  ASSUME TypeOK, WaitInv, NEW d \in Clients,
         NEW a \in Addresses, NEW x \in Accounts, Consume(a, x)
  PROVE  /\ \A k \in blockers[d] \ {"cooldown"} : ttl'[k] > 0 /\ ttl'[k] <= advice[d]
         /\ "cooldown" \in blockers[d] =>
              cooldown'[account[d]] > 0 /\ cooldown'[account[d]] <= advice[d]
<1>1. \A k \in blockers[d] \ {"cooldown"} : k \in Keys
  BY DEF TypeOK
<1>2. account[d] \in Accounts
  BY DEF TypeOK
<1> QED
  BY <1>1, <1>2, RunningKept DEF WaitInv

LEMMA WaitStep ==
  ASSUME TypeOK, WaitInv, Next
  PROVE  WaitInv'
<1>1. ASSUME NEW c \in Clients, Admit(c)
      PROVE  WaitInv'
  <2>1. PICK a \in Addresses, x \in Accounts :
          Consume(a, x) /\ account' = [account EXCEPT ![c] = x]
    BY <1>1 DEF Admit
  <2>2. blockers[c] = {}
    BY <1>1 DEF Admit, WaitInv
  <2>3. ASSUME NEW d \in Clients
        PROVE  /\ blockers'[d] # {} => pc'[d] = "refused" /\ account'[d] = account[d]
               /\ blockers'[d] = blockers[d] /\ advice'[d] = advice[d]
    BY <1>1, <2>1, <2>2 DEF Admit, WaitInv, TypeOK
  <2> QED
    BY <2>1, <2>3, WaitKept DEF WaitInv
<1>2. ASSUME NEW c \in Clients, Refuse(c)
      PROVE  WaitInv'
  <2>1. PICK a \in Addresses, x \in Accounts :
          /\ ~ Admits(a, x) /\ Consume(a, x)
          /\ account' = [account EXCEPT ![c] = x]
          /\ advice' = [advice EXCEPT ![c] = TicksPerSecond * RetryAfter(a, x)]
          /\ blockers' = [blockers EXCEPT ![c] =
               Blockers(a, x) \cup (IF CooldownGranted(x) THEN {} ELSE {"cooldown"})]
    BY <1>2 DEF Refuse
  <2>2. PICK n : n = TicksPerSecond * RetryAfter(a, x)
    OBVIOUS
  <2>3. ASSUME NEW d \in Clients, d # c
        PROVE  /\ blockers'[d] = blockers[d] /\ advice'[d] = advice[d]
               /\ account'[d] = account[d] /\ pc'[d] = pc[d]
    BY <1>2, <2>1, <2>3 DEF Refuse, TypeOK
  <2>4. /\ blockers'[c] = Blockers(a, x) \cup (IF CooldownGranted(x) THEN {} ELSE {"cooldown"})
        /\ advice'[c] = n /\ account'[c] = x /\ pc'[c] = "refused"
    BY <1>2, <2>1, <2>2 DEF Refuse, TypeOK
  <2>5. ASSUME NEW k \in Blockers(a, x)
        PROVE  ttl'[k] > 0 /\ ttl'[k] <= n
    <3>1. k \in Keys /\ k \in {a, x} /\ Counted(k) > Limit(k)
      BY DEF Blockers, Blocked, Keys
    <3>2. ttl'[k] = Expiry(k)
      BY <2>1, <3>1 DEF Consume
    <3>3. Expiry(k) \in Nat \ {0}
      BY <3>1, CountedType
    <3> QED
      BY <2>1, <2>2, <3>2, <3>3, RefusalTold
  <2>6. ASSUME ~ CooldownGranted(x)
        PROVE  cooldown'[x] > 0 /\ cooldown'[x] <= n
    <3>1. cooldown[x] # 0 /\ cooldown[x] \in Nat
      BY <2>6, Settings DEF CooldownGranted, TypeOK
    <3>2. cooldown' = cooldown
      BY <2>1, <3>1 DEF Consume
    <3> QED
      BY <2>1, <2>2, <2>6, <3>1, <3>2, RefusalTold
  <2>7. "cooldown" \notin Blockers(a, x)
    BY KeysAssumption DEF Blockers
  <2>8. ASSUME NEW d \in Clients
        PROVE  /\ blockers'[d] # {} => pc'[d] = "refused"
               /\ \A k \in blockers'[d] \ {"cooldown"} : ttl'[k] > 0 /\ ttl'[k] <= advice'[d]
               /\ "cooldown" \in blockers'[d] =>
                    cooldown'[account'[d]] > 0 /\ cooldown'[account'[d]] <= advice'[d]
    <3>1. CASE d = c
      BY <2>4, <2>5, <2>6, <2>7, <3>1
    <3>2. CASE d # c
      <4>1. blockers[d] # {} => pc[d] = "refused"
        BY DEF WaitInv
      <4>2. /\ \A k \in blockers[d] \ {"cooldown"} : ttl'[k] > 0 /\ ttl'[k] <= advice[d]
            /\ "cooldown" \in blockers[d] =>
                 cooldown'[account[d]] > 0 /\ cooldown'[account[d]] <= advice[d]
        BY <2>1, WaitKept
      <4> QED
        BY <2>3, <3>2, <4>1, <4>2
    <3> QED
      BY <3>1, <3>2
  <2> QED
    BY <2>8 DEF WaitInv
<1>3. ASSUME NEW c \in Clients, FailClosed(c)
      PROVE  WaitInv'
  <2>1. PICK a \in Addresses, x \in Accounts : Consume(a, x)
    BY <1>3 DEF FailClosed
  <2>2. UNCHANGED <<pc, account, advice, blockers>>
    BY <1>3 DEF FailClosed, clients
  <2> QED
    BY <2>1, <2>2, WaitKept DEF WaitInv
<1>4. ASSUME NEW c \in Clients, Succeed(c)
      PROVE  WaitInv'
  <2>1. /\ UNCHANGED <<cooldown, account, advice>>
        /\ \A k : k # account[c] => ttl'[k] = ttl[k]
        /\ \A d \in Clients : blockers'[d] = blockers[d] \ {account[c]}
    BY <1>4 DEF Succeed, TypeOK
  <2>2. \A d \in Clients : blockers[d] # {} => pc'[d] = "refused"
    BY <1>4 DEF Succeed, WaitInv, TypeOK
  <2> QED
    BY <2>1, <2>2 DEF WaitInv
<1>5. ASSUME NEW c \in Clients, Finish(c)
      PROVE  WaitInv'
  <2>1. UNCHANGED <<ttl, cooldown, account, advice, blockers>>
    BY <1>5 DEF Finish, keys
  <2>2. \A d \in Clients : blockers[d] # {} => pc'[d] = "refused"
    BY <1>5 DEF Finish, WaitInv, TypeOK
  <2> QED
    BY <2>1, <2>2 DEF WaitInv
<1>6. ASSUME NEW c \in Clients, Return(c)
      PROVE  WaitInv'
  <2>1. UNCHANGED <<ttl, cooldown, account>>
    BY <1>6 DEF Return, keys
  <2>2. blockers'[c] = {}
    BY <1>6 DEF Return, TypeOK
  <2>3. \A d \in Clients : d # c =>
          blockers'[d] = blockers[d] /\ advice'[d] = advice[d] /\ pc'[d] = pc[d]
    BY <1>6 DEF Return, TypeOK
  <2> QED
    BY <2>1, <2>2, <2>3 DEF WaitInv
<1>7. ASSUME Tick
      PROVE  WaitInv'
  <2> SUFFICES ASSUME NEW c \in Clients
               PROVE  /\ blockers'[c] # {} => pc'[c] = "refused"
                      /\ \A k \in blockers'[c] \ {"cooldown"} :
                           ttl'[k] > 0 /\ ttl'[k] <= advice'[c]
                      /\ "cooldown" \in blockers'[c] =>
                           cooldown'[account'[c]] > 0 /\ cooldown'[account'[c]] <= advice'[c]
    BY DEF WaitInv
  <2>1. /\ blockers'[c] = {k \in blockers[c] : StillRuns(c, k)}
        /\ advice'[c] = Left(advice[c]) /\ account' = account /\ pc' = pc
        /\ \A k \in Keys : ttl'[k] = Left(ttl[k])
        /\ \A x \in Accounts : cooldown'[x] = Left(cooldown[x])
    BY <1>7 DEF Tick
  <2>2. advice[c] \in Nat /\ account[c] \in Accounts /\ cooldown[account[c]] \in Nat
    BY Settings DEF TypeOK
  <2>3. ASSUME NEW k \in blockers'[c], k # "cooldown"
        PROVE  ttl'[k] > 0 /\ ttl'[k] <= advice'[c]
    <3>1. k \in Keys /\ ttl[k] \in Nat /\ ttl[k] > 1 /\ ttl[k] <= advice[c]
      BY <2>1, <2>3 DEF StillRuns, WaitInv, TypeOK
    <3> QED
      BY <2>1, <2>2, <3>1 DEF Left
  <2>4. ASSUME "cooldown" \in blockers'[c]
        PROVE  cooldown'[account[c]] > 0 /\ cooldown'[account[c]] <= advice'[c]
    <3>1. cooldown[account[c]] > 1 /\ cooldown[account[c]] <= advice[c]
      BY <2>1, <2>4 DEF StillRuns, WaitInv
    <3> QED
      BY <2>1, <2>2, <3>1 DEF Left
  <2> QED
    BY <2>1, <2>3, <2>4 DEF WaitInv
<1> QED
  BY <1>1, <1>2, <1>3, <1>4, <1>5, <1>6, <1>7 DEF Next

LEMMA StaysWaiting == Spec => []WaitInv
<1>1. Init => WaitInv
  BY DEF Init, WaitInv
<1>2. TypeOK /\ WaitInv /\ [Next]_vars => WaitInv'
  <2>1. WaitInv /\ UNCHANGED vars => WaitInv'
    BY DEF vars, keys, clients, WaitInv
  <2> QED
    BY <2>1, WaitStep
<1> QED
  BY <1>1, <1>2, TypeCorrect, PTL DEF Spec

\* Waiting for as long as Retry-After said is enough for the windows that refused
\* the request, whoever else goes on trying.
THEOREM WaitingSuffices == Spec => []RetryAfterSuffices
<1>1. WaitInv => RetryAfterSuffices
  BY DEF WaitInv, RetryAfterSuffices
<1> QED
  BY <1>1, StaysWaiting, PTL
-----------------------------------------------------------------------------
(* The limit *)

Smaller(m, n) == IF m <= n THEN m ELSE n

\* A window admits no more than it has counted, and no more than the limit.  What
\* came before those admissions is older than the window, which began Window -
\* ttl ago; what came before a whole limit more is older than the window before.
LimitInv ==
  LET k == watched
      n == Smaller(count[k], Limit(k))
  IN  /\ \A i \in 1 .. Recorded : i > n /\ count[k] # 0 => ages[i] + ttl[k] >= Window(k)
      /\ \A i \in 1 .. Recorded : i > n + Limit(k) => ages[i] >= Window(k)

LEMMA AgeType ==
  ASSUME TypeOK
  PROVE  /\ \A i \in 1 .. Recorded : ages[i] \in Nat /\ ages[i] <= Horizon
         /\ watched \in Keys
         /\ Limit(watched) \in Nat \ {0} /\ Window(watched) \in Nat \ {0}
         /\ Window(watched) <= Horizon
         /\ count[watched] \in Nat /\ ttl[watched] \in Nat /\ ttl[watched] <= Window(watched)
         /\ count[watched] = 0 <=> ttl[watched] = 0
<1>1. watched \in Keys
  BY DEF TypeOK
<1>2. /\ Limit(watched) \in Nat \ {0} /\ Window(watched) \in Nat \ {0}
      /\ Window(watched) <= Horizon /\ Horizon \in Nat
  BY <1>1, Settings
<1>3. /\ count[watched] \in Nat /\ ttl[watched] \in 0 .. Window(watched)
      /\ count[watched] = 0 <=> ttl[watched] = 0
  BY <1>1 DEF TypeOK
<1>4. \A i \in 1 .. Recorded : ages[i] \in 0 .. Horizon
  BY DEF TypeOK
<1> QED
  BY <1>1, <1>2, <1>3, <1>4

\* An attempt that is not admitted counts as well.
LEMMA LimitCounted ==
  ASSUME TypeOK, LimitInv, NEW a \in Addresses, NEW x \in Accounts, Consume(a, x),
         UNCHANGED <<watched, ages>>
  PROVE  LimitInv'
<1>1. PICK k \in Keys, l \in Nat, w \in Nat : k = watched /\ l = Limit(k) /\ w = Window(k)
  BY AgeType
<1>2. Limit(k)' = l /\ Window(k)' = w /\ watched' = k
  BY <1>1 DEF Limit, Window
<1>3. CASE k \notin {a, x}
  <2>1. count'[k] = count[k] /\ ttl'[k] = ttl[k]
    BY <1>3 DEF Consume
  <2> QED
    BY <1>1, <1>2, <2>1 DEF LimitInv, Smaller
<1>4. CASE k \in {a, x}
  <2>1. count'[k] = Counted(k) /\ ttl'[k] = Expiry(k)
    BY <1>4 DEF Consume
  <2>2. Counted(k) = IF count[k] > l THEN count[k] ELSE count[k] + 1
    BY <1>1 DEF Counted
  <2>3. Expiry(k) = IF Counted(k) = 1 THEN w ELSE ttl[k]
    BY <1>1 DEF Expiry
  <2>4. count[k] \in Nat /\ l # 0
    BY <1>1, AgeType
  <2>5. ASSUME NEW i \in 1 .. Recorded, i > Smaller(count'[k], l), count'[k] # 0
        PROVE  ages[i] + ttl'[k] >= w
    <3>1. CASE count[k] = 0
      BY <1>1, <2>1, <2>2, <2>3, <2>4, <3>1, AgeType
    <3>2. CASE count[k] # 0
      <4>1. ttl'[k] = ttl[k]
        BY <2>1, <2>2, <2>3, <2>4, <3>2
      <4>2. i > Smaller(count[k], l)
        BY <2>1, <2>2, <2>4, <2>5 DEF Smaller
      <4> QED
        BY <1>1, <3>2, <4>1, <4>2 DEF LimitInv
    <3> QED
      BY <3>1, <3>2
  <2>6. ASSUME NEW i \in 1 .. Recorded, i > Smaller(count'[k], l) + l
        PROVE  ages[i] >= w
    <3>1. i > Smaller(count[k], l) + l
      BY <2>1, <2>2, <2>4, <2>6 DEF Smaller
    <3> QED
      BY <1>1, <3>1 DEF LimitInv
  <2> QED
    BY <1>2, <2>5, <2>6 DEF LimitInv
<1> QED
  BY <1>3, <1>4

LEMMA LimitAdmitted ==
  ASSUME TypeOK, LimitInv, NEW a \in Addresses, NEW x \in Accounts,
         Admits(a, x), Consume(a, x), UNCHANGED watched, watched \in {a, x},
         ages' = [i \in 1 .. Recorded |-> IF i = 1 THEN 0 ELSE ages[i - 1]]
  PROVE  LimitInv'
<1>1. PICK k \in Keys, l \in Nat, w \in Nat : k = watched /\ l = Limit(k) /\ w = Window(k)
  BY AgeType
<1>2. Limit(k)' = l /\ Window(k)' = w /\ watched' = k
  BY <1>1 DEF Limit, Window
<1>3. /\ count'[k] = Counted(k) /\ ttl'[k] = Expiry(k)
      /\ Counted(k) <= l
      /\ count[k] \in Nat /\ Counted(k) \in Nat
  <2>1. ~ Blocked(k)
    BY <1>1 DEF Admits, Blockers
  <2> QED
    BY <1>1, <2>1, AgeType, CountedType DEF Consume, Blocked
<1>4. Counted(k) = count[k] + 1
  BY <1>1, <1>3 DEF Counted
<1>5. ttl'[k] = IF count[k] = 0 THEN w ELSE ttl[k]
  BY <1>1, <1>3, <1>4 DEF Expiry
<1>6. Smaller(count[k], l) = count[k] /\ Smaller(count'[k], l) = count[k] + 1
  BY <1>3, <1>4 DEF Smaller
<1>7. ASSUME NEW i \in 1 .. Recorded, i > 1
      PROVE  i - 1 \in 1 .. Recorded /\ ages'[i] = ages[i - 1]
  BY <1>7, Settings
<1>8. ASSUME NEW i \in 1 .. Recorded, i > count[k] + 1
      PROVE  ages'[i] + ttl'[k] >= w
  <2>1. i - 1 \in 1 .. Recorded /\ ages'[i] = ages[i - 1] /\ i - 1 > count[k]
    BY <1>3, <1>7, <1>8
  <2>2. ages[i - 1] \in Nat
    BY <2>1, AgeType
  <2>3. CASE count[k] = 0
    BY <1>5, <2>1, <2>2, <2>3
  <2>4. CASE count[k] # 0
    <3>1. ages[i - 1] + ttl[k] >= w
      BY <1>1, <1>6, <2>1, <2>4 DEF LimitInv
    <3> QED
      BY <1>5, <2>1, <2>4, <3>1
  <2> QED
    BY <2>3, <2>4
<1>9. ASSUME NEW i \in 1 .. Recorded, i > count[k] + 1 + l
      PROVE  ages'[i] >= w
  <2>1. i - 1 \in 1 .. Recorded /\ ages'[i] = ages[i - 1] /\ i - 1 > count[k] + l
    BY <1>3, <1>7, <1>9
  <2> QED
    BY <1>1, <1>6, <2>1 DEF LimitInv
<1> QED
  BY <1>2, <1>6, <1>8, <1>9 DEF LimitInv

LEMMA LimitTick ==
  ASSUME TypeOK, LimitInv, Tick
  PROVE  LimitInv'
<1>1. PICK k \in Keys, l \in Nat, w \in Nat : k = watched /\ l = Limit(k) /\ w = Window(k)
  BY AgeType
<1>2. Limit(k)' = l /\ Window(k)' = w /\ watched' = k
  BY <1>1 DEF Limit, Window, Tick
<1>3. /\ ttl'[k] = Left(ttl[k]) /\ count'[k] = IF ttl[k] = 1 THEN 0 ELSE count[k]
      /\ \A i \in 1 .. Recorded :
           ages'[i] = IF ages[i] = Horizon THEN Horizon ELSE ages[i] + 1
  BY DEF Tick
<1>4. /\ count[k] \in Nat /\ ttl[k] \in Nat /\ (count[k] = 0 <=> ttl[k] = 0)
      /\ l # 0 /\ w <= Horizon /\ Horizon \in Nat
      /\ \A i \in 1 .. Recorded : ages[i] \in Nat /\ ages[i] <= Horizon
  BY <1>1, AgeType, Settings
<1>5. ASSUME NEW i \in 1 .. Recorded, i > Smaller(count'[k], l), count'[k] # 0
      PROVE  ages'[i] + ttl'[k] >= w
  <2>1. count'[k] = count[k] /\ ttl[k] > 1
    BY <1>3, <1>4, <1>5
  <2>2. ages[i] + ttl[k] >= w
    BY <1>1, <1>5, <2>1 DEF LimitInv
  <2> QED
    BY <1>3, <1>4, <2>1, <2>2 DEF Left
<1>6. ASSUME NEW i \in 1 .. Recorded, i > Smaller(count'[k], l) + l
      PROVE  ages'[i] >= w
  <2>1. CASE count'[k] = count[k]
    <3>1. ages[i] >= w
      BY <1>1, <1>6, <2>1 DEF LimitInv
    <3> QED
      BY <1>3, <1>4, <3>1
  <2>2. CASE count'[k] # count[k]
    <3>1. ttl[k] = 1 /\ count'[k] = 0 /\ count[k] # 0
      BY <1>3, <1>4, <2>2
    <3>2. i > l /\ i > Smaller(count[k], l)
      BY <1>4, <1>6, <3>1 DEF Smaller
    <3>3. ages[i] + 1 >= w
      BY <1>1, <3>1, <3>2 DEF LimitInv
    <3> QED
      BY <1>3, <1>4, <3>3
  <2> QED
    BY <2>1, <2>2
<1> QED
  BY <1>2, <1>5, <1>6 DEF LimitInv

LEMMA LimitStep ==
  ASSUME TypeOK, LimitInv, Next
  PROVE  LimitInv'
<1>1. ASSUME NEW c \in Clients, Admit(c)
      PROVE  LimitInv'
  <2>1. PICK a \in Addresses, x \in Accounts :
          /\ Admits(a, x) /\ Consume(a, x)
          /\ ages' = IF watched \in {a, x}
                     THEN [i \in 1 .. Recorded |-> IF i = 1 THEN 0 ELSE ages[i - 1]]
                     ELSE ages
    BY <1>1 DEF Admit
  <2>2. UNCHANGED watched
    BY <1>1 DEF Admit
  <2> QED
    BY <2>1, <2>2, LimitAdmitted, LimitCounted
<1>2. ASSUME NEW c \in Clients, Refuse(c) \/ FailClosed(c)
      PROVE  LimitInv'
  <2>1. PICK a \in Addresses, x \in Accounts : Consume(a, x)
    BY <1>2 DEF Refuse, FailClosed
  <2>2. UNCHANGED <<watched, ages>>
    BY <1>2 DEF Refuse, FailClosed
  <2> QED
    BY <2>1, <2>2, LimitCounted
<1>3. ASSUME NEW c \in Clients, Succeed(c)
      PROVE  LimitInv'
  <2>1. /\ count' = [count EXCEPT ![account[c]] = 0] /\ ttl' = [ttl EXCEPT ![account[c]] = 0]
        /\ ages' = (IF watched = account[c] THEN Never ELSE ages) /\ watched' = watched
    BY <1>3 DEF Succeed
  <2>2. CASE watched = account[c]
    <3>1. /\ count'[watched] = 0 /\ Limit(watched)' = Limit(watched)
          /\ Window(watched)' = Window(watched)
      BY <2>1, <2>2, AgeType DEF Limit, Window, TypeOK
    <3>2. \A i \in 1 .. Recorded : ages'[i] >= Window(watched)
      BY <2>1, <2>2, AgeType, Settings DEF Never
    <3> QED
      BY <2>1, <3>1, <3>2 DEF LimitInv
  <2>3. CASE watched # account[c]
    <3>1. /\ count'[watched] = count[watched] /\ ttl'[watched] = ttl[watched]
          /\ Limit(watched)' = Limit(watched) /\ Window(watched)' = Window(watched)
          /\ ages' = ages
      BY <2>1, <2>3, AgeType DEF Limit, Window, TypeOK
    <3> QED
      BY <2>1, <3>1 DEF LimitInv, Smaller
  <2> QED
    BY <2>2, <2>3
<1>4. ASSUME NEW c \in Clients, Finish(c) \/ Return(c)
      PROVE  LimitInv'
  <2>1. UNCHANGED <<count, ttl, watched, ages>>
    BY <1>4 DEF Finish, Return, keys
  <2> QED
    BY <2>1 DEF LimitInv, Limit, Window, Smaller
<1> QED
  BY <1>1, <1>2, <1>3, <1>4, LimitTick DEF Next

\* No span of a window, wherever it begins, admits more than twice the limit.
THEOREM LimitAlwaysHolds == Spec => []LimitHolds
<1>1. Init => LimitInv
  <2> SUFFICES ASSUME Init
               PROVE  LimitInv
    OBVIOUS
  <2>1. watched \in Keys /\ count[watched] = 0
    BY DEF Init
  <2>2. \A i \in 1 .. Recorded : ages[i] >= Window(watched)
    BY <2>1, Settings DEF Init, Never
  <2> QED
    BY <2>1, <2>2 DEF LimitInv
<1>2. TypeOK /\ LimitInv /\ [Next]_vars => LimitInv'
  <2>1. LimitInv /\ UNCHANGED vars => LimitInv'
    BY DEF vars, keys, LimitInv, Limit, Window, Smaller
  <2> QED
    BY <2>1, LimitStep
<1>3. TypeOK /\ LimitInv => LimitHolds
  <2> SUFFICES ASSUME TypeOK, LimitInv
               PROVE  ages[2 * Limit(watched) + 1] >= Window(watched)
    BY DEF LimitHolds
  <2>1. PICK l \in Nat, n \in Nat : l = Limit(watched) /\ n = Smaller(count[watched], l)
    BY AgeType DEF Smaller
  <2>2. n <= l /\ 2 * l + 1 \in 1 .. Recorded
    BY <2>1, AgeType, Settings DEF Smaller
  <2> QED
    BY <2>1, <2>2 DEF LimitInv
<1> QED
  BY <1>1, <1>2, <1>3, TypeCorrect, PTL DEF Spec
-----------------------------------------------------------------------------
(* The cooldown *)

\* The cooldown runs until the last admission is a cooldown ago.
MailInv ==
  flow = "verificationRequest" /\ watched \in Accounts =>
    /\ ages[1] + cooldown[watched] >= CooldownTicks
    /\ \A i \in 2 .. Recorded : ages[i] >= CooldownTicks

LEMMA MailStep ==
  ASSUME TypeOK, MailInv, Next
  PROVE  MailInv'
<1> SUFFICES ASSUME flow' = "verificationRequest", watched' \in Accounts
             PROVE  /\ ages'[1] + cooldown'[watched'] >= CooldownTicks
                    /\ \A i \in 2 .. Recorded : ages'[i] >= CooldownTicks
  BY DEF MailInv, CooldownTicks
<1>1. flow' = flow /\ watched' = watched
  BY DEF Next, Admit, Refuse, FailClosed, Succeed, Finish, Return, Tick
<1>2. PICK y \in Accounts, n \in Nat : y = watched /\ n = CooldownTicks
  BY <1>1, Settings
<1>3. /\ \A i \in 1 .. Recorded : ages[i] \in Nat /\ ages[i] <= Horizon
      /\ Recorded \in Nat /\ Recorded >= 3 /\ n <= Horizon /\ Horizon \in Nat
      /\ cooldown[y] \in Nat /\ cooldown[y] <= n
  <2>1. cooldown[y] \in 0 .. CooldownTicks
    BY DEF TypeOK
  <2> QED
    BY <1>2, <2>1, AgeType, Settings
<1>4. ages[1] + cooldown[y] >= n /\ \A i \in 2 .. Recorded : ages[i] >= n
  BY <1>1, <1>2 DEF MailInv
<1>5. ASSUME NEW a \in Addresses, NEW x \in Accounts, Consume(a, x)
      PROVE  cooldown'[y] = IF x = y /\ cooldown[y] = 0 THEN n ELSE cooldown[y]
  BY <1>1, <1>2, <1>5 DEF Consume, TypeOK
<1>6. ASSUME NEW c \in Clients, Admit(c)
      PROVE  /\ ages'[1] + cooldown'[y] >= n
             /\ \A i \in 2 .. Recorded : ages'[i] >= n
  <2>1. PICK a \in Addresses, x \in Accounts :
          /\ Admits(a, x) /\ Consume(a, x)
          /\ ages' = IF watched \in {a, x}
                     THEN [i \in 1 .. Recorded |-> IF i = 1 THEN 0 ELSE ages[i - 1]]
                     ELSE ages
    BY <1>6 DEF Admit
  <2>2. y # a
    BY KeysAssumption
  <2>3. CASE x = y
    <3>1. cooldown[y] = 0
      BY <1>1, <2>1, <2>3 DEF Admits, CooldownGranted
    <3>2. cooldown'[y] = n /\ ages[1] >= n
      BY <1>3, <1>4, <1>5, <2>1, <2>3, <3>1
    <3>3. ages' = [i \in 1 .. Recorded |-> IF i = 1 THEN 0 ELSE ages[i - 1]]
      BY <1>2, <2>1, <2>3
    <3>4. ages'[1] = 0
      BY <1>3, <3>3
    <3>5. ASSUME NEW i \in 2 .. Recorded
          PROVE  ages'[i] >= n
      <4>1. i - 1 \in 1 .. Recorded /\ ages'[i] = ages[i - 1]
        BY <1>3, <3>3
      <4>2. i - 1 = 1 \/ i - 1 \in 2 .. Recorded
        BY <1>3, <4>1
      <4> QED
        BY <1>4, <3>2, <4>1, <4>2
    <3> QED
      BY <3>2, <3>4, <3>5
  <2>4. CASE x # y
    <3>1. ages' = ages /\ cooldown'[y] = cooldown[y]
      BY <1>2, <1>5, <2>1, <2>2, <2>4
    <3> QED
      BY <1>4, <3>1
  <2> QED
    BY <2>3, <2>4
<1>7. ASSUME NEW c \in Clients, Refuse(c) \/ FailClosed(c)
      PROVE  /\ ages'[1] + cooldown'[y] >= n
             /\ \A i \in 2 .. Recorded : ages'[i] >= n
  <2>1. PICK a \in Addresses, x \in Accounts : Consume(a, x)
    BY <1>7 DEF Refuse, FailClosed
  <2>2. ages' = ages
    BY <1>7 DEF Refuse, FailClosed
  <2>3. cooldown'[y] \in Nat /\ cooldown'[y] >= cooldown[y]
    BY <1>3, <1>5, <2>1
  <2>4. ages[1] \in Nat
    BY <1>3
  <2> QED
    BY <1>3, <1>4, <2>2, <2>3, <2>4
<1>8. ASSUME NEW c \in Clients, Succeed(c) \/ Finish(c) \/ Return(c)
      PROVE  ages' = ages /\ cooldown' = cooldown
  BY <1>1, <1>8 DEF Succeed, Finish, Return, keys
<1>9. ASSUME Tick
      PROVE  /\ ages'[1] + cooldown'[y] >= n
             /\ \A i \in 2 .. Recorded : ages'[i] >= n
  <2>1. /\ cooldown'[y] = Left(cooldown[y])
        /\ \A i \in 1 .. Recorded :
             ages'[i] = IF ages[i] = Horizon THEN Horizon ELSE ages[i] + 1
    BY <1>9 DEF Tick
  <2>2. \A i \in 1 .. Recorded : ages'[i] \in Nat /\ ages'[i] >= ages[i]
                                 /\ (ages'[i] >= n \/ ages'[i] = ages[i] + 1)
    BY <1>3, <2>1
  <2>3. \A i \in 2 .. Recorded : ages'[i] >= n
    BY <1>2, <1>3, <1>4, <2>2
  <2>4. ages'[1] + cooldown'[y] >= n
    <3>1. 1 \in 1 .. Recorded
      BY <1>3
    <3> QED
      BY <1>2, <1>3, <1>4, <2>1, <2>2, <3>1 DEF Left
  <2> QED
    BY <2>3, <2>4
<1> QED
  BY <1>1, <1>2, <1>4, <1>6, <1>7, <1>8, <1>9 DEF Next

\* An account is sent at most one verification mail in any span of the cooldown.
THEOREM MailsAlwaysSpaced == Spec => []MailsSpaced
<1>1. Init => MailInv
  <2> SUFFICES ASSUME Init, watched \in Accounts
               PROVE  /\ ages[1] + cooldown[watched] >= CooldownTicks
                      /\ \A i \in 2 .. Recorded : ages[i] >= CooldownTicks
    BY DEF MailInv
  <2>1. ages = Never /\ cooldown[watched] = 0
    BY DEF Init
  <2> QED
    BY <2>1, Settings DEF Never
<1>2. TypeOK /\ MailInv /\ [Next]_vars => MailInv'
  <2>1. MailInv /\ UNCHANGED vars => MailInv'
    BY DEF vars, keys, MailInv, CooldownTicks
  <2> QED
    BY <2>1, MailStep
<1>3. MailInv => MailsSpaced
  BY Settings DEF MailInv, MailsSpaced
<1> QED
  BY <1>1, <1>2, <1>3, TypeCorrect, PTL DEF Spec
=============================================================================
