----------------------------- MODULE TokenProofs -----------------------------
(***************************************************************************)
(* Theorems about PlatformTokens for any number of tasks and tokens, any   *)
(* lifetimes and any margin.                                               *)
(***************************************************************************)
EXTENDS PlatformTokens, TLAPS

\* Who stands in line.
Lined(f, c) == f[c].step \in {"wait", "drop"}

\* The line l of the callers f at the time t: those who wait for the lock, once
\* each, in the order in which they asked.
Queued(l, f, t) ==
  /\ \A i \in 1..Len(l) : Lined(f, l[i])
  /\ \A c \in Callers : Lined(f, c) => \E i \in 1..Len(l) : l[i] = c
  /\ \A i, j \in 1..Len(l) : i # j => l[i] # l[j]
  /\ \A i, j \in 1..Len(l) :
       i < j /\ f[l[i]].step = "wait" /\ f[l[j]].step = "wait"
         => f[l[i]].now <= f[l[j]].now
  /\ \A c \in Callers : f[c].now <= t

QueueInv == Queued(line, caller, clock)

\* The lock is held by who logs in, who found nothing to use; with Digiseller
\* all who wait have asked later.
HoldInv == \A c \in Callers :
  /\ At(c, "login") <=> holder = c
  /\ At(c, "login") => ~Usable(caller[c].now)
  /\ api = "digiseller" /\ At(c, "login") =>
       \A d \in Callers : At(d, "wait") => caller[c].now <= caller[d].now

\* How long a cached token has when it runs out in the eyes of the cache.
Spare == IF api = "digiseller" THEN 0 ELSE Margin

CacheInv == cache # NoToken => expiry + Spare <= dies[cache]

\* Who waits with an old time does not take a token for fresh that is not.
WaitInv == api = "digiseller" => \A c \in Callers :
  At(c, "wait") /\ Usable(caller[c].now) => clock + Margin <= dies[cache]

IInv == TypeOK /\ QueueInv /\ HoldInv /\ CacheInv /\ WaitInv

-----------------------------------------------------------------------------
\* The line

LEMMA QueueJoins ==
  ASSUME NEW l \in Seq(Callers), NEW f, NEW g, NEW t \in Nat, NEW c \in Callers,
         Queued(l, f, t), \A d \in Callers : f[d].now \in Nat,
         ~Lined(f, c), Lined(g, c), g[c].now \in Nat, g[c].now <= t,
         g[c].step = "wait" => g[c].now = t,
         \A d \in Callers \ {c} : g[d] = f[d]
  PROVE  Append(l, c) \in Seq(Callers) /\ Queued(Append(l, c), g, t)
<1> DEFINE m == Append(l, c)
<1>1. /\ m \in Seq(Callers) /\ Len(l) \in Nat /\ Len(m) = Len(l) + 1
      /\ m[Len(l) + 1] = c /\ \A i \in 1..Len(l) : m[i] = l[i] /\ l[i] \in Callers
  OBVIOUS
<1> HIDE DEF m
<1>2. \A i \in 1..Len(m) : i \in 1..Len(l) \/ i = Len(l) + 1 BY <1>1
<1>3. \A i \in 1..Len(l) : Lined(f, l[i]) /\ l[i] # c BY DEF Queued
<1>4. \A i \in 1..Len(l) : m[i] = l[i] /\ g[m[i]] = f[l[i]] /\ m[i] # c BY <1>1, <1>3
<1>5. \A i \in 1..Len(m) : Lined(g, m[i]) BY <1>1, <1>2, <1>3, <1>4 DEF Lined
<1>6. \A d \in Callers : Lined(g, d) => \E i \in 1..Len(m) : m[i] = d
  <2> SUFFICES ASSUME NEW d \in Callers, Lined(g, d) PROVE \E i \in 1..Len(m) : m[i] = d
    OBVIOUS
  <2>1. CASE d = c
    <3>1. Len(l) + 1 \in 1..Len(m) BY <1>1
    <3> QED BY <1>1, <2>1, <3>1
  <2>2. CASE d # c
    <3>1. PICK i \in 1..Len(l) : l[i] = d BY <2>2 DEF Queued, Lined
    <3>2. i \in 1..Len(m) BY <1>1
    <3> QED BY <1>4, <3>1, <3>2
  <2> QED BY <2>1, <2>2
<1>7. \A i, j \in 1..Len(m) : i # j => m[i] # m[j]
  <2>1. \A i, j \in 1..Len(l) : i # j => l[i] # l[j] BY DEF Queued
  <2> QED BY <1>1, <1>2, <1>4, <2>1
<1>8. \A i, j \in 1..Len(m) :
        i < j /\ g[m[i]].step = "wait" /\ g[m[j]].step = "wait"
          => g[m[i]].now <= g[m[j]].now
  <2> SUFFICES ASSUME NEW i \in 1..Len(m), NEW j \in 1..Len(m), i < j,
                      g[m[i]].step = "wait", g[m[j]].step = "wait"
               PROVE  g[m[i]].now <= g[m[j]].now
    OBVIOUS
  <2>1. i \in 1..Len(l) BY <1>1, <1>2
  <2>2. g[m[i]] = f[l[i]] BY <1>4, <2>1
  <2>3. CASE j \in 1..Len(l)
    <3>1. g[m[j]] = f[l[j]] BY <1>4, <2>3
    <3> QED BY <2>1, <2>2, <2>3, <3>1 DEF Queued
  <2>4. CASE j = Len(l) + 1
    <3>1. g[m[j]].now = t BY <1>1, <2>4
    <3>2. f[l[i]].now <= t BY <1>1, <2>1 DEF Queued
    <3> QED BY <2>2, <3>1, <3>2
  <2> QED BY <1>2, <2>3, <2>4
<1>9. \A d \in Callers : g[d].now <= t BY DEF Queued
<1>10. Queued(m, g, t) BY <1>5, <1>6, <1>7, <1>8, <1>9 DEF Queued
<1> QED BY <1>1, <1>10 DEF m

LEMMA QueueLeaves ==
  ASSUME NEW l \in Seq(Callers), NEW f, NEW g, NEW t \in Nat, NEW c \in Callers,
         Queued(l, f, t), l # <<>>, Head(l) = c, ~Lined(g, c), g[c].now <= t,
         \A d \in Callers \ {c} : g[d] = f[d]
  PROVE  Tail(l) \in Seq(Callers) /\ Queued(Tail(l), g, t)
<1> DEFINE m == Tail(l)
<1>1. /\ m \in Seq(Callers) /\ Len(m) \in Nat /\ Len(l) = Len(m) + 1
      /\ l[1] = c /\ \A i \in 1..Len(m) : m[i] = l[i + 1] /\ m[i] \in Callers
  OBVIOUS
<1> HIDE DEF m
<1>2. \A i \in 1..Len(m) : i + 1 \in 1..Len(l) /\ i + 1 # 1 BY <1>1
<1>3. 1 \in 1..Len(l) BY <1>1
<1>4. \A i \in 1..Len(m) : m[i] # c
  <2>1. \A i, j \in 1..Len(l) : i # j => l[i] # l[j] BY DEF Queued
  <2> QED BY <1>1, <1>2, <1>3, <2>1
<1>5. \A i \in 1..Len(m) : g[m[i]] = f[l[i + 1]] BY <1>1, <1>4
<1>6. \A i \in 1..Len(m) : Lined(g, m[i])
  <2>1. \A i \in 1..Len(m) : Lined(f, l[i + 1]) BY <1>2 DEF Queued
  <2> QED BY <1>5, <2>1 DEF Lined
<1>7. \A d \in Callers : Lined(g, d) => \E i \in 1..Len(m) : m[i] = d
  <2> SUFFICES ASSUME NEW d \in Callers, Lined(g, d) PROVE \E i \in 1..Len(m) : m[i] = d
    OBVIOUS
  <2>1. d # c OBVIOUS
  <2>2. PICK i \in 1..Len(l) : l[i] = d BY <2>1 DEF Queued, Lined
  <2>3. i # 1 BY <1>1, <2>1, <2>2
  <2>4. i - 1 \in 1..Len(m) /\ (i - 1) + 1 = i BY <1>1, <2>3
  <2> QED BY <1>1, <2>2, <2>4
<1>8. \A i, j \in 1..Len(m) : i # j => m[i] # m[j]
  <2>1. \A i, j \in 1..Len(l) : i # j => l[i] # l[j] BY DEF Queued
  <2> TAKE i, j \in 1..Len(m)
  <2>2. i # j => i + 1 # j + 1 BY <1>1
  <2> QED BY <1>1, <1>2, <2>1, <2>2
<1>9. \A i, j \in 1..Len(m) :
        i < j /\ g[m[i]].step = "wait" /\ g[m[j]].step = "wait"
          => g[m[i]].now <= g[m[j]].now
  <2> TAKE i, j \in 1..Len(m)
  <2>1. i < j => i + 1 < j + 1 BY <1>1
  <2>2. i + 1 \in 1..Len(l) /\ j + 1 \in 1..Len(l) BY <1>2
  <2>3. i + 1 < j + 1 /\ f[l[i + 1]].step = "wait" /\ f[l[j + 1]].step = "wait"
          => f[l[i + 1]].now <= f[l[j + 1]].now
    BY <2>2 DEF Queued
  <2> QED BY <1>5, <2>1, <2>3
<1>10. \A d \in Callers : g[d].now <= t BY DEF Queued
<1>11. Queued(m, g, t) BY <1>6, <1>7, <1>8, <1>9, <1>10 DEF Queued
<1> QED BY <1>1, <1>11 DEF m

LEMMA QueueStays ==
  ASSUME NEW l \in Seq(Callers), NEW f, NEW g, NEW t \in Nat, NEW c \in Callers,
         Queued(l, f, t), ~Lined(f, c), ~Lined(g, c), g[c].now <= t,
         \A d \in Callers \ {c} : g[d] = f[d]
  PROVE  Queued(l, g, t)
<1>1. \A i \in 1..Len(l) : l[i] \in Callers /\ Lined(f, l[i]) BY DEF Queued
<1>2. \A i \in 1..Len(l) : l[i] # c BY <1>1
<1>3. \A i \in 1..Len(l) : g[l[i]] = f[l[i]] BY <1>1, <1>2
<1>4. \A i \in 1..Len(l) : Lined(g, l[i]) BY <1>1, <1>3 DEF Lined
<1>5. \A d \in Callers : Lined(g, d) => \E i \in 1..Len(l) : l[i] = d
  BY DEF Queued, Lined
<1>6. \A i, j \in 1..Len(l) :
        i < j /\ g[l[i]].step = "wait" /\ g[l[j]].step = "wait"
          => g[l[i]].now <= g[l[j]].now
  BY <1>3 DEF Queued
<1> QED BY <1>4, <1>5, <1>6 DEF Queued

LEMMA QueueLater ==
  ASSUME NEW l, NEW f, NEW t \in Nat, NEW t2 \in Nat, t <= t2,
         \A c \in Callers : f[c].now \in Nat, Queued(l, f, t)
  PROVE  Queued(l, f, t2)
<1>1. \A c \in Callers : f[c].now <= t2
  <2> TAKE c \in Callers
  <2>1. f[c].now <= t BY DEF Queued
  <2>2. f[c].now \in Nat OBVIOUS
  <2> QED BY <2>1, <2>2
<1> QED BY <1>1 DEF Queued

-----------------------------------------------------------------------------
\* One caller moves

Record == [step : Steps, now : Nat, token : Tokens \cup {NoToken}, second : BOOLEAN]

LEMMA Turned ==
  ASSUME TypeOK, NEW c \in Callers, NEW r, Turn(c, r)
  PROVE  /\ caller'[c] = r
         /\ \A d \in Callers \ {c} : caller'[d] = caller[d]
         /\ r \in Record => caller' \in [Callers -> Record]
BY DEF TypeOK, Turn, Record

LEMMA CallerType ==
  TypeOK => /\ clock \in Nat
            /\ caller \in [Callers -> Record]
            /\ \A c \in Callers : caller[c] \in Record /\ caller[c].now \in Nat
BY TokenAssumption DEF TypeOK, Record

\* The time a caller has read is not in the future.
LEMMA Past == TypeOK /\ QueueInv => \A c \in Callers : caller[c].now <= clock
BY DEF QueueInv, Queued

\* Who has no use for the cache has none later, nor when it is emptied.
LEMMA RunOutGrows ==
  ASSUME TypeOK, NEW m \in Nat, NEW n \in Nat, m <= n, RunOut(m)
  PROVE  RunOut(n)
<1>1. expiry \in Nat /\ Margin \in Nat BY TokenAssumption DEF TypeOK
<1> QED BY <1>1 DEF RunOut

LEMMA UsableStays ==
  ASSUME NEW c \in Callers, UNCHANGED api, UNCHANGED memory \/ Forget
  PROVE  Usable(caller[c].now)' => Usable(caller'[c].now) /\ UNCHANGED memory
<1>1. CASE UNCHANGED memory BY <1>1 DEF memory, Usable, RunOut
<1>2. CASE Forget BY <1>2 DEF Forget, Usable
<1> QED BY <1>1, <1>2

LEMMA MemoryType ==
  ASSUME TypeOK, UNCHANGED memory \/ Forget
  PROVE  cache' \in Tokens \cup {NoToken} /\ expiry' \in Nat
BY DEF TypeOK, Forget, memory

LEMMA CacheKept ==
  ASSUME CacheInv, UNCHANGED <<api, dies>>, UNCHANGED memory \/ Forget
  PROVE  CacheInv'
<1>1. CASE UNCHANGED memory BY <1>1 DEF memory, CacheInv, Spare
<1>2. CASE Forget BY <1>2 DEF Forget, CacheInv
<1> QED BY <1>1, <1>2

\* Nobody takes the lock, and who asks now asks last.
LEMMA HoldKept ==
  ASSUME IInv, UNCHANGED api, UNCHANGED memory \/ Forget,
         \A d \in Callers : At(d, "login")' <=> holder' = d,
         \A d \in Callers : At(d, "login")' => At(d, "login") /\ caller'[d] = caller[d],
         \A d \in Callers : At(d, "wait")' =>
           \/ At(d, "wait") /\ caller'[d] = caller[d]
           \/ caller'[d].now = clock
  PROVE  HoldInv'
<1>1. \A d \in Callers : At(d, "login")' => ~Usable(caller[d].now)'
  BY UsableStays DEF IInv, HoldInv
<1>2. ASSUME api = "digiseller", NEW d \in Callers, At(d, "login")',
             NEW e \in Callers, At(e, "wait")'
      PROVE  caller'[d].now <= caller'[e].now
  <2>1. At(d, "login") /\ caller'[d] = caller[d] BY <1>2
  <2>2. CASE At(e, "wait") /\ caller'[e] = caller[e]
    BY <1>2, <2>1, <2>2 DEF IInv, HoldInv
  <2>3. CASE caller'[e].now = clock BY <2>1, <2>3, Past DEF IInv
  <2> QED BY <1>2, <2>2, <2>3
<1> QED BY <1>1, <1>2 DEF HoldInv

LEMMA WaitKept ==
  ASSUME IInv, UNCHANGED <<api, clock, dies>>, UNCHANGED memory \/ Forget,
         \A d \in Callers : At(d, "wait")' =>
           \/ At(d, "wait") /\ caller'[d] = caller[d]
           \/ caller'[d].now = clock
  PROVE  WaitInv'
<1> SUFFICES ASSUME api = "digiseller", NEW d \in Callers, At(d, "wait")',
                    Usable(caller[d].now)'
             PROVE  clock + Margin <= dies'[cache']
  BY DEF WaitInv
<1>1. Usable(caller'[d].now) /\ UNCHANGED memory BY UsableStays
<1>2. dies'[cache'] = dies[cache] BY <1>1 DEF memory
<1>3. CASE At(d, "wait") /\ caller'[d] = caller[d]
  BY <1>1, <1>2, <1>3 DEF IInv, WaitInv
<1>4. CASE caller'[d].now = clock
  <2>1. cache # NoToken /\ ~(clock + Margin >= expiry) BY <1>1, <1>4 DEF Usable, RunOut
  <2>2. expiry + 0 <= dies[cache] BY <2>1 DEF IInv, CacheInv, Spare
  <2>3. /\ clock \in Nat /\ expiry \in Nat /\ Margin \in Nat
        /\ dies[cache] \in Nat
    BY <2>1, TokenAssumption DEF IInv, TypeOK
  <2> QED BY <1>2, <2>1, <2>2, <2>3
<1> QED BY <1>3, <1>4

\* A move outside the line and the lock.
LEMMA Quiet ==
  ASSUME IInv, NEW c \in Callers, NEW r \in Record, Turn(c, r),
         caller[c].step \in {"idle", "call", "reserve"},
         r.step \in {"idle", "call", "reserve"}, r.now <= clock,
         UNCHANGED <<api, clock, market, lock>>, UNCHANGED memory \/ Forget
  PROVE  IInv'
<1>1. /\ caller'[c] = r
      /\ \A d \in Callers \ {c} : caller'[d] = caller[d]
      /\ caller' \in [Callers -> Record]
  BY Turned DEF IInv
<1>2. TypeOK' BY <1>1, MemoryType DEF IInv, TypeOK, market, lock, Record
<1>3. QueueInv'
  <2>1. ~Lined(caller, c) /\ ~Lined(caller', c) BY <1>1 DEF Lined
  <2>2. line \in Seq(Callers) /\ clock \in Nat BY CallerType DEF IInv, TypeOK
  <2>3. Queued(line, caller', clock)
    BY <1>1, <2>1, <2>2, QueueStays DEF IInv, QueueInv
  <2> QED BY <2>3 DEF QueueInv, lock
<1>4. \A d \in Callers : At(d, "login")' \/ At(d, "wait")' => d # c BY <1>1 DEF At
<1>5. \A d \in Callers : At(d, "login") \/ At(d, "wait") => d # c BY DEF At
<1>6. \A d \in Callers : d # c => caller'[d] = caller[d]
        /\ (At(d, "login")' <=> At(d, "login")) /\ (At(d, "wait")' <=> At(d, "wait"))
  BY <1>1 DEF At
<1>7. HoldInv'
  <2>1. \A d \in Callers : At(d, "login")' <=> holder' = d
    BY <1>4, <1>5, <1>6 DEF IInv, HoldInv, lock
  <2> QED BY <1>4, <1>6, <2>1, HoldKept
<1>8. WaitInv' BY <1>4, <1>6, WaitKept DEF market
<1>9. CacheInv' BY CacheKept DEF IInv, market
<1> QED BY <1>2, <1>3, <1>7, <1>8, <1>9 DEF IInv

\* A caller gets in line.
LEMMA Joins ==
  ASSUME IInv, NEW c \in Callers, NEW r \in Record, Turn(c, r),
         caller[c].step \in {"idle", "call"}, r.step \in {"wait", "drop"},
         r.now <= clock, r.step = "wait" => r.now = clock,
         line' = Append(line, c),
         UNCHANGED <<api, clock, market, memory, holder>>
  PROVE  IInv'
<1>1. /\ caller'[c] = r
      /\ \A d \in Callers \ {c} : caller'[d] = caller[d]
      /\ caller' \in [Callers -> Record]
  BY Turned DEF IInv
<1>2. line' \in Seq(Callers) /\ Queued(line', caller', clock)
  <2>1. ~Lined(caller, c) /\ Lined(caller', c) BY <1>1 DEF Lined
  <2>2. line \in Seq(Callers) /\ clock \in Nat /\ r.now \in Nat
    BY CallerType DEF IInv, TypeOK, Record
  <2>3. \A d \in Callers : caller[d].now \in Nat BY CallerType DEF IInv
  <2>4. Queued(line, caller, clock) BY DEF IInv, QueueInv
  <2>5. Append(line, c) \in Seq(Callers) /\ Queued(Append(line, c), caller', clock)
    BY <1>1, <2>1, <2>2, <2>3, <2>4, QueueJoins
  <2> QED BY <2>5
<1>3. TypeOK' BY <1>1, <1>2 DEF IInv, TypeOK, market, memory, Record
<1>4. QueueInv' BY <1>2 DEF QueueInv
<1>5. \A d \in Callers : d # c => caller'[d] = caller[d]
        /\ (At(d, "login")' <=> At(d, "login")) /\ (At(d, "wait")' <=> At(d, "wait"))
  BY <1>1 DEF At
<1>6. ~At(c, "login") /\ ~At(c, "login")' /\ (At(c, "wait")' => caller'[c].now = clock)
  BY <1>1 DEF At
<1>7. HoldInv'
  <2>1. \A d \in Callers : At(d, "login")' <=> holder' = d
    BY <1>5, <1>6 DEF IInv, HoldInv
  <2> QED BY <1>5, <1>6, <2>1, HoldKept
<1>8. WaitInv' BY <1>5, <1>6, WaitKept DEF market
<1>9. CacheInv' BY CacheKept DEF IInv, market
<1> QED BY <1>3, <1>4, <1>7, <1>8, <1>9 DEF IInv

-----------------------------------------------------------------------------
\* The records of the callers

Set2(r, s, n) == [r EXCEPT !.step = s, !.now = n]

Set3(r, s, n, k) == [r EXCEPT !.step = s, !.now = n, !.token = k]

Set4(r, s, n, k) == [r EXCEPT !.step = s, !.now = n, !.token = k, !.second = TRUE]

LEMMA TwoFields ==
  ASSUME NEW r \in Record, NEW s \in Steps, NEW n \in Nat
  PROVE  /\ Set2(r, s, n) \in Record
         /\ Set2(r, s, n).step = s /\ Set2(r, s, n).now = n
<1> DEFINE p == [r EXCEPT !.step = s]
           q == [p EXCEPT !.now = n]
<1>1. p \in Record /\ p.step = s BY DEF Record
<1> HIDE DEF p
<1>2. q \in Record /\ q.step = s /\ q.now = n BY <1>1 DEF Record
<1>3. Set2(r, s, n) = q BY DEF p, Record, Set2
<1> QED BY <1>2, <1>3

LEMMA ThreeFields ==
  ASSUME NEW r \in Record, NEW s \in Steps, NEW n \in Nat,
         NEW k \in Tokens \cup {NoToken}
  PROVE  /\ Set3(r, s, n, k) \in Record
         /\ Set3(r, s, n, k).step = s /\ Set3(r, s, n, k).now = n
         /\ Set3(r, s, n, k).token = k
<1> DEFINE p == Set2(r, s, n)
           q == [p EXCEPT !.token = k]
<1>1. p \in Record /\ p.step = s /\ p.now = n BY TwoFields
<1> HIDE DEF p
<1>2. q \in Record /\ q.step = s /\ q.now = n /\ q.token = k BY <1>1 DEF Record
<1>3. Set3(r, s, n, k) = q BY DEF p, Record, Set2, Set3
<1> QED BY <1>2, <1>3

LEMMA FourFields ==
  ASSUME NEW r \in Record, NEW s \in Steps, NEW n \in Nat,
         NEW k \in Tokens \cup {NoToken}
  PROVE  /\ Set4(r, s, n, k) \in Record
         /\ Set4(r, s, n, k).step = s /\ Set4(r, s, n, k).now = n
<1> DEFINE p == Set3(r, s, n, k)
           q == [p EXCEPT !.second = TRUE]
<1>1. p \in Record /\ p.step = s /\ p.now = n BY ThreeFields
<1> HIDE DEF p
<1>2. q \in Record /\ q.step = s /\ q.now = n BY <1>1 DEF Record
<1>3. Set4(r, s, n, k) = q BY DEF p, Record, Set3, Set4
<1> QED BY <1>2, <1>3

-----------------------------------------------------------------------------
\* The steps

LEMMA AskStep == ASSUME IInv, NEW c \in Callers, Ask(c) PROVE IInv'
<1> DEFINE r == Set2(caller[c], "wait", clock)
<1>1. r \in Record /\ r.step = "wait" /\ r.now = clock
  <2>1. caller[c] \in Record /\ clock \in Nat /\ "wait" \in Steps
    BY CallerType DEF IInv, Steps
  <2> QED BY <2>1, TwoFields
<1>2. clock <= clock BY CallerType DEF IInv
<1>3. Turn(c, r) /\ caller[c].step = "idle" BY DEF Ask, At, Set2
<1> HIDE DEF r
<1> QED BY <1>1, <1>2, <1>3, Joins DEF Ask

\* What a caller finds who takes the lock.
LEMMA FirstLeaves ==
  ASSUME IInv, NEW c \in Callers, First(c), NEW g, ~Lined(g, c), g[c].now \in Nat,
         g[c].now <= clock, \A d \in Callers \ {c} : g[d] = caller[d]
  PROVE  /\ Tail(line) \in Seq(Callers) /\ Queued(Tail(line), g, clock)
         /\ \A d \in Callers : ~At(d, "login")
         /\ \A d \in Callers \ {c} : At(c, "wait") /\ At(d, "wait")
              => caller[c].now <= caller[d].now
<1>1. line \in Seq(Callers) /\ clock \in Nat BY CallerType DEF IInv, TypeOK
<1>2. line # <<>> /\ Head(line) = c /\ holder = NoCaller BY DEF First, Free
<1>3. Queued(line, caller, clock) BY DEF IInv, QueueInv
<1>4. Tail(line) \in Seq(Callers) /\ Queued(Tail(line), g, clock)
  BY <1>1, <1>2, <1>3, QueueLeaves
<1>5. \A d \in Callers : ~At(d, "login")
  BY <1>2, TokenAssumption DEF IInv, HoldInv
<1>6. ASSUME NEW d \in Callers \ {c}, At(c, "wait"), At(d, "wait")
      PROVE  caller[c].now <= caller[d].now
  <2>1. PICK j \in 1..Len(line) : line[j] = d BY <1>3, <1>6 DEF Queued, Lined, At
  <2>2. line[1] = c /\ 1 \in 1..Len(line) BY <1>1, <1>2
  <2>3. 1 < j BY <1>1, <2>1, <2>2
  <2> QED BY <1>3, <1>6, <2>1, <2>2, <2>3 DEF Queued, At
<1> QED BY <1>4, <1>5, <1>6

\* The lock is given back at once.
LEMMA TakeCached ==
  ASSUME IInv, NEW c \in Callers, First(c), At(c, "wait"), NEW r \in Record, Turn(c, r),
         r.step = "call", r.now = 0, line' = Tail(line),
         UNCHANGED <<api, clock, market, memory, holder>>
  PROVE  IInv'
<1>1. /\ caller'[c] = r
      /\ \A d \in Callers \ {c} : caller'[d] = caller[d]
      /\ caller' \in [Callers -> Record]
  BY Turned DEF IInv
<1>2. /\ line' \in Seq(Callers) /\ Queued(line', caller', clock)
      /\ \A d \in Callers : ~At(d, "login")
  <2>1. ~Lined(caller', c) BY <1>1 DEF Lined
  <2>2. 0 \in Nat /\ 0 <= clock BY CallerType DEF IInv
  <2> QED BY <1>1, <2>1, <2>2, FirstLeaves
<1>3. TypeOK' BY <1>1, <1>2 DEF IInv, TypeOK, market, memory, Record
<1>4. QueueInv' BY <1>2 DEF QueueInv
<1>5. \A d \in Callers : ~At(d, "login")' BY <1>1, <1>2 DEF At
<1>6. \A d \in Callers : At(d, "wait")' => At(d, "wait") /\ caller'[d] = caller[d]
  BY <1>1 DEF At
<1>7. HoldInv'
  <2>1. holder' = NoCaller BY DEF First, Free
  <2> QED BY <1>5, <1>6, <2>1, HoldKept, TokenAssumption
<1>8. WaitInv' BY <1>6, WaitKept DEF market
<1>9. CacheInv' BY CacheKept DEF IInv, market
<1> QED BY <1>3, <1>4, <1>7, <1>8, <1>9 DEF IInv

\* The lock is kept for a login.
LEMMA TakeLock ==
  ASSUME IInv, NEW c \in Callers, First(c), At(c, "wait"), NEW r \in Record, Turn(c, r),
         r.step = "login", r.now = TimeOf(c), ~Usable(TimeOf(c)),
         line' = Tail(line), holder' = c,
         UNCHANGED <<api, clock, market, memory>>
  PROVE  IInv'
<1>1. /\ caller'[c] = r
      /\ \A d \in Callers \ {c} : caller'[d] = caller[d]
      /\ caller' \in [Callers -> Record]
  BY Turned DEF IInv
<1>2. TimeOf(c) \in Nat /\ TimeOf(c) <= clock BY CallerType, Past DEF IInv, TimeOf
<1>3. /\ line' \in Seq(Callers) /\ Queued(line', caller', clock)
      /\ \A d \in Callers : ~At(d, "login")
      /\ \A d \in Callers \ {c} : At(d, "wait") => caller[c].now <= caller[d].now
  <2>1. ~Lined(caller', c) BY <1>1 DEF Lined
  <2> QED BY <1>1, <1>2, <2>1, FirstLeaves
<1>4. TypeOK' BY <1>1, <1>3 DEF IInv, TypeOK, market, memory, Record
<1>5. QueueInv' BY <1>3 DEF QueueInv
<1>6. \A d \in Callers : At(d, "wait")' => d # c /\ At(d, "wait") /\ caller'[d] = caller[d]
  BY <1>1 DEF At
<1>7. HoldInv'
  <2>1. \A d \in Callers : At(d, "login")' <=> d = c BY <1>1, <1>3 DEF At
  <2>2. ~Usable(caller[c].now)' BY <1>1 DEF Usable, RunOut, memory
  <2>3. ASSUME api = "digiseller", NEW e \in Callers, At(e, "wait")'
        PROVE  caller'[c].now <= caller'[e].now
    BY <1>1, <1>3, <1>6, <2>3 DEF TimeOf
  <2> QED BY <2>1, <2>2, <2>3 DEF HoldInv
<1>8. WaitInv' BY <1>6, WaitKept DEF market
<1>9. CacheInv' BY CacheKept DEF IInv, market
<1> QED BY <1>4, <1>5, <1>7, <1>8, <1>9 DEF IInv

LEMMA TakeStep == ASSUME IInv, NEW c \in Callers, Take(c) PROVE IInv'
<1>1. caller[c] \in Record BY CallerType DEF IInv
<1>2. CASE Usable(TimeOf(c))
  <2> DEFINE r == Set3(caller[c], "call", 0, cache)
  <2>1. cache \in Tokens \cup {NoToken} BY DEF IInv, TypeOK
  <2>2. r \in Record /\ r.step = "call" /\ r.now = 0
    <3>1. "call" \in Steps /\ 0 \in Nat BY DEF Steps
    <3> QED BY <1>1, <2>1, <3>1, ThreeFields
  <2>3. Turn(c, r) /\ UNCHANGED holder BY <1>2 DEF Take, Set3
  <2> HIDE DEF r
  <2> QED BY <2>2, <2>3, TakeCached DEF Take
<1>3. CASE ~Usable(TimeOf(c))
  <2> DEFINE r == Set2(caller[c], "login", TimeOf(c))
  <2>1. TimeOf(c) \in Nat BY CallerType DEF IInv, TimeOf
  <2>2. r \in Record /\ r.step = "login" /\ r.now = TimeOf(c)
    <3>1. "login" \in Steps BY DEF Steps
    <3> QED BY <1>1, <2>1, <3>1, TwoFields
  <2>3. Turn(c, r) /\ holder' = c BY <1>3 DEF Take, Set2
  <2> HIDE DEF r
  <2> QED BY <1>3, <2>2, <2>3, TakeLock DEF Take
<1> QED BY <1>2, <1>3

\* The end of a token as the cache takes it lies Spare before its real one.
LEMMA UntilBound ==
  ASSUME TypeOK, NEW now \in Nat, now <= clock, NEW life \in Lives, NEW read \in BOOLEAN,
         read \/ Fallback + Margin <= life
  PROVE  /\ Until(now, clock + life, read) \in Nat
         /\ Until(now, clock + life, read) + Spare <= clock + life
<1>1. /\ clock \in Nat /\ life \in Nat /\ Margin \in Nat /\ Fallback \in Nat
      /\ Margin <= life
  BY TokenAssumption DEF TypeOK
<1>2. CASE ~read BY <1>1, <1>2 DEF Until, Spare
<1>3. CASE read /\ api = "digiseller" BY <1>1, <1>3 DEF Until, Spare
<1>4. CASE read /\ api # "digiseller" BY <1>1, <1>4 DEF Until, Spare
<1> QED BY <1>2, <1>3, <1>4

\* Whoever leaves the lock leaves it to nobody.
LEMMA LockLeft ==
  ASSUME IInv, NEW c \in Callers, At(c, "login"), NEW r \in Record, Turn(c, r),
         r.step \in {"call", "idle"}, r.now = 0,
         UNCHANGED <<clock, line>>, holder' = NoCaller
  PROVE  /\ caller' \in [Callers -> Record]
         /\ QueueInv'
         /\ \A d \in Callers : ~At(d, "login")' /\ holder' # d
         /\ \A d \in Callers : At(d, "wait")' => At(d, "wait") /\ caller'[d] = caller[d]
<1>1. /\ caller'[c] = r
      /\ \A d \in Callers \ {c} : caller'[d] = caller[d]
      /\ caller' \in [Callers -> Record]
  BY Turned DEF IInv
<1>2. QueueInv'
  <2>1. ~Lined(caller, c) /\ ~Lined(caller', c) BY <1>1 DEF Lined, At
  <2>2. line \in Seq(Callers) /\ clock \in Nat BY CallerType DEF IInv, TypeOK
  <2>3. caller'[c].now <= clock BY <1>1, <2>2
  <2>4. Queued(line, caller, clock) BY DEF IInv, QueueInv
  <2>5. Queued(line, caller', clock) BY <1>1, <2>1, <2>2, <2>3, <2>4, QueueStays
  <2> QED BY <2>5 DEF QueueInv
<1>3. \A d \in Callers : ~At(d, "login")'
  BY <1>1 DEF At, IInv, HoldInv
<1>4. \A d \in Callers : At(d, "wait")' => At(d, "wait") /\ caller'[d] = caller[d]
  BY <1>1 DEF At
<1> QED BY <1>1, <1>2, <1>3, <1>4, TokenAssumption

LEMMA LoginOkStep ==
  ASSUME IInv, NEW c \in Callers, NEW life \in Lives, NEW read \in BOOLEAN,
         LoginOk(c, life, read)
  PROVE  IInv'
<1> DEFINE r == Set3(caller[c], "call", 0, Fresh)
<1>1. Fresh \in Tokens BY DEF LoginOk, Fresh
<1>2. r \in Record /\ r.step = "call" /\ r.now = 0
  <2>1. caller[c] \in Record /\ "call" \in Steps /\ 0 \in Nat
    BY CallerType DEF IInv, Steps
  <2>2. Fresh \in Tokens \cup {NoToken} BY <1>1
  <2> QED BY <2>1, <2>2, ThreeFields
<1>3. Turn(c, r) BY DEF LoginOk, Set3
<1> HIDE DEF r
<1>4. /\ caller' \in [Callers -> Record] /\ QueueInv'
      /\ \A d \in Callers : ~At(d, "login")' /\ holder' # d
  BY <1>2, <1>3, LockLeft DEF LoginOk
<1>5. caller[c].now \in Nat /\ caller[c].now <= clock BY CallerType, Past DEF IInv
<1>6. clock \in Nat /\ life \in Nat /\ Margin \in Nat /\ Margin <= life
  BY TokenAssumption DEF IInv, TypeOK
<1>7. /\ Until(caller[c].now, clock + life, read) \in Nat
      /\ Until(caller[c].now, clock + life, read) + Spare <= clock + life
  BY <1>5, UntilBound DEF LoginOk, IInv
<1>8. cache' = Fresh /\ dies'[cache'] = clock + life BY <1>1 DEF LoginOk
<1>9. TypeOK'
  <2>1. dies' \in [Tokens -> Nat]
    <3>1. \A t \in Tokens : dies[t] \in Nat BY DEF IInv, TypeOK
    <3>2. clock + life \in Nat BY <1>6
    <3> QED BY <3>1, <3>2 DEF LoginOk
  <2>2. revoked' \in SUBSET Tokens BY DEF LoginOk, IInv, TypeOK
  <2>3. expiry' \in Nat BY <1>7 DEF LoginOk
  <2>4. cache' \in Tokens \cup {NoToken} BY <1>1, <1>8
  <2>5. UNCHANGED <<api, clock, revocations, line>> /\ holder' = NoCaller BY DEF LoginOk
  <2> QED BY <1>4, <2>1, <2>2, <2>3, <2>4, <2>5 DEF IInv, TypeOK, Record
<1>10. HoldInv' BY <1>4 DEF HoldInv
<1>11. CacheInv'
  <2>1. Spare' = Spare BY DEF Spare, LoginOk
  <2>2. expiry' = Until(caller[c].now, clock + life, read) BY DEF LoginOk
  <2> QED BY <1>7, <1>8, <2>1, <2>2 DEF CacheInv
<1>12. WaitInv'
  <2>1. clock' + Margin <= dies'[cache'] BY <1>6, <1>8 DEF LoginOk
  <2> QED BY <2>1 DEF WaitInv
<1> QED BY <1>4, <1>9, <1>10, <1>11, <1>12 DEF IInv

LEMMA RestedType == Rested \in Record /\ Rested.step = "idle" /\ Rested.now = 0
BY DEF Rested, Record, Steps

LEMMA LoginFailsStep == ASSUME IInv, NEW c \in Callers, LoginFails(c) PROVE IInv'
<1>1. UNCHANGED memory \/ Forget BY DEF LoginFails
<1>2. /\ At(c, "login") /\ Turn(c, Rested) /\ holder' = NoCaller
      /\ UNCHANGED <<api, clock, market, line>>
  BY DEF LoginFails
<1>3. /\ caller' \in [Callers -> Record]
      /\ QueueInv'
      /\ \A d \in Callers : ~At(d, "login")' /\ holder' # d
      /\ \A d \in Callers : At(d, "wait")' => At(d, "wait") /\ caller'[d] = caller[d]
  BY <1>2, RestedType, LockLeft
<1>4. TypeOK' BY <1>1, <1>2, <1>3, MemoryType DEF IInv, TypeOK, market, Record
<1>5. HoldInv' BY <1>1, <1>2, <1>3, HoldKept
<1>6. WaitInv' BY <1>1, <1>2, <1>3, WaitKept DEF market
<1>7. CacheInv' BY <1>1, <1>2, CacheKept DEF IInv, market
<1> QED BY <1>3, <1>4, <1>5, <1>6, <1>7 DEF IInv

LEMMA GgselRefusedStep ==
  ASSUME IInv, NEW c \in Callers, NEW last \in BOOLEAN, GgselRefused(c, last)
  PROVE  IInv'
<1>1. caller[c] \in Record /\ caller[c].now <= clock /\ caller[c].step = "call"
  BY CallerType, Past DEF IInv, GgselRefused, At
<1>2. Forget /\ UNCHANGED <<api, clock, market, lock>> BY DEF GgselRefused
<1>3. CASE Turn(c, Rested)
  <2>1. 0 <= clock BY CallerType DEF IInv
  <2> QED BY <1>1, <1>2, <1>3, <2>1, RestedType, Quiet
<1>4. CASE UNCHANGED caller
  <2>1. Turn(c, caller[c]) BY <1>4, CallerType DEF IInv, Turn
  <2> QED BY <1>1, <1>2, <2>1, Quiet
<1> QED BY <1>3, <1>4 DEF GgselRefused

\* Go changes the step alone.
LEMMA Goes ==
  ASSUME IInv, NEW c \in Callers, NEW s \in Steps, Go(c, s)
  PROVE  \E r \in Record : Turn(c, r) /\ r.step = s /\ r.now = caller[c].now
<1> DEFINE r == [caller[c] EXCEPT !.step = s]
<1>1. r \in Record /\ r.step = s /\ r.now = caller[c].now
  BY CallerType DEF IInv, Record
<1> QED BY <1>1 DEF Go

LEMMA GoesToReserve ==
  ASSUME IInv, NEW c \in Callers, At(c, "call"), Go(c, "reserve"),
         UNCHANGED <<api, clock, market, memory, lock>>
  PROVE  IInv'
<1>1. PICK r \in Record : Turn(c, r) /\ r.step = "reserve" /\ r.now = caller[c].now
  BY Goes DEF Steps
<1>2. caller[c].now <= clock BY Past DEF IInv
<1> QED BY <1>1, <1>2, Quiet DEF At

LEMMA DigisellerRefusedStep ==
  ASSUME IInv, NEW c \in Callers, DigisellerRefused(c)
  PROVE  IInv'
<1>1. At(c, "call") /\ UNCHANGED <<api, clock, market, memory, holder>>
  BY DEF DigisellerRefused
<1>2. CASE Go(c, "reserve") /\ UNCHANGED line
  BY <1>1, <1>2, GoesToReserve DEF lock
<1>3. CASE Go(c, "drop") /\ line' = Append(line, c)
  <2>1. PICK r \in Record : Turn(c, r) /\ r.step = "drop" /\ r.now = caller[c].now
    BY <1>3, Goes DEF Steps
  <2>2. caller[c].now <= clock BY Past DEF IInv
  <2> QED BY <1>1, <1>3, <2>1, <2>2, Joins DEF At
<1> QED BY <1>2, <1>3 DEF DigisellerRefused

LEMMA EndsStep ==
  ASSUME IInv, NEW c \in Callers, CallEnds(c) \/ ReserveEnds(c)
  PROVE  IInv'
<1>1. caller[c].step \in {"call", "reserve"} /\ Turn(c, Rested)
      /\ UNCHANGED <<api, clock, market, memory, lock>>
  BY DEF CallEnds, ReserveEnds, At
<1>2. 0 <= clock BY CallerType DEF IInv
<1> QED BY <1>1, <1>2, RestedType, Quiet

LEMMA DropStep == ASSUME IInv, NEW c \in Callers, Drop(c) PROVE IInv'
<1> DEFINE r == Set4(caller[c], "wait", clock, NoToken)
           g == [caller EXCEPT ![c] = Rested]
<1>1. clock \in Nat /\ caller \in [Callers -> Record] BY CallerType DEF IInv
<1>2. r \in Record /\ r.step = "wait" /\ r.now = clock
  <2>1. caller[c] \in Record /\ "wait" \in Steps BY <1>1 DEF Steps
  <2>2. NoToken \in Tokens \cup {NoToken} OBVIOUS
  <2> QED BY <1>1, <2>1, <2>2, FourFields
<1>3. Turn(c, r) /\ First(c) /\ At(c, "drop") BY DEF Drop, Set4
<1> HIDE DEF r
<1>4. /\ caller'[c] = r
      /\ \A d \in Callers \ {c} : caller'[d] = caller[d]
      /\ caller' \in [Callers -> Record]
  BY <1>2, <1>3, Turned DEF IInv
<1>5. /\ g[c] = Rested /\ ~Lined(g, c) /\ \A d \in Callers \ {c} : g[d] = caller[d]
      /\ \A d \in Callers : g[d].now \in Nat
  <2>1. g \in [Callers -> Record] BY <1>1, RestedType
  <2>2. \A d \in Callers : g[d] \in Record BY <2>1
  <2>3. g[c] = Rested BY <1>1
  <2> QED BY <1>1, <2>2, <2>3, RestedType DEF Lined, Record
<1> HIDE DEF g
<1>6. /\ Tail(line) \in Seq(Callers) /\ Queued(Tail(line), g, clock)
      /\ \A d \in Callers : ~At(d, "login")
  <2>1. g[c].now \in Nat /\ g[c].now <= clock BY <1>1, <1>5, RestedType
  <2> QED BY <1>3, <1>5, <2>1, FirstLeaves
<1>7. line' \in Seq(Callers) /\ Queued(line', caller', clock)
  <2>1. Lined(caller', c) /\ caller'[c].now = clock /\ clock <= clock
    BY <1>1, <1>2, <1>4 DEF Lined
  <2>2. \A d \in Callers \ {c} : caller'[d] = g[d] BY <1>4, <1>5
  <2>3. /\ Append(Tail(line), c) \in Seq(Callers)
        /\ Queued(Append(Tail(line), c), caller', clock)
    BY <1>1, <1>5, <1>6, <2>1, <2>2, QueueJoins
  <2> QED BY <2>3 DEF Drop
<1>8. Forget /\ UNCHANGED <<api, clock, market, holder>> BY DEF Drop
<1>9. TypeOK' BY <1>4, <1>7, <1>8, MemoryType DEF IInv, TypeOK, market, Record
<1>10. QueueInv' BY <1>7, <1>8 DEF QueueInv
<1>11. \A d \in Callers : ~At(d, "login")' BY <1>2, <1>4, <1>6 DEF At
<1>12. \A d \in Callers : At(d, "wait")' =>
         \/ At(d, "wait") /\ caller'[d] = caller[d]
         \/ caller'[d].now = clock
  BY <1>2, <1>4 DEF At
<1>13. HoldInv'
  <2>1. holder' = NoCaller BY <1>3, <1>8 DEF First, Free
  <2> QED BY <1>8, <1>11, <1>12, <2>1, HoldKept, TokenAssumption
<1>14. WaitInv' BY <1>8, <1>12, WaitKept DEF market
<1>15. CacheInv' BY <1>8, CacheKept DEF IInv, market
<1> QED BY <1>9, <1>10, <1>13, <1>14, <1>15 DEF IInv

\* While time passes somebody holds the lock if anybody waits, and has found the
\* cache no earlier in use than they will.
LEMMA TickStep == ASSUME IInv, Tick PROVE IInv'
<1>1. /\ clock \in Nat /\ clock < MaxClock /\ clock' = clock + 1 /\ MaxClock \in Nat
      /\ (Free => line = <<>>)
      /\ UNCHANGED <<api, market, memory, lock, caller>>
  BY CallerType, TokenAssumption DEF IInv, Tick
<1>2. TypeOK' BY <1>1 DEF IInv, TypeOK, market, memory, lock
<1>3. QueueInv'
  <2>1. clock' \in Nat /\ clock <= clock' BY <1>1
  <2>2. \A c \in Callers : caller[c].now \in Nat BY CallerType DEF IInv
  <2>3. Queued(line, caller, clock) BY DEF IInv, QueueInv
  <2>4. Queued(line, caller, clock') BY <1>1, <2>1, <2>2, <2>3, QueueLater
  <2> QED BY <1>1, <2>4 DEF QueueInv, lock
<1>4. HoldInv' BY <1>1 DEF IInv, HoldInv, At, Usable, RunOut, memory, lock
<1>5. CacheInv' BY <1>1 DEF IInv, CacheInv, Spare, memory, market
<1>6. WaitInv'
  <2> SUFFICES ASSUME api = "digiseller", NEW d \in Callers, At(d, "wait")
               PROVE  ~Usable(caller[d].now)
    BY <1>1 DEF WaitInv, At, Usable, RunOut, memory
  <2>1. \E i \in 1..Len(line) : line[i] = d BY DEF IInv, QueueInv, Queued, Lined, At
  <2>2. line # <<>> BY <2>1
  <2>3. holder \in Callers BY <1>1, <2>2 DEF Free, IInv, TypeOK
  <2>4. /\ At(holder, "login") /\ ~Usable(caller[holder].now)
        /\ caller[holder].now <= caller[d].now
    BY <2>3 DEF IInv, HoldInv
  <2>5. caller[holder].now \in Nat /\ caller[d].now \in Nat
    BY <2>3, CallerType DEF IInv
  <2>6. RunOut(caller[holder].now) => RunOut(caller[d].now)
    BY <2>4, <2>5, RunOutGrows DEF IInv
  <2> QED BY <2>4, <2>6 DEF Usable
<1> QED BY <1>2, <1>3, <1>4, <1>5, <1>6 DEF IInv

LEMMA RevokeStep == ASSUME IInv, NEW t \in Tokens, Revoke(t) PROVE IInv'
<1>1. UNCHANGED <<api, clock, dies, memory, lock, caller>> BY DEF Revoke
<1>2. revoked' \in SUBSET Tokens /\ revocations' \in 0..MaxRevoked
  BY TokenAssumption DEF Revoke, IInv, TypeOK
<1>3. TypeOK' BY <1>1, <1>2 DEF IInv, TypeOK, memory, lock
<1> QED BY <1>1, <1>3
        DEF IInv, QueueInv, HoldInv, CacheInv, WaitInv, At, Usable, RunOut, Spare, memory, lock

LEMMA InvInit == Init => IInv
<1> SUFFICES ASSUME Init PROVE IInv OBVIOUS
<1>1. caller = [c \in Callers |-> Rested] BY DEF Init
<1>2. \A c \in Callers : caller[c].step = "idle" /\ caller[c].now = 0
  BY <1>1, RestedType
<1>3. TypeOK
  <2>1. caller \in [Callers -> Record] BY <1>1, RestedType
  <2>2. line \in Seq(Callers) BY DEF Init
  <2> QED BY <2>1, <2>2, TokenAssumption DEF Init, TypeOK, Record
<1>4. QueueInv
  <2>1. line = <<>> /\ clock = 0 BY DEF Init
  <2> QED BY <1>2, <2>1 DEF QueueInv, Queued, Lined
<1>5. HoldInv /\ WaitInv
  <2>1. \A c \in Callers : ~At(c, "login") /\ ~At(c, "wait") /\ holder # c
    BY <1>2, TokenAssumption DEF At, Init
  <2> QED BY <2>1 DEF HoldInv, WaitInv
<1>6. CacheInv BY DEF Init, CacheInv
<1> QED BY <1>3, <1>4, <1>5, <1>6 DEF IInv

LEMMA InvNext == IInv /\ [Next]_vars => IInv'
<1> SUFFICES ASSUME IInv, [Next]_vars PROVE IInv' OBVIOUS
<1>1. CASE Tick BY <1>1, TickStep
<1>2. CASE \E t \in Tokens : Revoke(t) BY <1>2, RevokeStep
<1>3. ASSUME NEW c \in Callers, Use(c) PROVE IInv'
  <2>1. CASE Ask(c) BY <2>1, AskStep
  <2>2. CASE Take(c) BY <2>2, TakeStep
  <2>3. CASE \E life \in Lives, read \in BOOLEAN : LoginOk(c, life, read)
    BY <2>3, LoginOkStep
  <2>4. CASE LoginFails(c) BY <2>4, LoginFailsStep
  <2>5. CASE \E last \in BOOLEAN : GgselRefused(c, last) BY <2>5, GgselRefusedStep
  <2>6. CASE DigisellerRefused(c) BY <2>6, DigisellerRefusedStep
  <2>7. CASE Drop(c) BY <2>7, DropStep
  <2>8. CASE CallEnds(c) \/ ReserveEnds(c) BY <2>8, EndsStep
  <2>9. CASE Elsewhere(c) BY <2>9, GoesToReserve DEF Elsewhere
  <2> QED BY <1>3, <2>1, <2>2, <2>3, <2>4, <2>5, <2>6, <2>7, <2>8, <2>9 DEF Use
<1>4. CASE UNCHANGED vars
  BY <1>4 DEF vars, market, memory, lock, IInv, TypeOK, QueueInv, HoldInv, CacheInv,
              WaitInv, At, Usable, RunOut, Spare
<1> QED BY <1>1, <1>2, <1>3, <1>4 DEF Next

\* A task changes nothing of another one.
LEMMA OneTurns ==
  ASSUME TypeOK, NEW d \in Callers, Use(d), NEW c \in Callers, c # d
  PROVE  caller'[c] = caller[c]
<1>1. UNCHANGED caller \/ \E r : Turn(d, r)
  BY DEF Use, Ask, Take, LoginOk, LoginFails, GgselRefused, DigisellerRefused, Drop,
         CallEnds, Elsewhere, ReserveEnds, Go
<1> QED BY <1>1, Turned

-----------------------------------------------------------------------------
\* Theorems

\* The lock of a token cache is held by the task that logs in and by no other,
\* and those in line have asked in the order in which they are served.
THEOREM Inductive == Spec => []IInv
BY InvInit, InvNext, PTL DEF Spec

\* GgselApi and DigisellerApi cache tokens and times, whatever fails.
THEOREM TypeCorrect == Spec => []TypeOK
<1>1. IInv => TypeOK BY DEF IInv
<1> QED BY <1>1, Inductive, PTL

\* A token that _get_token takes from the cache has Margin to live, though
\* DigisellerApi compares its end with a time read before the wait for the lock:
\* while somebody waits, the holder of the lock brings a new one or fails.
THEOREM FreshFromCache == Spec => HandsOutFresh
<1>1. IInv /\ [Next]_vars => [\A c \in Callers :
        At(c, "wait") /\ At(c, "call")' => clock + Margin <= dies[caller'[c].token]]_vars
  <2> SUFFICES ASSUME IInv, Next, NEW c \in Callers, At(c, "wait"), At(c, "call")'
               PROVE  clock + Margin <= dies[caller'[c].token]
    OBVIOUS
  <2>1. Take(c) /\ Usable(TimeOf(c)) /\ caller'[c].token = cache
    <3>1. caller'[c] # caller[c] BY DEF At
    <3>2. \E d \in Callers : Use(d) BY <3>1 DEF Next, Tick, Revoke
    <3>3. Use(c) BY <3>1, <3>2, OneTurns DEF IInv
    <3>4. Take(c)
      BY <3>1, <3>3 DEF At, Use, Ask, LoginOk, LoginFails, GgselRefused, DigisellerRefused,
                       Drop, CallEnds, Elsewhere, ReserveEnds
    <3>5. CASE Usable(TimeOf(c))
      <4> DEFINE r == Set3(caller[c], "call", 0, cache)
      <4>1. caller[c] \in Record /\ cache \in Tokens \cup {NoToken}
        BY CallerType DEF IInv, TypeOK
      <4>2. "call" \in Steps /\ 0 \in Nat BY DEF Steps
      <4>3. r.token = cache BY <4>1, <4>2, ThreeFields
      <4>4. Turn(c, r) BY <3>4, <3>5 DEF Take, Set3
      <4> HIDE DEF r
      <4> QED BY <3>4, <3>5, <4>3, <4>4, Turned DEF IInv
    <3>6. CASE ~Usable(TimeOf(c))
      <4> DEFINE r == Set2(caller[c], "login", TimeOf(c))
      <4>1. caller[c] \in Record /\ TimeOf(c) \in Nat /\ "login" \in Steps
        BY CallerType DEF IInv, TimeOf, Steps
      <4>2. r.step = "login" BY <4>1, TwoFields
      <4>3. Turn(c, r) BY <3>4, <3>6 DEF Take, Set2
      <4> HIDE DEF r
      <4> QED BY <4>2, <4>3, Turned DEF IInv, At
    <3> QED BY <3>5, <3>6
  <2>2. CASE api = "digiseller"
    BY <2>1, <2>2 DEF IInv, WaitInv, TimeOf
  <2>3. CASE api # "digiseller"
    <3>1. cache # NoToken /\ ~(clock >= expiry) BY <2>1, <2>3 DEF TimeOf, Usable, RunOut
    <3>2. expiry + Margin <= dies[cache] BY <2>3, <3>1 DEF IInv, CacheInv, Spare
    <3>3. clock \in Nat /\ expiry \in Nat /\ Margin \in Nat /\ dies[cache] \in Nat
      BY <3>1, TokenAssumption DEF IInv, TypeOK
    <3> QED BY <2>1, <3>1, <3>2, <3>3
  <2> QED BY <2>2, <2>3
<1> QED BY <1>1, Inductive, PTL DEF Spec, HandsOutFresh

\* No login replaces a token that could still be used, however many tasks have
\* found the old one run out (get_token, _get_token).
THEOREM WastesNone == Spec => NoneWasted
<1>1. IInv /\ [Next]_vars =>
        [cache' # cache /\ cache' # NoToken => cache = NoToken \/ RunOut(clock)]_vars
  <2> SUFFICES ASSUME IInv, Next, cache' # cache, cache' # NoToken
               PROVE  cache = NoToken \/ RunOut(clock)
    OBVIOUS
  <2>1. \E c \in Callers, life \in Lives, read \in BOOLEAN : LoginOk(c, life, read)
    BY DEF Next, Tick, Revoke, Use, Ask, Take, LoginFails, GgselRefused, DigisellerRefused,
           Drop, CallEnds, Elsewhere, ReserveEnds, Forget, memory
  <2>2. PICK c \in Callers : At(c, "login") BY <2>1 DEF LoginOk
  <2>3. ~Usable(caller[c].now) BY <2>2 DEF IInv, HoldInv
  <2>4. caller[c].now \in Nat /\ caller[c].now <= clock /\ clock \in Nat
    BY CallerType, Past DEF IInv
  <2>5. RunOut(caller[c].now) => RunOut(clock) BY <2>4, RunOutGrows DEF IInv
  <2> QED BY <2>3, <2>5 DEF Usable
<1> QED BY <1>1, Inductive, PTL DEF Spec, NoneWasted
=============================================================================
