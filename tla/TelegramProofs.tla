--------------------------- MODULE TelegramProofs ---------------------------
(***************************************************************************)
(* Theorems about TelegramRoutes for any number of calls, routes and       *)
(* retries.                                                                *)
(***************************************************************************)
EXTENDS TelegramRoutes, TLAPS

\* How many routes a call that begins with a comes to before r, of n routes.
Place(n, a, r) == IF r >= a THEN r - a ELSE r + n - a

\* What the attempts t of a call say about where it stands, c, with n routes
\* and k retries of each.
Counted(n, k, c, t) ==
  /\ c.step = "new" =>
       /\ c.offset = 0 /\ c.attempt = 0 /\ ~c.lost
       /\ \A r \in 0..(n - 1) : t[r] = 0
  /\ c.step = "await" =>
       /\ c.start < n /\ c.offset < n /\ c.attempt <= k /\ ~c.lost
       /\ \A r \in 0..(n - 1) :
            /\ Place(n, c.start, r) < c.offset => t[r] = k + 1
            /\ Place(n, c.start, r) = c.offset => t[r] = c.attempt
            /\ Place(n, c.start, r) > c.offset => t[r] = 0
  /\ c.step \in {"true", "false"} =>
       \A r \in 0..(n - 1) : t[r] <= k + 1 /\ (c.lost => t[r] = k + 1)

CountInv == \A s \in Sends : Counted(routes, Retries, call[s], tried[s])

\* What the copies x of a call at step p say, if it is never taken (never) and
\* Telegram acknowledges what it delivers (clear).
Borne(clear, never, p, x) ==
  /\ p = "new" \/ never => x = 0
  /\ p = "true" => x >= 1 /\ ~never
  /\ clear => x = (IF p = "true" THEN 1 ELSE 0)

CopyInv == \A s \in Sends : Borne(~ambiguous, s \in refused, call[s].step, copies[s])

\* The routes before the next one have had one call more than the others.
SpreadInv == \A q, r \in 0..(routes - 1) :
  /\ q < turn /\ r < turn => starts[q] = starts[r]
  /\ q >= turn /\ r >= turn => starts[q] = starts[r]
  /\ q < turn /\ r >= turn => starts[q] = starts[r] + 1

-----------------------------------------------------------------------------
\* Arithmetic of the routes

LEMMA ModSmall == ASSUME NEW n \in Nat \ {0}, NEW x \in Nat, x < n PROVE x % n = x
  BY SMT

LEMMA ModWraps ==
  ASSUME NEW n \in Nat \ {0}, NEW x \in Nat, x >= n, x < 2 * n
  PROVE  x % n = x - n
  BY SMT

LEMMA PlaceOfRoute ==
  ASSUME NEW n \in Nat \ {0}, NEW a \in Nat, a < n, NEW o \in Nat, o < n,
         NEW r \in 0..(n - 1)
  PROVE  (a + o) % n \in 0..(n - 1) /\ ((a + o) % n = r <=> Place(n, a, r) = o)
<1>1. CASE a + o < n
  <2>1. (a + o) % n = a + o
    <3>1. a + o \in Nat OBVIOUS
    <3> QED BY <3>1, <1>1, ModSmall
  <2>2. CASE r >= a
    <3>1. Place(n, a, r) = r - a BY <2>2 DEF Place
    <3> QED BY <2>1, <3>1, <1>1, <2>2
  <2>3. CASE r < a
    <3>1. Place(n, a, r) = r + n - a BY <2>3 DEF Place
    <3> QED BY <2>1, <3>1, <1>1, <2>3
  <2> QED BY <2>2, <2>3
<1>2. CASE a + o >= n
  <2>1. a + o \in Nat /\ a + o < 2 * n OBVIOUS
  <2>2. (a + o) % n = a + o - n
    <3> DEFINE x == a + o
    <3>1. x \in Nat /\ x >= n /\ x < 2 * n BY <2>1, <1>2
    <3> HIDE DEF x
    <3>2. x % n = x - n BY <3>1, ModWraps
    <3> QED BY <3>2 DEF x
  <2>3. CASE r >= a
    <3>1. Place(n, a, r) = r - a BY <2>3 DEF Place
    <3> QED BY <2>2, <3>1, <1>2, <2>3
  <2>4. CASE r < a
    <3>1. Place(n, a, r) = r + n - a BY <2>4 DEF Place
    <3> QED BY <2>2, <3>1, <1>2, <2>4
  <2> QED BY <2>3, <2>4
<1> QED BY <1>1, <1>2

LEMMA PlaceBound ==
  ASSUME NEW n \in Nat \ {0}, NEW a \in Nat, a < n, NEW r \in 0..(n - 1)
  PROVE  Place(n, a, r) \in 0..(n - 1)
BY DEF Place

-----------------------------------------------------------------------------
\* Type correctness

LEMMA RetriesType == TypeOK => Retries \in Nat
BY RoutesAssumption DEF TypeOK, Retries

LEMMA Moved ==
  ASSUME TypeOK, NEW s \in Sends, NEW r, Move(s, r)
  PROVE  /\ call'[s] = r
         /\ \A u \in Sends \ {s} : call'[u] = call[u]
         /\ r \in Calls => call' \in [Sends -> Calls]
BY DEF TypeOK, Move

\* Where an attempt leaves its call, and what every outcome has done.
Left(s) ==
  \/ \E p \in {"true", "false"} : Move(s, [call[s] EXCEPT !.step = p])
  \/ call[s].attempt < Retries /\ Again(s)
  \/ call[s].attempt >= Retries /\ call[s].offset + 1 < routes /\ NextRoute(s)
  \/ call[s].attempt >= Retries /\ call[s].offset + 1 >= routes /\ GiveUp(s)

\* The records an outcome leaves, field by field.
LEMMA Records ==
  ASSUME NEW c \in Calls
  PROVE  /\ \A p \in {"true", "false"} : [c EXCEPT !.step = p] \in Calls
         /\ [c EXCEPT !.attempt = @ + 1] \in Calls
         /\ [c EXCEPT !.offset = @ + 1, !.attempt = 0] \in Calls
         /\ [c EXCEPT !.step = "false", !.lost = TRUE] \in Calls
<1>1. c = [step |-> c.step, start |-> c.start, offset |-> c.offset,
           attempt |-> c.attempt, lost |-> c.lost]
  BY DEF Calls
<1>2. ASSUME NEW p \in {"true", "false"} PROVE [c EXCEPT !.step = p] \in Calls
  BY DEF Calls
<1>3. [c EXCEPT !.attempt = @ + 1] \in Calls
  BY DEF Calls
<1>4. [c EXCEPT !.offset = @ + 1, !.attempt = 0] \in Calls
  <2> DEFINE q == [c EXCEPT !.offset = @ + 1]
  <2>1. q \in Calls BY DEF Calls
  <2>2. [q EXCEPT !.attempt = 0] \in Calls
    <3> HIDE DEF q
    <3> QED BY <2>1 DEF Calls
  <2>3. [c EXCEPT !.offset = @ + 1, !.attempt = 0] = [q EXCEPT !.attempt = 0]
    BY DEF Calls
  <2> QED BY <2>2, <2>3
<1>5. [c EXCEPT !.step = "false", !.lost = TRUE] \in Calls
  BY DEF Calls
<1> QED BY <1>2, <1>3, <1>4, <1>5

LEMMA LeftType ==
  ASSUME TypeOK, NEW s \in Sends, Left(s)
  PROVE  call' \in [Sends -> Calls]
<1>1. call[s] \in Calls BY DEF TypeOK
<1>2. PICK r \in Calls : Move(s, r)
  BY <1>1, Records DEF Left, Again, NextRoute, GiveUp
<1> QED BY <1>2, Moved

\* The four outcomes are moves of one kind.
LEMMA AnswerIs ==
  ASSUME TypeOK, NEW s \in Sends, Answer(s)
  PROVE  /\ At(s, "await")
         /\ tried' = [tried EXCEPT ![s][Route(s)] = @ + 1]
         /\ UNCHANGED <<ambiguous, routes, refused, turn, starts>>
         /\ Left(s)
<1>1. CASE Accepted(s)
  BY <1>1 DEF Accepted, Left
<1>2. ASSUME NEW unknown \in BOOLEAN, Failed(s, unknown)
      PROVE  Left(s) /\ Attempted(s, unknown)
  BY <1>2 DEF Failed, Left
<1>3. ASSUME NEW unknown \in BOOLEAN, Overloaded(s, unknown)
      PROVE  Left(s) /\ Attempted(s, unknown)
  BY <1>3 DEF Overloaded, Left
<1>4. ASSUME NEW unknown \in BOOLEAN, Unreachable(s, unknown)
      PROVE  Left(s) /\ Attempted(s, unknown)
  BY <1>4 DEF Unreachable, Left
<1>5. CASE \E unknown \in BOOLEAN :
             Failed(s, unknown) \/ Overloaded(s, unknown) \/ Unreachable(s, unknown)
  <2>1. PICK unknown \in BOOLEAN : Left(s) /\ Attempted(s, unknown)
    BY <1>2, <1>3, <1>4, <1>5
  <2> QED BY <2>1 DEF Attempted
<1> QED BY <1>1, <1>5 DEF Answer

LEMMA RouteType ==
  ASSUME TypeOK, CountInv, NEW s \in Sends, At(s, "await")
  PROVE  Route(s) \in 0..(routes - 1) /\ Route(s) \in Clients
<1> DEFINE a == call[s].start
           o == call[s].offset
<1>1. routes \in Nat \ {0} /\ routes <= MaxRoutes BY RoutesAssumption DEF TypeOK
<1>2. a \in Nat /\ o \in Nat BY DEF TypeOK, Calls
<1>3. a < routes /\ o < routes BY DEF CountInv, Counted, At
<1>4. 0 \in 0..(routes - 1) BY <1>1
<1> HIDE DEF a, o
<1>5. (a + o) % routes \in 0..(routes - 1) BY <1>1, <1>2, <1>3, <1>4, PlaceOfRoute
<1>6. Route(s) \in 0..(routes - 1) BY <1>5 DEF Route, a, o
<1>7. 0..(routes - 1) \subseteq Clients BY <1>1, RoutesAssumption DEF Clients
<1> QED BY <1>6, <1>7

\* The attempts of s by its route are one more, nothing else is.
LEMMA TriedMoves ==
  ASSUME TypeOK, NEW s \in Sends, NEW r \in Clients,
         tried' = [tried EXCEPT ![s][r] = @ + 1]
  PROVE  /\ tried' \in [Sends -> [Clients -> Nat]]
         /\ tried'[s] = [tried[s] EXCEPT ![r] = @ + 1]
         /\ \A u \in Sends \ {s} : tried'[u] = tried[u]
<1>1. tried[s] \in [Clients -> Nat] BY DEF TypeOK
<1>2. [tried[s] EXCEPT ![r] = @ + 1] \in [Clients -> Nat] BY <1>1
<1>3. tried' = [tried EXCEPT ![s] = [tried[s] EXCEPT ![r] = @ + 1]] OBVIOUS
<1> QED BY <1>2, <1>3 DEF TypeOK

LEMMA NextTurn ==
  ASSUME TypeOK
  PROVE  (turn + 1) % routes = IF turn + 1 < routes THEN turn + 1 ELSE 0
<1> DEFINE x == turn + 1
<1>1. routes \in Nat \ {0} BY RoutesAssumption DEF TypeOK
<1>2. turn \in Nat /\ turn < routes BY <1>1 DEF TypeOK
<1>3. x \in Nat /\ x < 2 * routes BY <1>1, <1>2
<1>4. CASE x < routes
  <2> HIDE DEF x
  <2>1. x % routes = x BY <1>1, <1>3, <1>4, ModSmall
  <2> QED BY <2>1, <1>4 DEF x
<1>5. CASE x >= routes
  <2>1. x = routes BY <1>1, <1>2, <1>5
  <2> HIDE DEF x
  <2>2. x % routes = x - routes BY <1>1, <1>3, <1>5, ModWraps
  <2>3. x % routes = 0 BY <1>1, <2>1, <2>2
  <2>4. ~(x < routes) BY <1>1, <1>3, <1>5
  <2> QED BY <2>3, <2>4 DEF x
<1> QED BY <1>1, <1>3, <1>4, <1>5

LEMMA CopiesType ==
  ASSUME TypeOK, NEW s \in Sends, Answer(s)
  PROVE  copies' \in [Sends -> Nat]
<1>1. CASE Accepted(s) BY <1>1 DEF Accepted, TypeOK
<1>2. ASSUME NEW unknown \in BOOLEAN, Attempted(s, unknown)
      PROVE  copies' \in [Sends -> Nat]
  BY <1>2 DEF Attempted, TypeOK
<1> QED BY <1>1, <1>2 DEF Answer, Failed, Overloaded, Unreachable

LEMMA TypeInit == Init => TypeOK
<1> SUFFICES ASSUME Init PROVE TypeOK OBVIOUS
<1>1. routes \in 1..MaxRoutes /\ turn \in 0..(routes - 1)
  BY RoutesAssumption DEF Init
<1>2. call \in [Sends -> Calls] BY DEF Init, Calls
<1> QED BY <1>1, <1>2 DEF Init, TypeOK

LEMMA BeginType ==
  ASSUME TypeOK, NEW s \in Sends, Begin(s)
  PROVE  TypeOK'
<1>1. routes \in Nat \ {0} /\ turn \in Nat /\ turn < routes
  BY RoutesAssumption DEF TypeOK
<1>2. turn' \in 0..(routes - 1)
  <2>1. turn' = IF turn + 1 < routes THEN turn + 1 ELSE 0 BY NextTurn DEF Begin
  <2> QED BY <2>1, <1>1
<1>3. [call[s] EXCEPT !.step = "await", !.start = turn] \in Calls
  <2> DEFINE q == [call[s] EXCEPT !.step = "await"]
  <2>1. q \in Calls BY DEF TypeOK, Calls
  <2>2. [q EXCEPT !.start = turn] \in Calls
    <3> HIDE DEF q
    <3> QED BY <2>1, <1>1 DEF Calls
  <2>3. [call[s] EXCEPT !.step = "await", !.start = turn] = [q EXCEPT !.start = turn]
    BY DEF TypeOK, Calls
  <2> QED BY <2>2, <2>3
<1>4. call' \in [Sends -> Calls] BY <1>3, Moved DEF Begin
<1>5. starts' \in [Clients -> Nat]
  <2>1. starts \in [Clients -> Nat] BY DEF TypeOK
  <2>2. starts' = [starts EXCEPT ![turn] = @ + 1] BY DEF Begin
  <2>3. turn \in Clients BY <1>1, RoutesAssumption DEF TypeOK, Clients
  <2> QED BY <2>1, <2>2, <2>3
<1> QED BY <1>2, <1>4, <1>5 DEF Begin, TypeOK

LEMMA AnswerType ==
  ASSUME TypeOK, CountInv, NEW s \in Sends, Answer(s)
  PROVE  TypeOK'
<1>1. tried' \in [Sends -> [Clients -> Nat]] BY AnswerIs, RouteType, TriedMoves
<1>2. call' \in [Sends -> Calls] BY AnswerIs, LeftType
<1>3. copies' \in [Sends -> Nat] BY CopiesType
<1>4. UNCHANGED <<ambiguous, routes, refused, turn, starts>> BY AnswerIs
<1> QED BY <1>1, <1>2, <1>3, <1>4 DEF TypeOK

-----------------------------------------------------------------------------
\* Attempts

\* What one more attempt by the route of a call makes of the counts.
LEMMA AttemptCounts ==
  ASSUME NEW n \in Nat \ {0}, NEW k \in Nat, NEW c \in Calls, NEW t, NEW t2,
         NEW v \in 0..(n - 1),
         \A r \in 0..(n - 1) : t[r] \in Nat,
         Counted(n, k, c, t), c.step = "await",
         v = (c.start + c.offset) % n,
         \A r \in 0..(n - 1) : t2[r] = IF r = v THEN t[r] + 1 ELSE t[r]
  PROVE  /\ \A p \in {"true", "false"} : Counted(n, k, [c EXCEPT !.step = p], t2)
         /\ c.attempt < k => Counted(n, k, [c EXCEPT !.attempt = @ + 1], t2)
         /\ c.attempt >= k /\ c.offset + 1 < n =>
              Counted(n, k, [c EXCEPT !.offset = @ + 1, !.attempt = 0], t2)
         /\ c.attempt >= k /\ c.offset + 1 >= n =>
              Counted(n, k, [c EXCEPT !.step = "false", !.lost = TRUE], t2)
<1> DEFINE a == c.start
           o == c.offset
           m == c.attempt
           P(r) == Place(n, a, r)
<1>1. a \in Nat /\ o \in Nat /\ m \in Nat /\ c.lost \in BOOLEAN BY DEF Calls
<1>2. a < n /\ o < n /\ m <= k /\ ~c.lost BY DEF Counted
<1>3. \A r \in 0..(n - 1) : P(r) \in 0..(n - 1) /\ (r = v <=> P(r) = o)
  <2> HIDE DEF a, o
  <2>1. v = (a + o) % n BY DEF a, o
  <2> TAKE r \in 0..(n - 1)
  <2>2. Place(n, a, r) \in 0..(n - 1) BY <1>1, <1>2, PlaceBound
  <2>3. (a + o) % n = r <=> Place(n, a, r) = o BY <1>1, <1>2, PlaceOfRoute
  <2> QED BY <2>1, <2>2, <2>3
<1>4. \A r \in 0..(n - 1) :
        /\ P(r) < o => t[r] = k + 1
        /\ P(r) = o => t[r] = m
        /\ P(r) > o => t[r] = 0
  BY DEF Counted
<1> HIDE DEF P
<1>5. \A r \in 0..(n - 1) :
        /\ P(r) < o => t2[r] = k + 1
        /\ P(r) = o => t2[r] = m + 1
        /\ P(r) > o => t2[r] = 0
  <2> HIDE DEF o, m
  <2> QED BY <1>1, <1>3, <1>4
<1>6. \A r \in 0..(n - 1) : t2[r] <= k + 1
  <2> HIDE DEF o, m
  <2> TAKE r \in 0..(n - 1)
  <2>1. P(r) \in Nat BY <1>3
  <2>2. P(r) < o \/ P(r) = o \/ P(r) > o BY <2>1, <1>1
  <2> QED BY <2>2, <1>1, <1>2, <1>5
<1>7. ASSUME NEW p \in {"true", "false"} PROVE Counted(n, k, [c EXCEPT !.step = p], t2)
  <2> DEFINE d == [c EXCEPT !.step = p]
  <2>1. d.step \in {"true", "false"} /\ ~d.lost BY <1>2 DEF Calls
  <2> HIDE DEF d
  <2>2. Counted(n, k, d, t2) BY <2>1, <1>6 DEF Counted
  <2> QED BY <2>2 DEF d
<1>8. ASSUME m < k PROVE Counted(n, k, [c EXCEPT !.attempt = @ + 1], t2)
  <2> DEFINE d == [c EXCEPT !.attempt = @ + 1]
  <2>1. d.step = "await" /\ d.start = a /\ d.offset = o /\ d.attempt = m + 1 /\ ~d.lost
    BY <1>2 DEF Calls
  <2> HIDE DEF d, a, o, m
  <2>2. m + 1 <= k BY <1>1, <1>8
  <2>3. Counted(n, k, d, t2) BY <2>1, <2>2, <1>2, <1>5 DEF Counted, P
  <2> QED BY <2>3 DEF d, a, o, m
<1>9. ASSUME m >= k, o + 1 < n
      PROVE  Counted(n, k, [c EXCEPT !.offset = @ + 1, !.attempt = 0], t2)
  <2> DEFINE d == [c EXCEPT !.offset = @ + 1, !.attempt = 0]
  <2>1. d.step = "await" /\ d.start = a /\ d.offset = o + 1 /\ d.attempt = 0 /\ ~d.lost
    BY <1>2 DEF Calls
  <2> HIDE DEF d, a, o, m
  <2>2. m = k BY <1>1, <1>2, <1>9
  <2>3. \A r \in 0..(n - 1) :
          /\ P(r) < o + 1 => t2[r] = k + 1
          /\ P(r) = o + 1 => t2[r] = 0
          /\ P(r) > o + 1 => t2[r] = 0
    <3> TAKE r \in 0..(n - 1)
    <3>1. P(r) \in Nat BY <1>3
    <3>2. P(r) < o + 1 => P(r) < o \/ P(r) = o BY <3>1, <1>1
    <3>3. P(r) >= o + 1 => P(r) > o BY <3>1, <1>1
    <3> QED BY <3>1, <3>2, <3>3, <2>2, <1>1, <1>5
  <2>4. Counted(n, k, d, t2) BY <2>1, <2>3, <1>2, <1>9 DEF Counted, P
  <2> QED BY <2>4 DEF d, a, o, m
<1>10. ASSUME m >= k, o + 1 >= n
       PROVE  Counted(n, k, [c EXCEPT !.step = "false", !.lost = TRUE], t2)
  <2> DEFINE d == [c EXCEPT !.step = "false", !.lost = TRUE]
  <2>1. d.step = "false" BY DEF Calls
  <2> HIDE DEF d, a, o, m
  <2>2. \A r \in 0..(n - 1) : t2[r] = k + 1
    <3> TAKE r \in 0..(n - 1)
    <3>1. P(r) \in Nat /\ P(r) <= n - 1 BY <1>3
    <3>2. P(r) < o \/ P(r) = o BY <3>1, <1>1, <1>10
    <3>3. m = k BY <1>1, <1>2, <1>10
    <3> QED BY <3>2, <3>3, <1>5
  <2>3. Counted(n, k, d, t2) BY <2>1, <2>2, <1>6 DEF Counted
  <2> QED BY <2>3 DEF d
<1> QED BY <1>7, <1>8, <1>9, <1>10

\* What a call that begins makes of the counts.
LEMMA BeginCounts ==
  ASSUME NEW n \in Nat \ {0}, NEW k \in Nat, NEW c \in Calls, NEW t, NEW b \in 0..(n - 1),
         Counted(n, k, c, t), c.step = "new"
  PROVE  Counted(n, k, [c EXCEPT !.step = "await", !.start = b], t)
<1> DEFINE d == [c EXCEPT !.step = "await", !.start = b]
<1>1. d.step = "await" /\ d.start = b /\ d.offset = 0 /\ d.attempt = 0 /\ ~d.lost
  BY DEF Calls, Counted
<1>2. \A r \in 0..(n - 1) : t[r] = 0 BY DEF Counted
<1>3. \A r \in 0..(n - 1) : Place(n, b, r) \in 0..(n - 1)
  <2> TAKE r \in 0..(n - 1)
  <2> QED BY PlaceBound
<1> HIDE DEF d
<1>4. b < n /\ 0 < n /\ 0 <= k OBVIOUS
<1>5. Counted(n, k, d, t) BY <1>1, <1>2, <1>3, <1>4 DEF Counted
<1> QED BY <1>5 DEF d

LEMMA BeginKeepsCount ==
  ASSUME TypeOK, CountInv, NEW s \in Sends, Begin(s)
  PROVE  CountInv'
<1>1. routes' = routes /\ Retries' = Retries /\ tried' = tried BY DEF Begin, Retries
<1>2. routes \in Nat \ {0} /\ Retries \in Nat BY RetriesType, RoutesAssumption DEF TypeOK
<1>3. Counted(routes, Retries, call'[s], tried[s])
  <2>1. call'[s] = [call[s] EXCEPT !.step = "await", !.start = turn]
    BY Moved DEF Begin
  <2>2. call[s] \in Calls /\ turn \in 0..(routes - 1) BY DEF TypeOK
  <2>3. Counted(routes, Retries, call[s], tried[s]) /\ call[s].step = "new"
    BY DEF CountInv, Begin, At
  <2>4. Counted(routes, Retries, [call[s] EXCEPT !.step = "await", !.start = turn], tried[s])
    BY <1>2, <2>2, <2>3, BeginCounts
  <2> QED BY <2>1, <2>4
<1>4. \A u \in Sends \ {s} : call'[u] = call[u] BY Moved DEF Begin
<1> QED BY <1>1, <1>3, <1>4 DEF CountInv

LEMMA AnswerKeepsCount ==
  ASSUME TypeOK, CountInv, NEW s \in Sends, Answer(s)
  PROVE  CountInv'
<1> DEFINE c == call[s]
           t2 == tried'[s]
<1>1. routes' = routes /\ Retries' = Retries BY AnswerIs DEF Retries
<1>2. routes \in Nat \ {0} /\ Retries \in Nat BY RetriesType, RoutesAssumption DEF TypeOK
<1>3. Route(s) \in 0..(routes - 1) /\ Route(s) \in Clients BY AnswerIs, RouteType
<1>4. /\ tried'[s] = [tried[s] EXCEPT ![Route(s)] = @ + 1]
      /\ \A u \in Sends \ {s} : tried'[u] = tried[u]
  BY <1>3, AnswerIs, TriedMoves
<1>5. tried[s] \in [Clients -> Nat] /\ c \in Calls BY DEF TypeOK
<1>6. \A r \in 0..(routes - 1) : r \in Clients
  BY <1>2, RoutesAssumption DEF TypeOK, Clients
<1>7. \A r \in 0..(routes - 1) : tried[s][r] \in Nat BY <1>5, <1>6
<1>8. \A r \in 0..(routes - 1) :
        t2[r] = IF r = Route(s) THEN tried[s][r] + 1 ELSE tried[s][r]
  BY <1>4, <1>5, <1>6
<1>9. Counted(routes, Retries, c, tried[s]) /\ c.step = "await"
  BY AnswerIs DEF CountInv, At
<1>10. Route(s) = (c.start + c.offset) % routes BY DEF Route
<1> HIDE DEF c, t2
<1>11. /\ \A p \in {"true", "false"} :
            Counted(routes, Retries, [c EXCEPT !.step = p], t2)
       /\ c.attempt < Retries =>
            Counted(routes, Retries, [c EXCEPT !.attempt = @ + 1], t2)
       /\ c.attempt >= Retries /\ c.offset + 1 < routes =>
            Counted(routes, Retries, [c EXCEPT !.offset = @ + 1, !.attempt = 0], t2)
       /\ c.attempt >= Retries /\ c.offset + 1 >= routes =>
            Counted(routes, Retries, [c EXCEPT !.step = "false", !.lost = TRUE], t2)
  BY <1>2, <1>3, <1>5, <1>7, <1>8, <1>9, <1>10, AttemptCounts
<1>12. PICK r : Move(s, r) /\ Counted(routes, Retries, r, t2)
  <2>1. Left(s) BY AnswerIs
  <2> QED BY <2>1, <1>11 DEF Left, Again, NextRoute, GiveUp, c
<1>13. Counted(routes, Retries, call'[s], tried'[s]) BY <1>12, Moved DEF t2
<1>14. \A u \in Sends \ {s} : call'[u] = call[u] BY <1>12, Moved
<1> QED BY <1>1, <1>4, <1>13, <1>14 DEF CountInv

LEMMA CountInit == Init => CountInv
<1> SUFFICES ASSUME Init, NEW s \in Sends
             PROVE  Counted(routes, Retries, call[s], tried[s])
  BY DEF CountInv
<1>1. /\ call[s].step = "new" /\ call[s].offset = 0 /\ call[s].attempt = 0
      /\ ~call[s].lost
  BY DEF Init
<1>2. tried[s] = [r \in Clients |-> 0] BY DEF Init
<1>3. \A r \in 0..(routes - 1) : r \in Clients BY RoutesAssumption DEF Init, Clients
<1>4. \A r \in 0..(routes - 1) : tried[s][r] = 0 BY <1>2, <1>3
<1> QED BY <1>1, <1>4 DEF Counted

\* Every reachable state is well-typed, and the attempts of a call are those of
\* the routes it has left behind and of the one it waits for.
THEOREM Counts == Spec => [](TypeOK /\ CountInv)
<1>1. Init => TypeOK /\ CountInv BY TypeInit, CountInit
<1>2. TypeOK /\ CountInv /\ [Next]_vars => (TypeOK /\ CountInv)'
  <2> SUFFICES ASSUME TypeOK, CountInv, [Next]_vars PROVE (TypeOK /\ CountInv)'
    OBVIOUS
  <2>1. ASSUME NEW s \in Sends, Begin(s) PROVE (TypeOK /\ CountInv)'
    BY <2>1, BeginType, BeginKeepsCount
  <2>2. ASSUME NEW s \in Sends, Answer(s) PROVE (TypeOK /\ CountInv)'
    BY <2>2, AnswerType, AnswerKeepsCount
  <2>3. CASE UNCHANGED vars
    BY <2>3 DEF vars, TypeOK, CountInv, Retries
  <2> QED BY <2>1, <2>2, <2>3 DEF Next
<1> QED BY <1>1, <1>2, PTL DEF Spec

\* TelegramApi and BaseApi keep their indices within the clients there are.
THEOREM TypeCorrect == Spec => []TypeOK
BY Counts, PTL

\* A call of send_message that gives up has tried each route as often as
\* RETRY_TOTAL allows and no more, whatever other calls do meanwhile.
THEOREM TriesEveryRoute == Spec => []EveryRouteTried
<1>1. TypeOK /\ CountInv => EveryRouteTried
  <2> SUFFICES ASSUME TypeOK, CountInv, NEW s \in Sends, NEW r \in 0..(routes - 1)
               PROVE  /\ tried[s][r] <= Retries + 1
                      /\ call[s].lost => tried[s][r] = Retries + 1
    BY DEF EveryRouteTried
  <2>1. routes \in Nat \ {0} /\ Retries \in Nat BY RetriesType, RoutesAssumption DEF TypeOK
  <2>2. call[s] \in Calls BY DEF TypeOK
  <2>3. Counted(routes, Retries, call[s], tried[s]) BY DEF CountInv
  <2>4. call[s].start \in Nat /\ call[s].offset \in Nat /\ call[s].attempt \in Nat
    BY <2>2 DEF Calls
  <2>5. CASE call[s].step = "new" BY <2>1, <2>3, <2>5 DEF Counted
  <2>6. CASE call[s].step = "await"
    <3> DEFINE x == Place(routes, call[s].start, r)
    <3>1. call[s].start < routes BY <2>3, <2>6 DEF Counted
    <3>2. x \in Nat
      <4> DEFINE a == call[s].start
      <4>1. a \in Nat /\ a < routes BY <2>4, <3>1
      <4> HIDE DEF a
      <4>2. Place(routes, a, r) \in 0..(routes - 1) BY <2>1, <4>1, PlaceBound
      <4>3. Place(routes, a, r) \in Nat BY <2>1, <4>2
      <4> QED BY <4>3 DEF a
    <3>3. x < call[s].offset \/ x = call[s].offset \/ x > call[s].offset BY <3>2, <2>4
    <3>4. /\ x < call[s].offset => tried[s][r] = Retries + 1
          /\ x = call[s].offset => tried[s][r] = call[s].attempt
          /\ x > call[s].offset => tried[s][r] = 0
          /\ call[s].attempt <= Retries /\ ~call[s].lost
      BY <2>3, <2>6 DEF Counted
    <3> HIDE DEF x
    <3> QED BY <2>1, <2>4, <3>3, <3>4
  <2>7. CASE call[s].step \in {"true", "false"} BY <2>3, <2>7 DEF Counted
  <2> QED BY <2>2, <2>5, <2>6, <2>7 DEF Calls
<1> QED BY <1>1, Counts, PTL

-----------------------------------------------------------------------------
\* Spread

LEMMA SpreadStep ==
  ASSUME TypeOK, SpreadInv, NEW s \in Sends, Begin(s)
  PROVE  SpreadInv'
<1>1. routes \in Nat \ {0} /\ turn \in Nat /\ turn < routes
  BY RoutesAssumption DEF TypeOK
<1>2. 0..(routes - 1) \subseteq Clients BY <1>1, RoutesAssumption DEF TypeOK, Clients
<1>3. \A q \in 0..(routes - 1) :
        starts[q] \in Nat /\ starts'[q] = IF q = turn THEN starts[q] + 1 ELSE starts[q]
  BY <1>2 DEF TypeOK, Begin
<1>4. routes' = routes /\ turn' = IF turn + 1 < routes THEN turn + 1 ELSE 0
  BY NextTurn DEF Begin
<1>5. turn \in 0..(routes - 1) BY <1>1
<1> SUFFICES ASSUME NEW q \in 0..(routes - 1), NEW r \in 0..(routes - 1)
             PROVE  /\ q < turn' /\ r < turn' => starts'[q] = starts'[r]
                    /\ q >= turn' /\ r >= turn' => starts'[q] = starts'[r]
                    /\ q < turn' /\ r >= turn' => starts'[q] = starts'[r] + 1
  BY <1>4 DEF SpreadInv
<1>6. /\ q < turn /\ r < turn => starts[q] = starts[r]
      /\ q >= turn /\ r >= turn => starts[q] = starts[r]
      /\ q < turn /\ r >= turn => starts[q] = starts[r] + 1
      /\ r < turn /\ q >= turn => starts[r] = starts[q] + 1
  BY DEF SpreadInv
<1>7. CASE turn + 1 < routes BY <1>1, <1>3, <1>4, <1>6, <1>7
<1>8. CASE turn + 1 = routes BY <1>1, <1>3, <1>4, <1>6, <1>8
<1> QED BY <1>1, <1>7, <1>8

\* Whatever calls fail or overlap, no route begins two calls more than another:
\* _next_client_index is read and moved on in one step (send_message).
THEOREM SpreadsEvenly == Spec => []Balanced
<1>1. Init => SpreadInv BY RoutesAssumption DEF Init, SpreadInv, Clients
<1>2. TypeOK /\ SpreadInv /\ [Next]_vars => SpreadInv'
  <2> SUFFICES ASSUME TypeOK, SpreadInv, [Next]_vars PROVE SpreadInv' OBVIOUS
  <2>1. ASSUME NEW s \in Sends, Answer(s) PROVE SpreadInv'
    <3>1. UNCHANGED <<routes, turn, starts>> BY <2>1, AnswerIs
    <3> QED BY <3>1 DEF SpreadInv
  <2>2. CASE UNCHANGED vars BY <2>2 DEF vars, SpreadInv
  <2> QED BY <2>1, <2>2, SpreadStep DEF Next
<1>3. TypeOK /\ SpreadInv => Balanced
  <2> SUFFICES ASSUME TypeOK, SpreadInv,
                      NEW q \in 0..(routes - 1), NEW r \in 0..(routes - 1)
               PROVE  starts[q] <= starts[r] + 1
    BY DEF Balanced
  <2>1. routes \in Nat \ {0} /\ turn \in Nat BY RoutesAssumption DEF TypeOK
  <2>2. q \in Clients /\ r \in Clients BY <2>1, RoutesAssumption DEF TypeOK, Clients
  <2>3. starts[q] \in Nat /\ starts[r] \in Nat BY <2>2 DEF TypeOK
  <2>4. /\ q < turn /\ r < turn => starts[q] = starts[r]
        /\ q >= turn /\ r >= turn => starts[q] = starts[r]
        /\ q < turn /\ r >= turn => starts[q] = starts[r] + 1
        /\ r < turn /\ q >= turn => starts[r] = starts[q] + 1
    BY DEF SpreadInv
  <2> QED BY <2>1, <2>3, <2>4
<1> QED BY <1>1, <1>2, <1>3, TypeCorrect, PTL DEF Spec

-----------------------------------------------------------------------------
\* The contract

LEMMA CopiesMove ==
  ASSUME TypeOK, NEW s \in Sends, NEW i \in {0, 1},
         copies' = [copies EXCEPT ![s] = @ + i]
  PROVE  /\ copies[s] \in Nat /\ copies'[s] = copies[s] + i
         /\ \A u \in Sends \ {s} : copies'[u] = copies[u]
BY DEF TypeOK

LEMMA StepKept ==
  ASSUME NEW c \in Calls, NEW b
  PROVE  /\ [c EXCEPT !.offset = @ + 1, !.attempt = 0].step = c.step
         /\ [c EXCEPT !.step = "false", !.lost = TRUE].step = "false"
         /\ [c EXCEPT !.step = "await", !.start = b].step = "await"
BY DEF Calls

LEMMA BeginMoves ==
  ASSUME TypeOK, NEW s \in Sends, Begin(s)
  PROVE  call'[s].step = "await" /\ \A u \in Sends \ {s} : call'[u] = call[u]
<1>1. [call[s] EXCEPT !.step = "await", !.start = turn].step = "await"
  BY StepKept DEF TypeOK
<1> QED BY <1>1, Moved DEF Begin

\* An answer either ends its call or leaves it waiting.
LEMMA LeftStep ==
  ASSUME TypeOK, NEW s \in Sends, At(s, "await"),
         \/ call[s].attempt < Retries /\ Again(s)
         \/ NextRoute(s) \/ GiveUp(s)
         \/ Move(s, [call[s] EXCEPT !.step = "false"])
  PROVE  call'[s].step \in {"await", "false"} /\ \A u \in Sends \ {s} : call'[u] = call[u]
<1>1. call[s] \in Calls /\ call[s].step = "await" BY DEF TypeOK, At
<1>2. CASE Again(s)
  <2>1. [call[s] EXCEPT !.attempt = @ + 1].step = "await" BY <1>1 DEF Calls
  <2> QED BY <2>1, <1>2, Moved DEF Again
<1>3. CASE NextRoute(s)
  <2>1. [call[s] EXCEPT !.offset = @ + 1, !.attempt = 0].step = "await"
    BY <1>1, StepKept
  <2> QED BY <2>1, <1>3, Moved DEF NextRoute
<1>4. CASE GiveUp(s)
  <2>1. [call[s] EXCEPT !.step = "false", !.lost = TRUE].step = "false"
    BY <1>1, StepKept
  <2> QED BY <2>1, <1>4, Moved DEF GiveUp
<1>5. CASE Move(s, [call[s] EXCEPT !.step = "false"])
  <2>1. [call[s] EXCEPT !.step = "false"].step = "false" BY <1>1 DEF Calls
  <2> QED BY <2>1, <1>5, Moved
<1> QED BY <1>2, <1>3, <1>4, <1>5

\* What an answer does to the copies and to the step of its call.
LEMMA AnswerBears ==
  ASSUME TypeOK, CopyInv, NEW s \in Sends, Answer(s)
  PROVE  /\ Borne(~ambiguous, s \in refused, call'[s].step, copies'[s])
         /\ call'[s].step \in {"await", "true", "false"}
         /\ \A u \in Sends \ {s} : call'[u] = call[u] /\ copies'[u] = copies[u]
<1>1. At(s, "await") /\ call[s] \in Calls BY AnswerIs DEF TypeOK
<1>2. Borne(~ambiguous, s \in refused, "await", copies[s]) BY <1>1 DEF CopyInv, At
<1>3. CASE Accepted(s)
  <2>1. s \notin refused /\ copies' = [copies EXCEPT ![s] = @ + 1] BY <1>3 DEF Accepted
  <2>2. /\ copies[s] \in Nat /\ copies'[s] = copies[s] + 1
        /\ \A u \in Sends \ {s} : copies'[u] = copies[u]
    BY <2>1, CopiesMove
  <2>3. Move(s, [call[s] EXCEPT !.step = "true"]) BY <1>3 DEF Accepted
  <2>4. call'[s].step = "true" /\ \A u \in Sends \ {s} : call'[u] = call[u]
    BY <1>1, <2>3, Moved DEF Calls
  <2> QED BY <1>2, <2>1, <2>2, <2>4 DEF Borne
<1>4. ASSUME NEW unknown \in BOOLEAN,
             Failed(s, unknown) \/ Overloaded(s, unknown) \/ Unreachable(s, unknown)
      PROVE  /\ Borne(~ambiguous, s \in refused, call'[s].step, copies'[s])
             /\ call'[s].step \in {"await", "true", "false"}
             /\ \A u \in Sends \ {s} : call'[u] = call[u] /\ copies'[u] = copies[u]
  <2> DEFINE i == IF unknown THEN 1 ELSE 0
  <2>1. (unknown => ambiguous /\ s \notin refused) /\ copies' = [copies EXCEPT ![s] = @ + i]
    BY <1>4 DEF Failed, Overloaded, Unreachable, Attempted
  <2>2. i \in {0, 1} /\ (i = 1 => unknown) OBVIOUS
  <2> HIDE DEF i
  <2>3. /\ copies[s] \in Nat /\ copies'[s] = copies[s] + i
        /\ \A u \in Sends \ {s} : copies'[u] = copies[u]
    BY <2>1, <2>2, CopiesMove
  <2>4. /\ call'[s].step \in {"await", "false"}
        /\ \A u \in Sends \ {s} : call'[u] = call[u]
    BY <1>1, <1>4, LeftStep DEF Failed, Overloaded, Unreachable
  <2> QED BY <1>2, <2>1, <2>2, <2>3, <2>4 DEF Borne
<1> QED BY <1>3, <1>4 DEF Answer

LEMMA CopyStep == TypeOK /\ CopyInv /\ [Next]_vars => CopyInv'
<1> SUFFICES ASSUME TypeOK, CopyInv, [Next]_vars PROVE CopyInv' OBVIOUS
<1>1. ASSUME NEW s \in Sends, Begin(s) PROVE CopyInv'
  <2>1. UNCHANGED <<ambiguous, refused, copies>> BY <1>1 DEF Begin
  <2>2. call'[s].step = "await" /\ \A u \in Sends \ {s} : call'[u] = call[u]
    BY <1>1, BeginMoves
  <2>3. Borne(~ambiguous, s \in refused, "new", copies[s]) BY <1>1 DEF Begin, At, CopyInv
  <2>4. Borne(~ambiguous, s \in refused, "await", copies[s]) BY <2>3 DEF Borne
  <2> QED BY <2>1, <2>2, <2>4 DEF CopyInv
<1>2. ASSUME NEW s \in Sends, Answer(s) PROVE CopyInv'
  <2>1. UNCHANGED <<ambiguous, refused>> BY <1>2, AnswerIs
  <2> QED BY <1>2, <2>1, AnswerBears DEF CopyInv
<1>3. CASE UNCHANGED vars BY <1>3 DEF vars, CopyInv
<1> QED BY <1>1, <1>2, <1>3 DEF Next

LEMMA CopyCorrect == Spec => []CopyInv
<1>1. Init => CopyInv
  <2> SUFFICES ASSUME Init, NEW s \in Sends
               PROVE  Borne(~ambiguous, s \in refused, call[s].step, copies[s])
    BY DEF CopyInv
  <2>1. call[s].step = "new" /\ copies[s] = 0 BY DEF Init
  <2> QED BY <2>1 DEF Borne
<1> QED BY <1>1, CopyStep, TypeCorrect, PTL DEF Spec

\* What the contract sees of a call.
Ended(s) == call[s].step \in {"true", "false"}

Verdict == [s \in Sends |-> IF call[s].step \in {"true", "false"}
                            THEN call[s].step ELSE "open"]

Arrived == [s \in Sends |-> IF call[s].step \in {"true", "false"}
                            THEN copies[s] ELSE 0]

LEMMA ContractInit == Init => Contract!Init
BY DEF Init, Contract!Init

LEMMA ContractStutter ==
  ASSUME UNCHANGED <<ambiguous, refused, Verdict, Arrived>>
  PROVE  [Contract!Next]_<<ambiguous, refused, Verdict, Arrived>>
OBVIOUS

\* A step of s that leaves it under way is a stutter.
LEMMA UnderWayStutters ==
  ASSUME NEW s \in Sends, ~Ended(s), ~Ended(s)', UNCHANGED <<ambiguous, refused>>,
         \A u \in Sends \ {s} : call'[u] = call[u] /\ copies'[u] = copies[u]
  PROVE  UNCHANGED <<ambiguous, refused, Verdict, Arrived>>
BY DEF Ended, Verdict, Arrived

LEMMA EndReturns ==
  ASSUME TypeOK, NEW s \in Sends, At(s, "await"), Ended(s)',
         UNCHANGED <<ambiguous, refused>>, copies'[s] \in Nat,
         Borne(~ambiguous, s \in refused, call'[s].step, copies'[s]),
         \A u \in Sends \ {s} : call'[u] = call[u] /\ copies'[u] = copies[u]
  PROVE  Contract!Next
<1> DEFINE ok == call'[s].step = "true"
<1>1. /\ Verdict[s] = "open" /\ Arrived'[s] = copies'[s]
  BY DEF Ended, Verdict, Arrived, At
<1>2. Verdict' = [Verdict EXCEPT ![s] = IF ok THEN "true" ELSE "false"]
  BY DEF Ended, Verdict
<1>3. Arrived' = [Arrived EXCEPT ![s] = copies'[s]]
  BY DEF Ended, Arrived
<1>4. /\ ok => copies'[s] >= 1 /\ s \notin refused
      /\ s \in refused => copies'[s] = 0
      /\ ~ambiguous => copies'[s] = IF ok THEN 1 ELSE 0
  BY DEF Borne
<1>5. Contract!Return(s, ok, Arrived'[s])
  BY <1>1, <1>2, <1>3, <1>4 DEF Contract!Return, Verdict, Arrived
<1>6. ok \in BOOLEAN /\ Arrived'[s] \in Nat BY <1>1
<1> HIDE DEF ok
<1> QED BY <1>5, <1>6 DEF Contract!Next, Verdict, Arrived

\* However a call wanders over routes and repeats its attempts, and whatever
\* other calls do: what it returns agrees with what it has brought to the channel
\* (TelegramApi.send_message), as OrderStatus and ChatPoller assume.
THEOREM RefinesContract == Spec => KeepsTelegramContract
<1>1. TypeOK /\ TypeOK' /\ CopyInv /\ [Next]_vars
        => [Contract!Next]_<<ambiguous, refused, Verdict, Arrived>>
  <2> SUFFICES ASSUME TypeOK, TypeOK', CopyInv, [Next]_vars
               PROVE  [Contract!Next]_<<ambiguous, refused, Verdict, Arrived>>
    OBVIOUS
  <2>1. ASSUME NEW s \in Sends, Begin(s)
        PROVE  UNCHANGED <<ambiguous, refused, Verdict, Arrived>>
    <3>1. UNCHANGED <<ambiguous, refused, copies>> BY <2>1 DEF Begin
    <3>2. call'[s].step = "await" /\ \A u \in Sends \ {s} : call'[u] = call[u]
      BY <2>1, BeginMoves
    <3>3. ~Ended(s) /\ ~Ended(s)' BY <2>1, <3>2 DEF Begin, At, Ended
    <3> QED BY <3>1, <3>2, <3>3, UnderWayStutters
  <2>2. ASSUME NEW s \in Sends, Answer(s)
        PROVE  [Contract!Next]_<<ambiguous, refused, Verdict, Arrived>>
    <3>1. UNCHANGED <<ambiguous, refused>> /\ At(s, "await") BY <2>2, AnswerIs
    <3>2. /\ Borne(~ambiguous, s \in refused, call'[s].step, copies'[s])
          /\ \A u \in Sends \ {s} : call'[u] = call[u] /\ copies'[u] = copies[u]
      BY <2>2, AnswerBears
    <3>3. copies'[s] \in Nat BY DEF TypeOK
    <3>4. CASE Ended(s)' BY <3>1, <3>2, <3>3, <3>4, EndReturns
    <3>5. CASE ~Ended(s)'
      <4>1. ~Ended(s) BY <3>1 DEF At, Ended
      <4> QED BY <3>1, <3>2, <3>5, <4>1, UnderWayStutters, ContractStutter
    <3> QED BY <3>4, <3>5
  <2>3. CASE UNCHANGED vars
    <3>1. UNCHANGED <<ambiguous, refused, Verdict, Arrived>>
      BY <2>3 DEF vars, Verdict, Arrived
    <3> QED BY <3>1
  <2> QED BY <2>1, <2>2, <2>3, ContractStutter DEF Next
<1> QED BY <1>1, ContractInit, TypeCorrect, CopyCorrect, PTL
        DEF Spec, KeepsTelegramContract, Contract!Spec, Verdict, Arrived
=============================================================================
