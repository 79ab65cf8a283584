--------------------------- MODULE TelegramRoutes ---------------------------
(***************************************************************************)
(* Concurrent calls of TelegramApi.send_message over one or several        *)
(* proxies (app/clients/telegram/client.py), each attempt made through     *)
(* BaseApi.request (app/clients/base.py).                                  *)
(*                                                                         *)
(* A step is an attempt whose outcome has come, with what the call does    *)
(* until it awaits the next one.  The pauses between attempts change       *)
(* nothing, and attempts of different calls come in any order.             *)
(***************************************************************************)
EXTENDS Naturals

CONSTANTS
  Sends,      \* calls of send_message
  MaxRoutes,  \* bound: proxies
  RetryTotal  \* RETRY_TOTAL

ASSUME RoutesAssumption ==
  /\ MaxRoutes \in Nat \ {0}
  /\ RetryTotal \in Nat

VARIABLES
  ambiguous, \* may Telegram deliver what it does not acknowledge?
  routes,   \* how many clients there are, one for each proxy
  refused,  \* calls whose message Telegram will never take
  turn,     \* _next_client_index
  call,     \* where each call stands
  copies,   \* messages that each call has brought to the channel
  tried,    \* attempts of each call by each route
  starts    \* calls that have begun with each route

vars == <<ambiguous, routes, refused, turn, call, copies, tried, starts>>

Clients == 0..(MaxRoutes - 1)

\* start: start_index; attempt: of the loop in _perform; lost: the call gave up
\* because no route was left.
Calls == [step : {"new", "await", "true", "false"}, start : Nat, offset : Nat,
          attempt : Nat, lost : BOOLEAN]

TypeOK ==
  /\ ambiguous \in BOOLEAN
  /\ routes \in 1..MaxRoutes
  /\ refused \in SUBSET Sends
  /\ turn \in 0..(routes - 1)
  /\ call \in [Sends -> Calls]
  /\ copies \in [Sends -> Nat]
  /\ tried \in [Sends -> [Clients -> Nat]]
  /\ starts \in [Clients -> Nat]

At(s, step) == call[s].step = step

\* With a route to fall back on a route is tried once (_request_retries).
Retries == IF routes > 1 THEN 0 ELSE RetryTotal

\* Mutant: the route is looked up where the next call will begin.
RouteOfTheNext(s) == (turn + call[s].offset) % routes

Route(s) == (call[s].start + call[s].offset) % routes

Move(s, r) == call' = [call EXCEPT ![s] = r]

Init ==
  /\ ambiguous \in BOOLEAN
  /\ routes \in 1..MaxRoutes
  /\ refused \in SUBSET Sends
  /\ turn = 0
  /\ call = [s \in Sends |-> [step |-> "new", start |-> 0, offset |-> 0,
                              attempt |-> 0, lost |-> FALSE]]
  /\ copies = [s \in Sends |-> 0]
  /\ tried = [s \in Sends |-> [r \in Clients |-> 0]]
  /\ starts = [r \in Clients |-> 0]

\* Mutant: the index goes on from a number nobody reduces.
BeginPastTheEnd(s) ==
  /\ At(s, "new")
  /\ Move(s, [call[s] EXCEPT !.step = "await", !.start = turn])
  /\ turn' = turn + 1
  /\ starts' = [starts EXCEPT ![turn] = @ + 1]
  /\ UNCHANGED <<ambiguous, routes, refused, copies, tried>>

Begin(s) ==
  /\ At(s, "new")
  /\ Move(s, [call[s] EXCEPT !.step = "await", !.start = turn])
  /\ turn' = (turn + 1) % routes
  /\ starts' = [starts EXCEPT ![turn] = @ + 1]
  /\ UNCHANGED <<ambiguous, routes, refused, copies, tried>>

\* What every outcome of an attempt has in common, and how many copies came
\* of it although the call did not learn of them.
Attempted(s, unknown) ==
  /\ At(s, "await")
  /\ unknown => ambiguous /\ s \notin refused
  /\ tried' = [tried EXCEPT ![s][Route(s)] = @ + 1]
  /\ copies' = [copies EXCEPT ![s] = @ + (IF unknown THEN 1 ELSE 0)]
  /\ UNCHANGED <<ambiguous, routes, refused, turn, starts>>

Accepted(s) ==
  /\ At(s, "await")
  /\ s \notin refused
  /\ tried' = [tried EXCEPT ![s][Route(s)] = @ + 1]
  /\ copies' = [copies EXCEPT ![s] = @ + 1]
  /\ Move(s, [call[s] EXCEPT !.step = "true"])
  /\ UNCHANGED <<ambiguous, routes, refused, turn, starts>>

\* A status that is not repeated, or an answer that cannot be read: any error
\* but one of the transport ends the call at once.
Failed(s, unknown) ==
  /\ Attempted(s, unknown)
  /\ Move(s, [call[s] EXCEPT !.step = "false"])

Again(s) == Move(s, [call[s] EXCEPT !.attempt = @ + 1])

\* Mutant: the answer to the last attempt is returned whatever its status.
OverloadedReturned(s, unknown) ==
  /\ Attempted(s, unknown)
  /\ \/ call[s].attempt < Retries /\ Again(s)
     \/ call[s].attempt >= Retries /\ Move(s, [call[s] EXCEPT !.step = "true"])

\* One of RETRY_STATUSES.
Overloaded(s, unknown) ==
  /\ Attempted(s, unknown)
  /\ \/ call[s].attempt < Retries /\ Again(s)
     \/ call[s].attempt >= Retries /\ Move(s, [call[s] EXCEPT !.step = "false"])

NextRoute(s) == Move(s, [call[s] EXCEPT !.offset = @ + 1, !.attempt = 0])

GiveUp(s) == Move(s, [call[s] EXCEPT !.step = "false", !.lost = TRUE])

\* Mutant: after the last route comes the first one.
UnreachableRoundAndRound(s, unknown) ==
  /\ At(s, "await")
  /\ Move(s, [call[s] EXCEPT !.offset = (@ + 1) % routes, !.attempt = 0])
  /\ UNCHANGED <<ambiguous, routes, refused, turn, copies, tried, starts>>

\* TransportError: connection, proxy or time-out.
Unreachable(s, unknown) ==
  /\ Attempted(s, unknown)
  /\ \/ call[s].attempt < Retries /\ Again(s)
     \/ call[s].attempt >= Retries /\ call[s].offset + 1 < routes /\ NextRoute(s)
     \/ call[s].attempt >= Retries /\ call[s].offset + 1 >= routes /\ GiveUp(s)

Answer(s) ==
  \/ Accepted(s)
  \/ \E unknown \in BOOLEAN :
       Failed(s, unknown) \/ Overloaded(s, unknown) \/ Unreachable(s, unknown)

Next == \E s \in Sends : Begin(s) \/ Answer(s)

Spec == Init /\ [][Next]_vars

-----------------------------------------------------------------------------
\* Safety

\* A call that gives up because no route is left has tried every route as often
\* as it should, and no call tries one more often, whatever calls that run at
\* the same time do to the index they share (send_message, _perform).
EveryRouteTried == \A s \in Sends : \A r \in 0..(routes - 1) :
  /\ tried[s][r] <= Retries + 1
  /\ call[s].lost => tried[s][r] = Retries + 1

\* Calls are spread over the routes evenly, in whatever order they end.
Balanced == \A q, r \in 0..(routes - 1) : starts[q] <= starts[r] + 1

\* A whole call looks from outside like one step of the contract.
Contract == INSTANCE TelegramContract WITH
  verdict <- [s \in Sends |-> IF call[s].step \in {"true", "false"}
                              THEN call[s].step ELSE "open"],
  arrived <- [s \in Sends |-> IF call[s].step \in {"true", "false"}
                              THEN copies[s] ELSE 0]

KeepsTelegramContract == Contract!Spec
=============================================================================
