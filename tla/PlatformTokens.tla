--------------------------- MODULE PlatformTokens ---------------------------
(***************************************************************************)
(* The access token of one marketplace in one process: GgselApi and        *)
(* DigisellerApi cache it, log in under a lock when it runs out, and drop  *)
(* it when a call is refused (app/clients/platforms/ggsel.py,              *)
(* app/clients/platforms/digiseller.py).                                   *)
(*                                                                         *)
(* A step is what a task does between two awaits. Calls take time, what    *)
(* lies between them takes none.  A token that nobody has any more may be  *)
(* handed out again, so that there is no bound on the logins.              *)
(***************************************************************************)
EXTENDS Naturals, Sequences

CONSTANTS
  Callers,    \* tasks that use the marketplace
  NoCaller,   \* nobody holds the lock
  Tokens,
  NoToken,    \* None: nothing is cached, nothing was got
  Lives,      \* how long tokens may live
  Margin,     \* how long before its end a token is no longer used
  Fallback,   \* how long a token is used whose end cannot be read
  MaxClock,   \* bound: time
  MaxRevoked  \* bound: revocations

ASSUME TokenAssumption ==
  /\ NoCaller \notin Callers
  /\ NoToken \notin Tokens
  /\ Lives \subseteq Nat \ {0}
  /\ Margin \in Nat /\ \A life \in Lives : Margin <= life
  /\ Fallback \in Nat
  /\ MaxClock \in Nat /\ MaxRevoked \in Nat

VARIABLES
  api,      \* the marketplace
  clock,    \* time.time()
  dies,     \* when the marketplace stops to accept each token
  revoked,  \* those it has stopped to accept before
  revocations,
  cache,    \* _token
  expiry,   \* _expiry
  holder,   \* who holds _lock: a caller, or NoCaller
  line,     \* who waits for it, in the order it is given (asyncio.Lock)
  caller    \* where each caller stands, and what it holds

market == <<dies, revoked, revocations>>
memory == <<cache, expiry>>
lock == <<holder, line>>
vars == <<api, clock, market, memory, lock, caller>>

\* wait: in line to get a token; drop: in line to drop one; now: the time read by
\* the caller; second: the call is a repetition.
Steps == {"idle", "wait", "login", "call", "drop", "reserve"}

TypeOK ==
  /\ api \in {"ggsel", "digiseller"}
  /\ clock \in 0..MaxClock
  /\ dies \in [Tokens -> Nat]
  /\ revoked \in SUBSET Tokens
  /\ revocations \in 0..MaxRevoked
  /\ cache \in Tokens \cup {NoToken}
  /\ expiry \in Nat
  /\ holder \in Callers \cup {NoCaller}
  /\ line \in Seq(Callers)
  /\ caller \in [Callers -> [step : Steps, now : Nat, token : Tokens \cup {NoToken},
                             second : BOOLEAN]]

At(c, s) == caller[c].step = s

Free == holder = NoCaller

\* It is c's turn to take the lock.
First(c) == Free /\ line # <<>> /\ Head(line) = c

Held == {caller[c].token : c \in Callers}

\* The token that a login hands out: one that nobody has.
Fresh == CHOOSE t \in Tokens : t \notin Held \cup {cache}

Turn(c, r) == caller' = [caller EXCEPT ![c] = r]

Go(c, s) == Turn(c, [caller[c] EXCEPT !.step = s])

Rested == [step |-> "idle", now |-> 0, token |-> NoToken, second |-> FALSE]

Dead(t) == t \in revoked \/ clock >= dies[t]

\* Mutant: a token is used up to its very end.
RunOutAtTheEnd(now) == now >= expiry

\* When the cached token is not used any more, by a caller whose time is now.
RunOut(now) ==
  IF api = "digiseller" THEN now + Margin >= expiry ELSE now >= expiry

Usable(now) == cache # NoToken /\ ~RunOut(now)

Init ==
  /\ api \in {"ggsel", "digiseller"}
  /\ clock = 0
  /\ dies = [t \in Tokens |-> 0]
  /\ revoked = {}
  /\ revocations = 0
  /\ cache = NoToken
  /\ expiry = 0
  /\ holder = NoCaller
  /\ line = <<>>
  /\ caller = [c \in Callers |-> Rested]

-----------------------------------------------------------------------------
\* Environment

\* Time does not pass while somebody could take the lock.
Tick ==
  /\ clock < MaxClock
  /\ Free => line = <<>>
  /\ clock' = clock + 1
  /\ UNCHANGED <<api, market, memory, lock, caller>>

Revoke(t) ==
  /\ revocations < MaxRevoked
  /\ ~Dead(t)
  /\ revoked' = revoked \cup {t}
  /\ revocations' = revocations + 1
  /\ UNCHANGED <<api, clock, dies, memory, lock, caller>>

-----------------------------------------------------------------------------
\* Getting a token

Ask(c) ==
  /\ At(c, "idle")
  /\ Turn(c, [caller[c] EXCEPT !.step = "wait", !.now = clock])
  /\ line' = Append(line, c)
  /\ UNCHANGED <<api, clock, market, memory, holder>>

\* DigisellerApi reads the time before it waits for the lock, GgselApi after.
TimeOf(c) == IF api = "digiseller" THEN caller[c].now ELSE clock

\* Mutant: who has waited for the lock does not look at the cache again.
TakeAndLogIn(c) ==
  /\ At(c, "wait")
  /\ First(c)
  /\ holder' = c
  /\ line' = Tail(line)
  /\ Turn(c, [caller[c] EXCEPT !.step = "login", !.now = TimeOf(c)])
  /\ UNCHANGED <<api, clock, market, memory>>

\* The lock is taken; with a token in the cache it is given back at once.
Take(c) ==
  /\ At(c, "wait")
  /\ First(c)
  /\ line' = Tail(line)
  /\ \/ /\ Usable(TimeOf(c))
        /\ Turn(c, [caller[c] EXCEPT !.step = "call", !.now = 0, !.token = cache])
        /\ UNCHANGED holder
     \/ /\ ~Usable(TimeOf(c))
        /\ holder' = c
        /\ Turn(c, [caller[c] EXCEPT !.step = "login", !.now = TimeOf(c)])
  /\ UNCHANGED <<api, clock, market, memory>>

\* _token_expiry and valid_thru.
Until(now, end, read) ==
  IF ~read THEN now + Fallback
  ELSE IF api = "digiseller" THEN end
  ELSE IF now + Margin <= end THEN end - Margin ELSE now

\* A token whose end cannot be read is taken to outlive Fallback.
LoginOk(c, life, read) ==
  /\ At(c, "login")
  /\ \E t \in Tokens : t \notin Held \cup {cache}
  /\ read \/ Fallback + Margin <= life
  /\ dies' = [t \in Tokens |-> IF t = Fresh THEN clock + life
                               ELSE IF t \in Held THEN dies[t] ELSE 0]
  /\ revoked' = revoked \cap Held
  /\ cache' = Fresh
  /\ expiry' = Until(caller[c].now, clock + life, read)
  /\ holder' = NoCaller
  /\ Turn(c, [caller[c] EXCEPT !.step = "call", !.now = 0, !.token = Fresh])
  /\ UNCHANGED <<api, clock, revocations, line>>

\* Mutant: a refusal leaves the cache alone.
ForgetNothing == UNCHANGED memory

\* Whatever is cached by now is dropped; only DigisellerApi resets _expiry.
Forget ==
  /\ cache' = NoToken
  /\ expiry' = IF api = "digiseller" THEN 0 ELSE expiry

\* Mutant: an error in the answer to the login is noticed when its token is stored.
LoginStoresAnyway(c) ==
  /\ At(c, "login")
  /\ cache' = NoCaller
  /\ holder' = NoCaller
  /\ Turn(c, Rested)
  /\ UNCHANGED <<api, clock, market, expiry, line>>

\* GgselApi drops the token also when the login itself is refused.
LoginFails(c) ==
  /\ At(c, "login")
  /\ \/ UNCHANGED memory
     \/ api = "ggsel" /\ Forget
  /\ holder' = NoCaller
  /\ Turn(c, Rested)
  /\ UNCHANGED <<api, clock, market, line>>

-----------------------------------------------------------------------------
\* Calls with the token

\* 401 or 403 in GgselApi.request: the cached token is dropped without the lock.
\* A cycle of a poller makes many calls with the token it got, whatever becomes
\* of each of them.
GgselRefused(c, last) ==
  /\ api = "ggsel"
  /\ At(c, "call")
  /\ Dead(caller[c].token)
  /\ Forget
  /\ \/ last /\ Turn(c, Rested)
     \/ ~last /\ UNCHANGED caller
  /\ UNCHANGED <<api, clock, market, lock>>

\* 401 in DigisellerApi.get_purchase: once, the call is repeated.
DigisellerRefused(c) ==
  /\ api = "digiseller"
  /\ At(c, "call")
  /\ Dead(caller[c].token)
  /\ \/ caller[c].second /\ Go(c, "reserve") /\ UNCHANGED line
     \/ ~caller[c].second /\ Go(c, "drop") /\ line' = Append(line, c)
  /\ UNCHANGED <<api, clock, market, memory, holder>>

\* The lock is taken to drop the token; _get_token follows.
Drop(c) ==
  /\ At(c, "drop")
  /\ First(c)
  /\ Forget
  /\ line' = Append(Tail(line), c)
  /\ Turn(c, [caller[c] EXCEPT !.step = "wait", !.now = clock, !.token = NoToken,
                               !.second = TRUE])
  /\ UNCHANGED <<api, clock, market, holder>>

\* The last call of a task is answered, or fails in another way.
CallEnds(c) ==
  /\ At(c, "call")
  /\ Turn(c, Rested)
  /\ UNCHANGED <<api, clock, market, memory, lock>>

\* Any answer of Digiseller but 200 sends the call to the reserve address.
Elsewhere(c) ==
  /\ api = "digiseller"
  /\ At(c, "call")
  /\ Go(c, "reserve")
  /\ UNCHANGED <<api, clock, market, memory, lock>>

ReserveEnds(c) ==
  /\ At(c, "reserve")
  /\ Turn(c, Rested)
  /\ UNCHANGED <<api, clock, market, memory, lock>>

Use(c) ==
  \/ Ask(c)
  \/ Take(c)
  \/ \E life \in Lives, read \in BOOLEAN : LoginOk(c, life, read)
  \/ LoginFails(c)
  \/ \E last \in BOOLEAN : GgselRefused(c, last)
  \/ DigisellerRefused(c)
  \/ Drop(c)
  \/ CallEnds(c)
  \/ Elsewhere(c)
  \/ ReserveEnds(c)

Next ==
  \/ Tick
  \/ \E t \in Tokens : Revoke(t)
  \/ \E c \in Callers : Use(c)

Spec == Init /\ [][Next]_vars

-----------------------------------------------------------------------------
\* Safety

\* A token that comes from the cache has Margin to live, however long its
\* caller has waited for the lock since it read the time (_get_token).
HandsOutFresh == [][\A c \in Callers :
  At(c, "wait") /\ At(c, "call")' => clock + Margin <= dies[caller'[c].token]]_vars

\* No token is replaced that could still be used: many tasks that find it run
\* out at the same time log in once between them (get_token, _get_token).
NoneWasted == [][
  cache' # cache /\ cache' # NoToken => cache = NoToken \/ RunOut(clock)]_vars
=============================================================================
