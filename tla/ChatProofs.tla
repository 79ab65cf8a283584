----------------------------- MODULE ChatProofs -----------------------------
(***************************************************************************)
(* Theorems about ChatPoller for any number of pollers, messages and       *)
(* faults and any page.                                                    *)
(***************************************************************************)
EXTENDS ChatPoller, TLAPS

\* The chat is accounted for through message n.
Through(n) == \A k \in buyer : k <= n => Accounted(k)

\* Nothing has been told of what is not written.
OnlyWritten == \A m \in Ids : told[m] > 0 => m <= written

Bounds ==
  /\ last <= written
  /\ \A k \in buyer : k <= written
  /\ ~known => last = 0
  /\ OnlyWritten

\* What a pass may hold: what it has yet to send is of the buyer, fetched and
\* after what it read; the rest of what it is about to save is accounted for.
Fits(r) ==
  /\ r.read <= written /\ r.upto <= written
  /\ r.first => r.read = 0
  /\ Through(r.read)
  /\ r.step \in {"idle", "fetch"} => r.lo = 0 /\ r.upto = 0
  /\ r.step # "send" => r.todo = {}
  /\ r.step = "send" =>
       /\ r.lo >= 1
       /\ ~(r.first /\ silent)
       /\ \A t \in r.todo : t \in buyer /\ r.read < t /\ r.lo <= t /\ t <= r.upto
       /\ \A k \in buyer : k <= r.upto /\ k \notin r.todo => Accounted(k)
  /\ r.step = "save" => (r.first /\ (silent \/ r.lo = 0)) \/ Through(r.upto)

AllFit == \A p \in Pollers : Fits(pass[p])

AccountInv == TypeOK /\ Bounds /\ AllFit /\ NothingPassedOver /\ NoneOvertaken

\* Passes that do not overlap are alone, and the row says what they read.
Alone == ~overlapped =>
  /\ \A p, q \in Pollers : UnderWay(p) /\ UnderWay(q) => p = q
  /\ \A p \in Pollers : UnderWay(p) => pass[p].read = last

\* What was missed is behind the row, or off the page for good.
MissedBehind == ~overlapped =>
  /\ \A m \in missed : m <= last \/ m < Oldest
  /\ \A p \in Pollers : pass[p].todo \cap missed = {}

\* The pass r has not sent m.
Ahead(r, m) ==
  /\ r.step = "send" => m < r.lo \/ m > r.upto \/ \E t \in r.todo : t <= m
  /\ r.step = "save" => m > r.upto \/ (r.first /\ (silent \/ r.lo = 0))

\* Who has not had a message from the row or from the pass under way has had
\* it from a pass that died.
Unsent(m) == m > last /\ \A p \in Pollers : Ahead(pass[p], m)

Copies == ~overlapped /\ ~Ambiguous => \A m \in Ids :
  /\ told[m] <= faults + 1
  /\ Unsent(m) => told[m] <= faults

OnceInv == Alone /\ MissedBehind /\ Copies /\ MissedIsUntold

IInv == AccountInv /\ OnceInv

-----------------------------------------------------------------------------
\* Types

LEMMA CappedType == ASSUME ChatAssumption, NEW n \in Nat PROVE Capped(n) \in 0..MaxTold
BY DEF ChatAssumption, Capped

LEMMA OldestType == ASSUME ChatAssumption, TypeOK PROVE Oldest \in Nat /\ Oldest >= 1
BY DEF ChatAssumption, TypeOK, Oldest

LEMMA RestTurns == ASSUME NEW p \in Pollers PROVE AtRest \in Passes
BY DEF AtRest, Passes

LEMMA TurnType ==
  ASSUME TypeOK, NEW p \in Pollers, NEW r \in Passes, Turn(p, r)
  PROVE  /\ pass' \in [Pollers -> Passes]
         /\ pass'[p] = r
         /\ \A q \in Pollers : q # p => pass'[q] = pass[q]
BY DEF TypeOK, Turn

LEMMA ToldMore ==
  ASSUME ChatAssumption, TypeOK, NEW m \in Ids, NEW n \in Nat,
         told' = [told EXCEPT ![m] = Capped(@ + n)]
  PROVE  /\ told' \in [Ids -> 0..MaxTold]
         /\ told'[m] = Capped(told[m] + n)
         /\ \A k \in Ids : k # m => told'[k] = told[k]
<1>1. told[m] + n \in Nat
  BY DEF TypeOK
<1>2. Capped(told[m] + n) \in 0..MaxTold
  BY <1>1, CappedType
<1> QED
  BY <1>2 DEF TypeOK

LEMMA InitType == Init /\ ChatAssumption => TypeOK
<1> SUFFICES ASSUME Init, ChatAssumption PROVE TypeOK
  OBVIOUS
<1>1. pass \in [Pollers -> Passes]
  BY RestTurns DEF Init
<1>2. 0 \in 0..MaxTold /\ 0 \in 0..MaxMsgs
  BY DEF ChatAssumption
<1>3. told \in [Ids -> 0..MaxTold]
  BY <1>2 DEF Init
<1> QED
  BY <1>1, <1>2, <1>3 DEF Init, TypeOK

\* A pass in its types, member by member.
LEMMA PassType ==
  ASSUME TypeOK, NEW p \in Pollers
  PROVE  /\ pass[p].step \in {"idle", "fetch", "send", "save"}
         /\ pass[p].first \in BOOLEAN
         /\ pass[p].read \in Nat /\ pass[p].lo \in Nat /\ pass[p].upto \in Nat
         /\ pass[p].todo \in SUBSET Ids
BY DEF TypeOK, Passes

LEMMA KeepBeforeType ==
  ASSUME TypeOK, NEW p \in Pollers, NEW m \in Ids
  PROVE  KeepBefore(p, m) \in Nat
BY PassType DEF KeepBefore, Ids

LEMMA ReadType ==
  ASSUME TypeOK, NEW p \in Pollers, Read(p) PROVE TypeOK'
<1> DEFINE r == [AtRest EXCEPT !.step = "fetch", !.first = ~known, !.read = last]
<1>1. r \in Passes
  BY DEF AtRest, Passes, TypeOK
<1>2. pass' \in [Pollers -> Passes]
  BY <1>1, TurnType DEF Read
<1> QED
  BY <1>2 DEF TypeOK, Read, chat, row, history

LEMMA FetchType ==
  ASSUME ChatAssumption, TypeOK, NEW p \in Pollers, Fetch(p) PROVE TypeOK'
<1> DEFINE q == [pass[p] EXCEPT !.step = "save", !.lo = Oldest, !.upto = written]
           r == [pass[p] EXCEPT !.step = "send", !.lo = Oldest,
                                !.todo = Wanted(p), !.upto = written]
<1>1. Wanted(p) \in SUBSET Ids
  BY DEF Wanted, TypeOK
<1>2. pass[p] \in Passes /\ Oldest \in Nat /\ written \in Nat
  BY OldestType DEF TypeOK
<1>3. q \in Passes /\ r \in Passes
  BY <1>1, <1>2 DEF Passes
<1>4. Turn(p, q) \/ Turn(p, r)
  BY DEF Fetch
<1>5. pass' \in [Pollers -> Passes]
  BY <1>3, <1>4, TurnType
<1>6. missed' \in SUBSET Ids
  BY DEF Fetch, TypeOK
<1> QED
  BY <1>5, <1>6 DEF TypeOK, Fetch, chat, row

LEMMA FetchEmptyType ==
  ASSUME TypeOK, NEW p \in Pollers, FetchEmpty(p) PROVE TypeOK'
<1> DEFINE r == [pass[p] EXCEPT !.step = "save"]
<1>1. r \in Passes
  BY DEF Passes, TypeOK
<1>2. Turn(p, r) \/ Turn(p, AtRest)
  BY DEF FetchEmpty, Rest
<1>3. pass' \in [Pollers -> Passes]
  BY <1>1, <1>2, TurnType, RestTurns
<1>4. faults' \in Nat
  BY DEF FetchEmpty, TypeOK
<1> QED
  BY <1>3, <1>4 DEF TypeOK, FetchEmpty, chat, row, history

LEMMA SendType ==
  ASSUME ChatAssumption, TypeOK, NEW p \in Pollers, NEW m \in Ids,
         NEW ok \in BOOLEAN, NEW copies \in 0..2, Send(p, m, ok, copies)
  PROVE  TypeOK'
<1> DEFINE q == [pass[p] EXCEPT !.todo = @ \ {m}]
           r == [pass[p] EXCEPT !.step = "save", !.todo = {}, !.upto = KeepBefore(p, m)]
<1>1. q \in Passes /\ r \in Passes
  BY KeepBeforeType DEF Passes, TypeOK
<1>2. Turn(p, q) \/ Turn(p, r)
  BY DEF Send
<1>3. pass' \in [Pollers -> Passes]
  BY <1>1, <1>2, TurnType
<1>4. copies \in Nat
  OBVIOUS
<1>5. told' \in [Ids -> 0..MaxTold]
  BY <1>4, ToldMore DEF Send
<1> QED
  BY <1>3, <1>5 DEF TypeOK, Send, chat, row

LEMMA SentType ==
  ASSUME TypeOK, NEW p \in Pollers, Sent(p) PROVE TypeOK'
<1> DEFINE r == [pass[p] EXCEPT !.step = "save"]
<1>1. r \in Passes
  BY DEF Passes, TypeOK
<1>2. pass' \in [Pollers -> Passes]
  BY <1>1, TurnType DEF Sent
<1> QED
  BY <1>2 DEF TypeOK, Sent, chat, row, history

LEMMA SaveType ==
  ASSUME TypeOK, NEW p \in Pollers, Save(p) PROVE TypeOK'
<1>1. pass' \in [Pollers -> Passes]
  BY TurnType, RestTurns DEF Save, Rest
<1>2. known' \in BOOLEAN /\ last' \in Nat
  BY PassType DEF Save, row, TypeOK
<1>3. missed' \in SUBSET Ids
  BY DEF Save, TypeOK
<1> QED
  BY <1>1, <1>2, <1>3 DEF TypeOK, Save, chat

LEMMA DieType ==
  ASSUME ChatAssumption, TypeOK, NEW p \in Pollers, Die(p) PROVE TypeOK'
<1>1. pass' \in [Pollers -> Passes]
  BY TurnType, RestTurns DEF Die, Rest
<1>2. told' \in [Ids -> 0..MaxTold]
  <2>1. CASE UNCHANGED told
    BY <2>1 DEF TypeOK
  <2>2. CASE \E m \in pass[p].todo \ refused :
               IsNext(p, m) /\ told' = [told EXCEPT ![m] = Capped(@ + 1)]
    <3>1. PICK m \in Ids : told' = [told EXCEPT ![m] = Capped(@ + 1)]
      BY <2>2, PassType
    <3> QED
      BY <3>1, ToldMore
  <2> QED
    BY <2>1, <2>2 DEF Die
<1>3. faults' \in Nat
  BY DEF Die, TypeOK
<1> QED
  BY <1>1, <1>2, <1>3 DEF TypeOK, Die, chat, row

LEMMA NextType == TypeOK /\ ChatAssumption /\ [Next]_vars => TypeOK'
<1> SUFFICES ASSUME TypeOK, ChatAssumption, [Next]_vars PROVE TypeOK'
  OBVIOUS
<1>1. ASSUME NEW kind \in {"seller", "buyer", "refused"}, Write(kind) PROVE TypeOK'
  <2>1. written' \in 0..MaxMsgs /\ written + 1 \in Ids
    BY <1>1 DEF Write, TypeOK, Ids, ChatAssumption
  <2>2. buyer' \in SUBSET Ids /\ refused' \in SUBSET buyer'
    BY <1>1, <2>1 DEF Write, TypeOK
  <2> QED
    BY <1>1, <2>1, <2>2 DEF Write, TypeOK, row, history
<1>2. ASSUME NEW m \in Ids, Delete(m) PROVE TypeOK'
  BY <1>2 DEF Delete, TypeOK, row, history
<1>3. CASE GrowStale
  BY <1>3 DEF GrowStale, TypeOK, row, history
<1>4. ASSUME NEW p \in Pollers, Forward(p) PROVE TypeOK'
  <2>1. CASE FetchFails(p)
    <3>1. pass' \in [Pollers -> Passes]
      BY <2>1, TurnType, RestTurns DEF FetchFails, Rest
    <3> QED
      BY <2>1, <3>1 DEF TypeOK, FetchFails, chat, row, history
  <2> QED
    BY <1>4, <2>1, ReadType, FetchType, FetchEmptyType, SendType, SentType, SaveType
    DEF Forward
<1>5. ASSUME NEW p \in Pollers, Die(p) PROVE TypeOK'
  BY <1>5, DieType
<1>6. CASE UNCHANGED vars
  BY <1>6 DEF vars, chat, row, history, TypeOK
<1> QED
  BY <1>1, <1>2, <1>3, <1>4, <1>5, <1>6 DEF Next

-----------------------------------------------------------------------------
\* What is accounted for stays accounted for, whoever moves.

Growth ==
  /\ silent' = silent
  /\ written' \in Nat /\ written <= written'
  /\ buyer' \in SUBSET Ids
  /\ \A k \in buyer : k \in buyer'
  /\ \A k \in buyer' : k \in buyer \/ (written < k /\ k <= written')
  /\ \A k \in Ids : Accounted(k) => Accounted(k)'

LEMMA OthersFit ==
  ASSUME TypeOK, Growth, NEW p \in Pollers, pass'[p] = pass[p], Fits(pass[p])
  PROVE  Fits(pass[p])'
<1> USE DEF Growth, Accounted
<1>1. pass[p].read \in Nat /\ pass[p].upto \in Nat /\ written \in Nat /\ buyer \in SUBSET Ids
  BY PassType DEF TypeOK
<1>2. \A n \in Nat : n <= written /\ Through(n) => Through(n)'
  BY <1>1 DEF Through, Ids
<1>3. \A n \in Nat, t \in SUBSET Ids : 
        /\ n <= written 
        /\ \A k \in buyer : k <= n /\ k \notin t => Accounted(k)
        => \A k \in buyer' : k <= n /\ k \notin t => Accounted(k)'
  BY <1>1 DEF Ids
<1> QED
  BY <1>1, <1>2, <1>3, PassType DEF Fits

LEMMA RowKeeps ==
  ASSUME TypeOK, Growth, last <= written, NothingPassedOver, UNCHANGED last
  PROVE  NothingPassedOver'
<1>1. last \in Nat /\ written \in Nat /\ buyer \in SUBSET Ids
  BY DEF TypeOK
<1>2. \A k \in buyer' : k <= last => k \in buyer
  BY <1>1 DEF Growth, Ids
<1> QED
  BY <1>1, <1>2 DEF Growth, NothingPassedOver, Accounted

LEMMA TellKeepsOrder ==
  ASSUME TypeOK, Growth, OnlyWritten, NoneOvertaken,
         \A m \in Ids : told'[m] > 0 => told[m] > 0 
           \/ (m <= written /\ \A k \in buyer : k < m => Accounted(k))
  PROVE  NoneOvertaken'
<1> SUFFICES ASSUME NEW m \in Ids, NEW k \in buyer', told'[m] > 0, k < m
             PROVE  Accounted(k)'
  BY DEF NoneOvertaken
<1>1. m <= written
  BY DEF OnlyWritten
<1>2. k \in Ids /\ written \in Nat
  BY DEF Growth, TypeOK
<1>3. k \in buyer
  BY <1>1, <1>2 DEF Growth, Ids
<1>4. Accounted(k)
  BY <1>3, <1>2 DEF NoneOvertaken
<1> QED
  BY <1>2, <1>4 DEF Growth

\* A step that neither sends nor saves.
LEMMA QuietKeeps ==
  ASSUME TypeOK, Bounds, NothingPassedOver, NoneOvertaken, Growth, 
         UNCHANGED <<row, told>>
  PROVE  Bounds' /\ NothingPassedOver' /\ NoneOvertaken'
<1> USE DEF row
<1>1. last \in Nat /\ written \in Nat /\ written' \in Nat /\ written <= written' 
  BY DEF TypeOK, Growth
<1>2. last <= written
  BY DEF Bounds
<1>3. Bounds'
  <2>1. last' <= written' /\ (~known' => last' = 0)
    BY <1>1 DEF Bounds
  <2>2. ASSUME NEW k \in buyer' PROVE k <= written'
    <3>1. k \in Ids
      BY DEF Growth
    <3>2. k \in buyer => k <= written
      BY DEF Bounds
    <3> QED
      BY <1>1, <3>1, <3>2 DEF Growth, Ids
  <2>3. OnlyWritten'
    <3> SUFFICES ASSUME NEW m \in Ids, told[m] > 0 PROVE m <= written'
      BY DEF OnlyWritten
    <3>1. m <= written
      BY DEF Bounds, OnlyWritten
    <3> QED
      BY <1>1, <3>1 DEF Ids
  <2> QED
    BY <2>1, <2>2, <2>3 DEF Bounds
<1>4. NothingPassedOver'
  BY <1>2, RowKeeps
<1>5. NoneOvertaken'
  BY TellKeepsOrder DEF Bounds, OnlyWritten
<1> QED
  BY <1>3, <1>4, <1>5

\* What a step must show that moves one poller, and no row and no message.
LEMMA MoveKeeps ==
  ASSUME AccountInv, TypeOK', Growth, UNCHANGED <<row, told>>, NEW p \in Pollers,
         \A q \in Pollers : q # p => pass'[q] = pass[q],
         Fits(pass[p])'
  PROVE  AccountInv'
<1>1. Bounds' /\ NothingPassedOver' /\ NoneOvertaken'
  BY QuietKeeps DEF AccountInv
<1>2. AllFit'
  <2> SUFFICES ASSUME NEW q \in Pollers, q # p PROVE Fits(pass[q])'
    BY DEF AllFit
  <2> QED
    BY OthersFit DEF AccountInv, AllFit
<1> QED
  BY <1>1, <1>2 DEF AccountInv

\* The chat's own steps move no poller.
LEMMA ChatKeeps ==
  ASSUME AccountInv, TypeOK', Growth, UNCHANGED <<row, told, pass>>
  PROVE  AccountInv'
<1>1. Bounds' /\ NothingPassedOver' /\ NoneOvertaken'
  BY QuietKeeps DEF AccountInv
<1>2. AllFit'
  <2> SUFFICES ASSUME NEW q \in Pollers PROVE Fits(pass[q])'
    BY DEF AllFit
  <2> QED
    BY OthersFit DEF AccountInv, AllFit
<1> QED
  BY <1>1, <1>2 DEF AccountInv

LEMMA WriteKeeps ==
  ASSUME AccountInv, TypeOK', NEW kind \in {"seller", "buyer", "refused"}, Write(kind)
  PROVE  AccountInv'
<1>1. written \in Nat /\ written' = written + 1
  BY DEF Write, AccountInv, TypeOK
<1>2. \A k \in Ids : Accounted(k) => Accounted(k)'
  BY DEF Write, Accounted, history
<1>3. Growth
  BY <1>1, <1>2 DEF Write, Growth, TypeOK
<1> QED
  BY <1>3, ChatKeeps DEF Write, history

LEMMA DeleteKeeps ==
  ASSUME AccountInv, TypeOK', NEW m \in Ids, Delete(m)
  PROVE  AccountInv'
<1>1. \A k \in Ids : Accounted(k) => Accounted(k)'
  BY DEF Delete, Accounted, history
<1>2. Growth
  BY <1>1 DEF Delete, Growth, AccountInv, TypeOK
<1> QED
  BY <1>2, ChatKeeps DEF Delete, history

\* A step that changes none of the chat and none of the history.
LEMMA NothingNew ==
  ASSUME TypeOK, UNCHANGED <<silent, written, buyer, deleted, told, missed>>
  PROVE  Growth
<1>1. \A k \in Ids : Accounted(k) => Accounted(k)'
  BY DEF Accounted
<1> QED
  BY <1>1 DEF Growth, TypeOK

LEMMA GrowStaleKeeps == AccountInv /\ TypeOK' /\ GrowStale => AccountInv'
BY NothingNew, ChatKeeps DEF GrowStale, history, AccountInv

LEMMA StutterKeeps == AccountInv /\ TypeOK' /\ UNCHANGED vars => AccountInv'
BY NothingNew, ChatKeeps DEF vars, chat, row, history, AccountInv

LEMMA RestFits ==
  ASSUME TypeOK', NEW p \in Pollers, pass'[p] = AtRest
  PROVE  Fits(pass[p])'
BY DEF Fits, AtRest, Through, TypeOK, Ids

LEMMA ReadKeeps ==
  ASSUME AccountInv, TypeOK', NEW p \in Pollers, Read(p) PROVE AccountInv'
<1> DEFINE r == [AtRest EXCEPT !.step = "fetch", !.first = ~known, !.read = last]
<1>1. r \in Passes
  BY DEF AtRest, Passes, TypeOK, AccountInv
<1>2. pass'[p] = r /\ \A q \in Pollers : q # p => pass'[q] = pass[q]
  BY <1>1, TurnType DEF Read, AccountInv
<1>3. /\ pass'[p].step = "fetch" /\ (pass'[p].first => ~known) /\ pass'[p].read = last
      /\ pass'[p].lo = 0 /\ pass'[p].todo = {} /\ pass'[p].upto = 0
  BY <1>2 DEF AtRest
<1>4. UNCHANGED <<silent, written, buyer, deleted, told, missed, row>>
  BY DEF Read, chat, history
<1>5. Growth
  BY <1>4, NothingNew DEF AccountInv
<1>6. Fits(pass[p])'
  <2>1. Through(last)'
    BY <1>4 DEF Through, Accounted, AccountInv, NothingPassedOver, row
  <2>2. last <= written' /\ 0 <= written' /\ (~known => last = 0) /\ last' = last
    BY <1>4 DEF AccountInv, Bounds, TypeOK, row
  <2>3. Through(pass[p].read)'
    BY <2>1, <2>2, <1>3 DEF Through, Accounted
  <2> QED
    BY <1>3, <2>2, <2>3 DEF Fits, Through, Accounted
<1> QED
  BY <1>2, <1>4, <1>5, <1>6, MoveKeeps

LEMMA FetchFailsKeeps ==
  ASSUME AccountInv, TypeOK', NEW p \in Pollers, FetchFails(p) PROVE AccountInv'
<1>1. pass'[p] = AtRest /\ \A q \in Pollers : q # p => pass'[q] = pass[q]
  BY RestTurns, TurnType DEF FetchFails, Rest, AccountInv
<1>2. UNCHANGED <<silent, written, buyer, deleted, told, missed, row>>
  BY DEF FetchFails, chat, history
<1> QED
  BY <1>1, <1>2, NothingNew, RestFits, MoveKeeps DEF AccountInv

LEMMA FetchEmptyKeeps ==
  ASSUME AccountInv, TypeOK', NEW p \in Pollers, FetchEmpty(p) PROVE AccountInv'
<1> DEFINE r == [pass[p] EXCEPT !.step = "save"]
<1>1. UNCHANGED <<silent, written, buyer, deleted, told, missed, row>>
  BY DEF FetchEmpty, chat, history
<1>2. Growth
  BY <1>1, NothingNew DEF AccountInv
<1>3. CASE Turn(p, AtRest)
  <2>1. pass'[p] = AtRest /\ \A q \in Pollers : q # p => pass'[q] = pass[q]
    BY <1>3, RestTurns, TurnType DEF AccountInv
  <2> QED
    BY <2>1, <1>1, <1>2, RestFits, MoveKeeps DEF AccountInv
<1>4. CASE pass[p].first /\ Turn(p, r)
  <2>1. r \in Passes
    BY DEF Passes, TypeOK, AccountInv
  <2>2. pass'[p] = r /\ \A q \in Pollers : q # p => pass'[q] = pass[q]
    BY <1>4, <2>1, TurnType DEF AccountInv
  <2>3. Fits(pass[p])
    BY DEF AccountInv, AllFit
  <2>4. /\ pass[p].lo = 0 /\ pass[p].upto = 0 /\ pass[p].todo = {}
        /\ pass[p].read <= written /\ Through(pass[p].read)
        /\ (pass[p].first => pass[p].read = 0)
    BY <2>3 DEF Fits, FetchEmpty, At
  <2>5. /\ pass'[p].step = "save" /\ pass'[p].first = pass[p].first
        /\ pass'[p].read = pass[p].read /\ pass'[p].lo = pass[p].lo
        /\ pass'[p].todo = pass[p].todo /\ pass'[p].upto = pass[p].upto
    BY <2>2, PassType DEF AccountInv, TypeOK, Passes
  <2>6. 0 <= written
    BY DEF AccountInv, TypeOK
  <2>7. Through(pass[p].read)'
    BY <2>4, <2>5, <1>1 DEF Through, Accounted
  <2>8. Fits(pass[p])'
    BY <1>4, <2>4, <2>5, <2>6, <2>7, <1>1 DEF Fits, Through, Accounted
  <2> QED
    BY <2>2, <2>8, <1>1, <1>2, MoveKeeps
<1> QED
  BY <1>3, <1>4 DEF FetchEmpty, Rest

LEMMA SentKeeps ==
  ASSUME AccountInv, TypeOK', NEW p \in Pollers, Sent(p) PROVE AccountInv'
<1> DEFINE r == [pass[p] EXCEPT !.step = "save"]
<1>1. UNCHANGED <<silent, written, buyer, deleted, told, missed, row>>
  BY DEF Sent, chat, history
<1>2. Growth
  BY <1>1, NothingNew DEF AccountInv
<1>3. r \in Passes
  BY DEF Passes, TypeOK, AccountInv
<1>4. pass'[p] = r /\ \A q \in Pollers : q # p => pass'[q] = pass[q]
  BY <1>3, TurnType DEF AccountInv, Sent
<1>5. Fits(pass[p])
  BY DEF AccountInv, AllFit
<1>6. /\ pass[p].todo = {} /\ pass[p].upto <= written
      /\ pass[p].read <= written /\ Through(pass[p].read)
      /\ (pass[p].first => pass[p].read = 0)
      /\ Through(pass[p].upto)
  BY <1>5 DEF Fits, Sent, At, Through
<1>7. /\ pass'[p].step = "save" /\ pass'[p].first = pass[p].first
      /\ pass'[p].read = pass[p].read /\ pass'[p].lo = pass[p].lo
      /\ pass'[p].todo = pass[p].todo /\ pass'[p].upto = pass[p].upto
  BY <1>4, PassType DEF AccountInv, TypeOK, Passes
<1>8. Through(pass[p].read)' /\ Through(pass[p].upto)'
  BY <1>6, <1>7, <1>1 DEF Through, Accounted
<1>9. Fits(pass[p])'
  BY <1>6, <1>7, <1>8, <1>1 DEF Fits, Through, Accounted
<1> QED
  BY <1>4, <1>9, <1>1, <1>2, MoveKeeps

LEMMA FetchKeeps ==
  ASSUME ChatAssumption, AccountInv, TypeOK', NEW p \in Pollers, Fetch(p)
  PROVE  AccountInv'
<1> DEFINE s == [pass[p] EXCEPT !.step = "save", !.lo = Oldest, !.upto = written]
           r == [pass[p] EXCEPT !.step = "send", !.lo = Oldest,
                                !.todo = Wanted(p), !.upto = written]
<1>1. UNCHANGED <<silent, written, buyer, deleted, told, row>>
  BY DEF Fetch, chat
<1>2. written \in Nat /\ Oldest \in Nat /\ Oldest >= 1 /\ Wanted(p) \in SUBSET Ids
  BY OldestType DEF AccountInv, TypeOK, Wanted
<1>3. \A k \in Ids : Accounted(k) => Accounted(k)'
  <2>1. missed \subseteq missed'
    BY DEF Fetch
  <2> QED
    BY <2>1, <1>1 DEF Accounted
<1>4. Growth
  BY <1>1, <1>2, <1>3 DEF Growth, AccountInv, TypeOK
<1>5. s \in Passes /\ r \in Passes
  BY <1>2 DEF Passes, TypeOK, AccountInv
<1>6. Fits(pass[p])
  BY DEF AccountInv, AllFit
<1>7. /\ pass[p].read <= written /\ Through(pass[p].read)
      /\ (pass[p].first => pass[p].read = 0) /\ pass[p].todo = {}
  BY <1>6 DEF Fits, Fetch, At
<1>8. pass[p].read \in Nat /\ buyer \in SUBSET Ids
  BY PassType DEF AccountInv, TypeOK
<1>9. \A k \in buyer : k <= pass[p].read => Accounted(k)'
  BY <1>3, <1>7, <1>8 DEF Through
<1>10. CASE pass[p].first /\ silent
  <2>1. pass'[p] = s /\ \A q \in Pollers : q # p => pass'[q] = pass[q]
    BY <1>5, <1>10, TurnType DEF AccountInv, Fetch
  <2>2. /\ pass'[p].step = "save" /\ pass'[p].first = pass[p].first
        /\ pass'[p].read = pass[p].read /\ pass'[p].todo = pass[p].todo
        /\ pass'[p].upto = written
    BY <2>1, PassType DEF AccountInv, TypeOK, Passes
  <2>3. Fits(pass[p])'
    BY <1>1, <1>2, <1>7, <1>9, <1>10, <2>2 DEF Fits, Through, Accounted
  <2> QED
    BY <2>1, <2>3, <1>1, <1>4, MoveKeeps
<1>11. CASE ~(pass[p].first /\ silent)
  <2>1. pass'[p] = r /\ \A q \in Pollers : q # p => pass'[q] = pass[q]
    BY <1>5, <1>11, TurnType DEF AccountInv, Fetch
  <2>2. /\ pass'[p].step = "send" /\ pass'[p].first = pass[p].first
        /\ pass'[p].read = pass[p].read /\ pass'[p].todo = Wanted(p)
        /\ pass'[p].upto = written /\ pass'[p].lo = Oldest
    BY <2>1, PassType DEF AccountInv, TypeOK, Passes
  <2>3. \A t \in Wanted(p) : t \in buyer /\ pass[p].read < t /\ Oldest <= t /\ t <= written
    BY <1>2, <1>8 DEF Wanted
  <2>4. ASSUME NEW k \in buyer, k <= written, k \notin Wanted(p) PROVE Accounted(k)'
    <3>1. k \in Nat
      BY <1>8 DEF Ids
    <3>2. CASE k <= pass[p].read
      BY <3>2, <1>9
    <3>3. CASE k \in deleted
      BY <3>3, <1>1 DEF Accounted
    <3>4. CASE pass[p].read < k /\ k < Oldest /\ k \notin deleted
      BY <3>4, <1>11 DEF Fetch, Accounted
    <3>5. CASE pass[p].read < k /\ Oldest <= k /\ k \notin deleted
      BY <3>5, <2>4, <3>1, <1>2 DEF Wanted
    <3> QED
      BY <3>1, <3>2, <3>3, <3>4, <3>5, <1>2, <1>8
  <2>5. Fits(pass[p])'
    BY <1>1, <1>2, <1>7, <1>9, <1>11, <2>2, <2>3, <2>4 DEF Fits, Through, Accounted
  <2> QED
    BY <2>1, <2>5, <1>1, <1>4, MoveKeeps
<1> QED
  BY <1>10, <1>11

\* The message sent next: all before it that the pass would save are accounted for.
LEMMA NextIsNext ==
  ASSUME AccountInv, NEW p \in Pollers, At(p, "send"), NEW m \in Ids, IsNext(p, m)
  PROVE  /\ m \in pass[p].todo /\ m \in buyer /\ pass[p].read < m
         /\ pass[p].lo <= m /\ m <= pass[p].upto /\ m <= written
         /\ \A k \in buyer : k < m => Accounted(k)
         /\ \A k \in pass[p].todo : m <= k
<1>1. Fits(pass[p])
  BY DEF AccountInv, AllFit
<1>2. /\ m \in pass[p].todo /\ m \in buyer /\ pass[p].read < m
      /\ pass[p].lo <= m /\ m <= pass[p].upto
      /\ pass[p].upto <= written
      /\ \A k \in buyer : k <= pass[p].upto /\ k \notin pass[p].todo => Accounted(k)
  BY <1>1 DEF Fits, At, IsNext
<1>3. pass[p].upto \in Nat /\ m \in Nat /\ written \in Nat /\ buyer \in SUBSET Ids
      /\ pass[p].todo \in SUBSET Ids
  BY PassType DEF AccountInv, TypeOK, Ids
<1>4. \A k \in pass[p].todo : m <= k
  BY DEF IsNext
<1>5. ASSUME NEW k \in buyer, k < m PROVE Accounted(k)
  <2>1. k \in Nat
    BY <1>3 DEF Ids
  <2>2. k \notin pass[p].todo
    BY <2>1, <1>3, <1>4, <1>5
  <2>3. k <= pass[p].upto
    BY <2>1, <1>2, <1>3, <1>5
  <2> QED
    BY <1>2, <2>2, <2>3
<1> QED
  BY <1>2, <1>3, <1>4, <1>5

\* Copies of a message that is next in a pass.
LEMMA TellGrows ==
  ASSUME ChatAssumption, AccountInv, NEW p \in Pollers, At(p, "send"),
         NEW m \in Ids, IsNext(p, m), NEW n \in Nat,
         told' = [told EXCEPT ![m] = Capped(@ + n)],
         UNCHANGED <<chat, row, missed, silent>>
  PROVE  /\ Growth
         /\ Bounds' /\ NothingPassedOver' /\ NoneOvertaken'
         /\ n >= 1 => Accounted(m)'
<1> USE DEF chat, row
<1>1. /\ told'[m] = Capped(told[m] + n)
      /\ \A k \in Ids : k # m => told'[k] = told[k]
  BY ToldMore DEF AccountInv
<1>2. told[m] \in Nat /\ MaxTold \in Nat /\ MaxTold > 0 /\ written \in Nat
  BY DEF AccountInv, TypeOK, ChatAssumption
<1>3. /\ told[m] > 0 => told'[m] > 0
      /\ n >= 1 => told'[m] > 0
  BY <1>1, <1>2 DEF Capped
<1>4. \A k \in Ids : Accounted(k) => Accounted(k)'
  BY <1>1, <1>3 DEF Accounted
<1>5. Growth
  BY <1>2, <1>4 DEF Growth, AccountInv, TypeOK
<1>6. m <= written /\ \A k \in buyer : k < m => Accounted(k)
  BY NextIsNext
<1>7. Bounds'
  BY <1>1, <1>6 DEF AccountInv, Bounds, OnlyWritten
<1>8. NothingPassedOver'
  BY <1>5, RowKeeps DEF AccountInv, Bounds
<1>9. NoneOvertaken'
  BY <1>1, <1>5, <1>6, TellKeepsOrder DEF AccountInv, Bounds
<1> QED
  BY <1>3, <1>5, <1>7, <1>8, <1>9 DEF Accounted

\* What a step must show that moves one poller and tells of a message.
LEMMA TellKeeps ==
  ASSUME AccountInv, TypeOK', Growth, Bounds', NothingPassedOver', NoneOvertaken',
         NEW p \in Pollers, \A q \in Pollers : q # p => pass'[q] = pass[q],
         Fits(pass[p])'
  PROVE  AccountInv'
<1>1. AllFit'
  <2> SUFFICES ASSUME NEW q \in Pollers, q # p PROVE Fits(pass[q])'
    BY DEF AllFit
  <2> QED
    BY OthersFit DEF AccountInv, AllFit
<1> QED
  BY <1>1 DEF AccountInv

LEMMA SendKeeps ==
  ASSUME ChatAssumption, AccountInv, TypeOK', NEW p \in Pollers, NEW m \in Ids,
         NEW ok \in BOOLEAN, NEW copies \in 0..2, Send(p, m, ok, copies)
  PROVE  AccountInv'
<1> DEFINE s == [pass[p] EXCEPT !.todo = @ \ {m}]
           r == [pass[p] EXCEPT !.step = "save", !.todo = {}, !.upto = KeepBefore(p, m)]
<1>1. /\ UNCHANGED <<silent, chat, row, missed>> /\ At(p, "send") /\ IsNext(p, m)
      /\ copies \in Nat /\ (ok => copies >= 1)
      /\ told' = [told EXCEPT ![m] = Capped(@ + copies)]
  BY DEF Send
<1>2. Growth /\ Bounds' /\ NothingPassedOver' /\ NoneOvertaken' /\ (ok => Accounted(m)')
  BY <1>1, TellGrows
<1>3. Fits(pass[p])
  BY DEF AccountInv, AllFit
<1>4. /\ m \in pass[p].todo /\ m \in buyer /\ pass[p].read < m
      /\ pass[p].lo <= m /\ m <= pass[p].upto
      /\ \A k \in buyer : k < m => Accounted(k)
  BY <1>1, NextIsNext
<1>5. /\ pass[p].read <= written /\ pass[p].upto <= written /\ pass[p].step = "send"
      /\ (pass[p].first => pass[p].read = 0) /\ Through(pass[p].read)
      /\ pass[p].lo >= 1 /\ ~(pass[p].first /\ silent)
      /\ \A t \in pass[p].todo : /\ t \in buyer /\ pass[p].read < t
                                 /\ pass[p].lo <= t /\ t <= pass[p].upto
      /\ \A k \in buyer : k <= pass[p].upto /\ k \notin pass[p].todo => Accounted(k)
  BY <1>1, <1>3 DEF Fits, At
<1>6. /\ pass[p].read \in Nat /\ pass[p].upto \in Nat /\ pass[p].lo \in Nat
      /\ m \in Nat /\ written \in Nat /\ buyer \in SUBSET Ids
  <2>1. m \in Nat
    BY DEF Ids
  <2> QED
    BY <2>1, PassType DEF AccountInv, TypeOK
<1>7. \A k \in buyer : Accounted(k) => Accounted(k)'
  BY <1>2, <1>6 DEF Growth
<1>8. UNCHANGED <<silent, written, buyer>>
  BY <1>1 DEF chat
<1>9. CASE ok
  <2>1. s \in Passes
    BY DEF Passes, TypeOK, AccountInv
  <2>2. pass'[p] = s /\ \A q \in Pollers : q # p => pass'[q] = pass[q]
    BY <1>9, <2>1, TurnType DEF AccountInv, Send
  <2>3. /\ pass'[p].step = pass[p].step /\ pass'[p].first = pass[p].first
        /\ pass'[p].read = pass[p].read /\ pass'[p].todo = pass[p].todo \ {m}
        /\ pass'[p].upto = pass[p].upto /\ pass'[p].lo = pass[p].lo
    BY <2>2, PassType DEF AccountInv, TypeOK, Passes
  <2>4. \A k \in buyer : k <= pass[p].read => Accounted(k)'
    BY <1>5, <1>7 DEF Through
  <2>5. \A k \in buyer : k <= pass[p].upto /\ k \notin pass[p].todo \ {m} => Accounted(k)'
    BY <1>5, <1>7, <1>2, <1>9
  <2>6. Fits(pass[p])'
    BY <1>5, <1>8, <2>3, <2>4, <2>5 DEF Fits, Through, Accounted
  <2> QED
    BY <2>2, <2>6, <1>2, TellKeeps
<1>10. CASE ~ok
  <2>1. r \in Passes
    BY KeepBeforeType DEF Passes, TypeOK, AccountInv
  <2>2. pass'[p] = r /\ \A q \in Pollers : q # p => pass'[q] = pass[q]
    BY <1>10, <2>1, TurnType DEF AccountInv, Send
  <2>3. /\ pass'[p].step = "save" /\ pass'[p].first = pass[p].first
        /\ pass'[p].read = pass[p].read /\ pass'[p].todo = {}
        /\ pass'[p].upto = KeepBefore(p, m) /\ pass'[p].lo = pass[p].lo
    BY <2>2, PassType DEF AccountInv, TypeOK, Passes
  <2>4. \A k \in buyer : k <= pass[p].read => Accounted(k)'
    BY <1>5, <1>7 DEF Through
  <2>5. KeepBefore(p, m) < m /\ KeepBefore(p, m) <= written /\ KeepBefore(p, m) \in Nat
    BY <1>4, <1>5, <1>6 DEF KeepBefore
  <2>6. \A k \in buyer : k <= KeepBefore(p, m) => k < m
    BY <2>5, <1>6 DEF Ids
  <2>7. \A k \in buyer : k <= KeepBefore(p, m) => Accounted(k)'
    BY <2>6, <1>4, <1>7
  <2>8. Fits(pass[p])'
    BY <1>5, <1>8, <2>3, <2>4, <2>5, <2>7 DEF Fits, Through, Accounted
  <2> QED
    BY <2>2, <2>8, <1>2, TellKeeps
<1> QED
  BY <1>9, <1>10

LEMMA DieKeeps ==
  ASSUME ChatAssumption, AccountInv, TypeOK', NEW p \in Pollers, Die(p)
  PROVE  AccountInv'
<1>1. pass'[p] = AtRest /\ \A q \in Pollers : q # p => pass'[q] = pass[q]
  BY RestTurns, TurnType DEF Die, Rest, AccountInv
<1>2. UNCHANGED <<silent, chat, row, missed>>
  BY DEF Die
<1>3. CASE UNCHANGED told
  <2>1. UNCHANGED <<silent, written, buyer, deleted, told, missed, row>>
    BY <1>2, <1>3 DEF chat
  <2> QED
    BY <1>1, <2>1, NothingNew, RestFits, MoveKeeps DEF AccountInv
<1>4. CASE At(p, "send") /\ \E m \in pass[p].todo \ refused :
             IsNext(p, m) /\ told' = [told EXCEPT ![m] = Capped(@ + 1)]
  <2>1. PICK m \in Ids : IsNext(p, m) /\ told' = [told EXCEPT ![m] = Capped(@ + 1)]
    BY <1>4, PassType DEF AccountInv
  <2>2. Growth /\ Bounds' /\ NothingPassedOver' /\ NoneOvertaken'
    BY <2>1, <1>2, <1>4, TellGrows
  <2> QED
    BY <1>1, <2>2, RestFits, TellKeeps
<1> QED
  BY <1>3, <1>4 DEF Die

LEMMA SaveKeeps ==
  ASSUME AccountInv, TypeOK', NEW p \in Pollers, Save(p) PROVE AccountInv'
<1>1. pass'[p] = AtRest /\ \A q \in Pollers : q # p => pass'[q] = pass[q]
  BY RestTurns, TurnType DEF Save, Rest, AccountInv
<1>2. UNCHANGED <<silent, written, buyer, deleted, told>> /\ missed \subseteq missed'
  BY DEF Save, chat
<1>3. \A k \in Ids : Accounted(k) => Accounted(k)'
  BY <1>2 DEF Accounted
<1>4. Growth
  BY <1>2, <1>3 DEF Growth, AccountInv, TypeOK
<1>5. Fits(pass[p])
  BY DEF AccountInv, AllFit
<1>6. pass[p].upto <= written /\ (Bootstraps(p) \/ Through(pass[p].upto))
  BY <1>5 DEF Fits, Save, At, Bootstraps
<1>7. last' = last \/ last' = pass[p].upto
  BY DEF Save, row
<1>8. Bounds'
  <2>1. last' <= written' /\ (~known' => last' = 0)
    BY <1>2, <1>6, <1>7 DEF Save, row, AccountInv, Bounds
  <2> QED
    BY <2>1, <1>2 DEF AccountInv, Bounds, OnlyWritten
<1>9. NoneOvertaken'
  BY <1>2, <1>4, TellKeepsOrder DEF AccountInv, Bounds
<1>10. NothingPassedOver'
  <2>1. CASE last' = last
    BY <2>1, <1>4, RowKeeps DEF AccountInv, Bounds
  <2>2. CASE last' = pass[p].upto
    <3>1. ASSUME NEW k \in buyer, k <= pass[p].upto PROVE Accounted(k)'
      <4>1. CASE Bootstraps(p)
        BY <3>1, <4>1, <1>2 DEF Save, Accounted
      <4>2. CASE Through(pass[p].upto)
        BY <3>1, <4>2, <1>3 DEF Through, AccountInv, TypeOK
      <4> QED
        BY <4>1, <4>2, <1>6
    <3> QED
      BY <2>2, <3>1, <1>2 DEF NothingPassedOver, Accounted
  <2> QED
    BY <2>1, <2>2, <1>7
<1> QED
  BY <1>1, <1>4, <1>8, <1>9, <1>10, RestFits, TellKeeps

LEMMA InitAccount == Init /\ ChatAssumption => AccountInv
<1> SUFFICES ASSUME Init, ChatAssumption PROVE AccountInv
  OBVIOUS
<1>1. TypeOK
  BY InitType
<1>2. Bounds
  BY DEF Init, Bounds, OnlyWritten
<1>3. AllFit
  <2> SUFFICES ASSUME NEW p \in Pollers PROVE Fits(pass[p])
    BY DEF AllFit
  <2>1. /\ pass[p].step = "idle" /\ pass[p].first = FALSE /\ pass[p].read = 0
        /\ pass[p].lo = 0 /\ pass[p].todo = {} /\ pass[p].upto = 0
    BY DEF Init, AtRest
  <2> QED
    BY <2>1 DEF Init, Fits, Through
<1>4. NothingPassedOver /\ NoneOvertaken
  BY DEF Init, NothingPassedOver, NoneOvertaken
<1> QED
  BY <1>1, <1>2, <1>3, <1>4 DEF AccountInv

LEMMA NextAccount == ChatAssumption /\ AccountInv /\ [Next]_vars => AccountInv'
<1> SUFFICES ASSUME ChatAssumption, AccountInv, [Next]_vars PROVE AccountInv'
  OBVIOUS
<1>1. TypeOK'
  BY NextType DEF AccountInv
<1>2. ASSUME NEW p \in Pollers, Forward(p) PROVE AccountInv'
  BY <1>1, <1>2, ReadKeeps, FetchKeeps, FetchEmptyKeeps, FetchFailsKeeps, SendKeeps,
     SentKeeps, SaveKeeps DEF Forward
<1> QED
  BY <1>1, <1>2, WriteKeeps, DeleteKeeps, GrowStaleKeeps, DieKeeps, StutterKeeps DEF Next

\* Every reachable state is of the types of TypeOK.
THEOREM TypeCorrect == Spec => []TypeOK
<1>1. AccountInv => TypeOK
  BY DEF AccountInv
<1> QED
  BY <1>1, InitAccount, NextAccount, ChatAssumption, PTL DEF Spec

\* last_msg_id passes no message that was neither forwarded nor deleted nor
\* passed over knowingly, for any number of pollers (new_last in _process_chat).
THEOREM LosesNothing == Spec => []NothingPassedOver
<1>1. AccountInv => NothingPassedOver
  BY DEF AccountInv
<1> QED
  BY <1>1, InitAccount, NextAccount, ChatAssumption, PTL DEF Spec

\* Messages reach Telegram in their order, for any number of pollers (the loop
\* over to_send ends at the first failure).
THEOREM KeepsOrder == Spec => []NoneOvertaken
<1>1. AccountInv => NoneOvertaken
  BY DEF AccountInv
<1> QED
  BY <1>1, InitAccount, NextAccount, ChatAssumption, PTL DEF Spec

-----------------------------------------------------------------------------
\* Passes that do not overlap.

LEMMA InitOnce == Init => OnceInv
<1> SUFFICES ASSUME Init PROVE OnceInv
  OBVIOUS
<1>1. \A p \in Pollers : pass[p].step = "idle" /\ pass[p].todo = {}
  BY DEF Init, AtRest
<1> QED
  BY <1>1 DEF Init, OnceInv, Alone, UnderWay, MissedBehind, Copies, MissedIsUntold

\* While one is under way the others hold nothing.
LEMMA OthersRest ==
  ASSUME AccountInv, Alone, ~overlapped, NEW p \in Pollers, UnderWay(p)
  PROVE  \A q \in Pollers : q # p => ~UnderWay(q) /\ pass[q].todo = {}
BY DEF Alone, UnderWay, AccountInv, AllFit, Fits

\* What a step of a lone pass must show.
LEMMA LoneStep ==
  ASSUME AccountInv, OnceInv, ~overlapped, NEW p \in Pollers, UnderWay(p),
         \A q \in Pollers : q # p => pass'[q] = pass[q],
         UnderWay(p)' => pass'[p].read = last',
         \A m \in missed' : m <= last' \/ m < Oldest',
         pass'[p].todo \cap missed' = {},
         ~Ambiguous => \A m \in Ids :
           /\ told'[m] <= faults' + 1
           /\ m > last' /\ Ahead(pass[p], m)' => told'[m] <= faults',
         ~Ambiguous /\ faults' = 0 => \A m \in missed' : told'[m] = 0
  PROVE  OnceInv'
<1>1. \A q \in Pollers : q # p => ~UnderWay(q) /\ pass[q].todo = {}
  BY OthersRest DEF OnceInv
<1>2. Alone'
  BY <1>1 DEF Alone, UnderWay
<1>3. MissedBehind'
  BY <1>1 DEF MissedBehind
<1>4. Copies'
  BY DEF Copies, Unsent
<1>5. MissedIsUntold'
  BY DEF MissedIsUntold
<1> QED
  BY <1>2, <1>3, <1>4, <1>5 DEF OnceInv

\* Oldest, as a function of the number of messages.
OldestOf(n) == IF n > Page THEN n - Page + 1 ELSE 1

LEMMA OldestOfGrows ==
  ASSUME ChatAssumption, NEW n \in Nat, NEW k \in Nat, n <= k
  PROVE  OldestOf(n) <= OldestOf(k) /\ OldestOf(n) \in Nat /\ OldestOf(k) \in Nat
<1>1. Page \in Nat /\ Page > 0
  BY DEF ChatAssumption
<1> QED
  BY <1>1 DEF OldestOf

LEMMA OldestGrows ==
  ASSUME ChatAssumption, TypeOK, written' \in Nat, written <= written'
  PROVE  Oldest <= Oldest' /\ Oldest \in Nat /\ Oldest' \in Nat
<1>1. written \in Nat
  BY DEF TypeOK
<1>2. Oldest = OldestOf(written) /\ Oldest' = OldestOf(written')
  BY DEF Oldest, OldestOf
<1> QED
  BY <1>1, <1>2, OldestOfGrows

\* The chat's own steps, and none.
LEMMA ChatOnce ==
  ASSUME ChatAssumption, AccountInv, OnceInv,
         UNCHANGED <<silent, row, pass, history, overlapped, faults>>,
         written' \in Nat, written <= written'
  PROVE  OnceInv'
<1> USE DEF row, history
<1>1. Oldest <= Oldest' /\ Oldest \in Nat /\ Oldest' \in Nat /\ missed \in SUBSET Ids
  BY OldestGrows DEF AccountInv, TypeOK
<1>2. Alone'
  BY DEF OnceInv, Alone, UnderWay
<1>3. \A m \in missed : m < Oldest => m < Oldest'
  BY <1>1 DEF Ids
<1>4. MissedBehind'
  BY <1>3 DEF OnceInv, MissedBehind
<1>5. Copies'
  BY DEF OnceInv, Copies, Unsent, Ahead
<1>6. MissedIsUntold'
  BY DEF OnceInv, MissedIsUntold
<1> QED
  BY <1>2, <1>4, <1>5, <1>6 DEF OnceInv

LEMMA ReadOnce ==
  ASSUME AccountInv, OnceInv, NEW p \in Pollers, Read(p) PROVE OnceInv'
<1> SUFFICES ASSUME ~overlapped' PROVE OnceInv'
  BY DEF OnceInv, Alone, MissedBehind, Copies, MissedIsUntold
<1> DEFINE r == [AtRest EXCEPT !.step = "fetch", !.first = ~known, !.read = last]
<1>1. r \in Passes
  BY DEF AtRest, Passes, TypeOK, AccountInv
<1>2. pass'[p] = r /\ \A q \in Pollers : q # p => pass'[q] = pass[q]
  BY <1>1, TurnType DEF Read, AccountInv
<1>3. pass'[p].step = "fetch" /\ pass'[p].read = last /\ pass'[p].todo = {}
  BY <1>2 DEF AtRest
<1>4. UNCHANGED <<silent, written, buyer, deleted, told, missed, last, faults>>
  BY DEF Read, chat, history, row
<1>5. ~overlapped /\ \A q \in Pollers : ~UnderWay(q)
  BY DEF Read
<1>6. \A q \in Pollers : pass[q].todo = {}
  BY <1>5 DEF AccountInv, AllFit, Fits, UnderWay
<1>7. Alone'
  BY <1>2, <1>3, <1>4, <1>5 DEF Alone, UnderWay
<1>8. MissedBehind'
  BY <1>2, <1>3, <1>4, <1>5, <1>6 DEF OnceInv, MissedBehind, Oldest
<1>9. \A q \in Pollers, m \in Ids : Ahead(pass[q], m)
  BY <1>5 DEF Ahead, UnderWay
<1>10. Copies'
  BY <1>4, <1>5, <1>9 DEF OnceInv, Copies, Unsent
<1>11. MissedIsUntold'
  BY <1>4, <1>5 DEF OnceInv, MissedIsUntold
<1> QED
  BY <1>7, <1>8, <1>10, <1>11 DEF OnceInv

\* What is known of a lone pass.
LEMMA LoneFacts ==
  ASSUME AccountInv, OnceInv, ~overlapped, NEW p \in Pollers, UnderWay(p)
  PROVE  /\ pass[p].read = last
         /\ \A m \in missed : m <= last \/ m < Oldest
         /\ pass[p].todo \cap missed = {}
         /\ ~Ambiguous => \A m \in Ids :
              /\ told[m] <= faults + 1
              /\ m > last /\ Ahead(pass[p], m) => told[m] <= faults
         /\ ~Ambiguous /\ faults = 0 => \A m \in missed : told[m] = 0
<1>1. \A q \in Pollers : q # p => pass[q].step = "idle"
  BY OthersRest DEF OnceInv, UnderWay
<1>2. \A q \in Pollers, m \in Ids : q # p => Ahead(pass[q], m)
  BY <1>1 DEF Ahead
<1>3. ASSUME ~Ambiguous, NEW m \in Ids, m > last, Ahead(pass[p], m) PROVE told[m] <= faults
  <2>1. Unsent(m)
    BY <1>2, <1>3 DEF Unsent
  <2> QED
    BY <2>1, <1>3 DEF OnceInv, Copies
<1> QED
  BY <1>3 DEF OnceInv, Alone, MissedBehind, Copies, MissedIsUntold

\* A pass that ends, or comes to remember an empty chat.
LEMMA EmptyOnce ==
  ASSUME AccountInv, OnceInv, NEW p \in Pollers, FetchFails(p) \/ FetchEmpty(p)
  PROVE  OnceInv'
<1> SUFFICES ASSUME ~overlapped' PROVE OnceInv'
  BY DEF OnceInv, Alone, MissedBehind, Copies, MissedIsUntold
<1> DEFINE r == [pass[p] EXCEPT !.step = "save"]
<1>1. UnderWay(p) /\ ~overlapped /\ pass[p].step = "fetch"
  BY DEF FetchFails, FetchEmpty, At, UnderWay
<1>2. UNCHANGED <<silent, written, buyer, deleted, told, missed, last>>
  BY DEF FetchFails, FetchEmpty, chat, history, row
<1>3. faults \in Nat /\ faults' \in Nat /\ faults <= faults' /\ told \in [Ids -> Nat]
  BY DEF FetchFails, FetchEmpty, AccountInv, TypeOK
<1>4. pass[p].todo = {}
  BY <1>1 DEF AccountInv, AllFit, Fits
<1>5. r \in Passes
  BY DEF Passes, TypeOK, AccountInv
<1>6. Turn(p, AtRest) \/ Turn(p, r)
  BY DEF FetchFails, FetchEmpty, Rest
<1>7. /\ \A q \in Pollers : q # p => pass'[q] = pass[q]
      /\ pass'[p] = AtRest \/ pass'[p] = r
  BY <1>5, <1>6, RestTurns, TurnType DEF AccountInv
<1>8. pass'[p].todo = {} /\ (UnderWay(p)' => pass'[p].read = pass[p].read)
  BY <1>4, <1>7, PassType DEF AtRest, UnderWay, AccountInv, TypeOK, Passes
<1>9. \A m \in Ids : Ahead(pass[p], m)
  BY <1>1 DEF Ahead
<1>10. ~Ambiguous => \A m \in Ids : told[m] <= faults' + 1 /\ (m > last => told[m] <= faults')
  BY <1>1, <1>3, <1>9, LoneFacts
<1>11. Oldest' = Oldest
  BY <1>2 DEF Oldest
<1>12. faults' = 0 => faults = 0
  BY <1>3
<1> QED
  BY <1>1, <1>2, <1>7, <1>8, <1>10, <1>11, <1>12, LoneFacts, LoneStep

LEMMA FetchOnce ==
  ASSUME ChatAssumption, AccountInv, OnceInv, NEW p \in Pollers, Fetch(p) PROVE OnceInv'
<1> SUFFICES ASSUME ~overlapped' PROVE OnceInv'
  BY DEF OnceInv, Alone, MissedBehind, Copies, MissedIsUntold
<1> DEFINE s == [pass[p] EXCEPT !.step = "save", !.lo = Oldest, !.upto = written]
           r == [pass[p] EXCEPT !.step = "send", !.lo = Oldest,
                                !.todo = Wanted(p), !.upto = written]
           off == {m \in buyer \ deleted : pass[p].read < m /\ m < Oldest}
<1>1. UnderWay(p) /\ ~overlapped /\ pass[p].step = "fetch"
  BY DEF Fetch, At, UnderWay
<1>2. UNCHANGED <<written, told, last, faults>> /\ Oldest' = Oldest
  BY DEF Fetch, chat, row, Oldest
<1>3. pass[p].todo = {}
  BY <1>1 DEF AccountInv, AllFit, Fits
<1>4. Wanted(p) \in SUBSET Ids /\ Oldest \in Nat /\ written \in Nat
  BY OldestType DEF AccountInv, TypeOK, Wanted
<1>5. s \in Passes /\ r \in Passes
  BY <1>4 DEF Passes, TypeOK, AccountInv
<1>6. /\ \A q \in Pollers : q # p => pass'[q] = pass[q]
      /\ \/ pass'[p] = s /\ missed' = missed
         \/ pass'[p] = r /\ missed' = missed \cup off
  BY <1>5, TurnType DEF Fetch, AccountInv
<1>7. pass'[p].read = pass[p].read
  BY <1>6, PassType DEF AccountInv, TypeOK, Passes
<1>8. \A m \in Ids : Ahead(pass[p], m)
  BY <1>1 DEF Ahead
<1>9. ~Ambiguous => \A m \in Ids : told[m] <= faults + 1 /\ (m > last => told[m] <= faults)
  BY <1>1, <1>8, LoneFacts
<1>10. pass[p].read = last /\ last \in Nat /\ off \in SUBSET Ids /\ missed \in SUBSET Ids
  BY <1>1, LoneFacts DEF AccountInv, TypeOK
<1>11. \A m \in missed' : m <= last \/ m < Oldest
  BY <1>1, <1>6, LoneFacts
<1>12. pass'[p].todo \cap missed' = {}
  <2>1. CASE pass'[p] = s
    BY <2>1, <1>3, PassType DEF AccountInv, TypeOK, Passes
  <2>2. CASE pass'[p] = r /\ missed' = missed \cup off
    <3>1. pass'[p].todo = Wanted(p)
      BY <2>2, PassType DEF AccountInv, TypeOK, Passes
    <3>2. \A m \in Wanted(p) : m \in Nat /\ m > last /\ m >= Oldest
      BY <1>4, <1>10 DEF Wanted, Ids
    <3>3. \A m \in Wanted(p) : m \notin missed'
      BY <3>2, <1>11, <1>10, <1>4
    <3> QED
      BY <3>1, <3>3
  <2> QED
    BY <2>1, <2>2, <1>6
<1>13. ~Ambiguous /\ faults = 0 => \A m \in missed' : told[m] = 0
  <2> SUFFICES ASSUME ~Ambiguous, faults = 0, NEW m \in missed' PROVE told[m] = 0
    OBVIOUS
  <2>1. CASE m \in missed
    BY <2>1, <1>1, LoneFacts
  <2>2. CASE m \in off
    <3>1. m \in Ids /\ m > last /\ told[m] \in Nat
      BY <2>2, <1>10 DEF AccountInv, TypeOK
    <3> QED
      BY <3>1, <1>9
  <2> QED
    BY <2>1, <2>2, <1>6
<1> QED
  BY <1>1, <1>2, <1>6, <1>7, <1>9, <1>10, <1>11, <1>12, <1>13, LoneStep

LEMMA SentOnce ==
  ASSUME AccountInv, OnceInv, NEW p \in Pollers, Sent(p) PROVE OnceInv'
<1> SUFFICES ASSUME ~overlapped' PROVE OnceInv'
  BY DEF OnceInv, Alone, MissedBehind, Copies, MissedIsUntold
<1> DEFINE r == [pass[p] EXCEPT !.step = "save"]
<1>1. UnderWay(p) /\ ~overlapped /\ pass[p].step = "send" /\ pass[p].todo = {}
  BY DEF Sent, At, UnderWay
<1>2. UNCHANGED <<silent, told, last, faults, missed>> /\ Oldest' = Oldest
  BY DEF Sent, chat, row, history, Oldest
<1>3. r \in Passes
  BY DEF Passes, TypeOK, AccountInv
<1>4. pass'[p] = r /\ \A q \in Pollers : q # p => pass'[q] = pass[q]
  BY <1>3, TurnType DEF Sent, AccountInv
<1>5. /\ pass'[p].step = "save" /\ pass'[p].read = pass[p].read /\ pass'[p].todo = {}
      /\ pass'[p].upto = pass[p].upto /\ pass'[p].lo = pass[p].lo
      /\ pass'[p].first = pass[p].first
  BY <1>1, <1>4, PassType DEF AccountInv, TypeOK, Passes
<1>6. pass[p].lo \in Nat /\ pass[p].lo >= 1 /\ ~(pass[p].first /\ silent)
  BY <1>1, PassType DEF AccountInv, AllFit, Fits
<1>7. \A m \in Ids : Ahead(pass[p], m)' => Ahead(pass[p], m)
  BY <1>1, <1>2, <1>5, <1>6 DEF Ahead
<1>8. ~Ambiguous => \A m \in Ids :
        told[m] <= faults + 1 /\ (m > last /\ Ahead(pass[p], m)' => told[m] <= faults)
  BY <1>1, <1>7, LoneFacts
<1>9. pass[p].read = last /\ \A m \in missed : m <= last \/ m < Oldest
  BY <1>1, LoneFacts
<1>10. ~Ambiguous /\ faults = 0 => \A m \in missed : told[m] = 0
  BY <1>1, LoneFacts
<1> QED
  BY <1>1, <1>2, <1>4, <1>5, <1>8, <1>9, <1>10, LoneStep

LEMMA SendOnce ==
  ASSUME ChatAssumption, AccountInv, OnceInv, NEW p \in Pollers, NEW m \in Ids,
         NEW ok \in BOOLEAN, NEW copies \in 0..2, Send(p, m, ok, copies)
  PROVE  OnceInv'
<1> SUFFICES ASSUME ~overlapped' PROVE OnceInv'
  BY DEF OnceInv, Alone, MissedBehind, Copies, MissedIsUntold
<1> DEFINE s == [pass[p] EXCEPT !.todo = @ \ {m}]
           r == [pass[p] EXCEPT !.step = "save", !.todo = {}, !.upto = KeepBefore(p, m)]
<1>1. /\ UnderWay(p) /\ ~overlapped /\ pass[p].step = "send" /\ At(p, "send")
      /\ IsNext(p, m) /\ copies \in Nat
      /\ told' = [told EXCEPT ![m] = Capped(@ + copies)]
      /\ ~Ambiguous => (ok => copies = 1) /\ (~ok => copies = 0)
  BY DEF Send, At, UnderWay
<1>2. UNCHANGED <<silent, last, faults, missed>> /\ Oldest' = Oldest
  BY DEF Send, chat, row, Oldest
<1>3. /\ m \in pass[p].todo /\ pass[p].read < m
      /\ pass[p].lo <= m /\ m <= pass[p].upto
      /\ \A k \in pass[p].todo : m <= k
  BY <1>1, NextIsNext
<1>4. /\ told'[m] = Capped(told[m] + copies)
      /\ \A k \in Ids : k # m => told'[k] = told[k]
  BY <1>1, ToldMore DEF AccountInv
<1>5. /\ pass[p].read = last /\ pass[p].todo \cap missed = {}
      /\ \A k \in missed : k <= last \/ k < Oldest
  BY <1>1, LoneFacts
<1>6. ~Ambiguous => \A k \in Ids :
        told[k] <= faults + 1 /\ (k > last /\ Ahead(pass[p], k) => told[k] <= faults)
  BY <1>1, LoneFacts
<1>7. ~Ambiguous /\ faults = 0 => \A k \in missed : told[k] = 0
  BY <1>1, LoneFacts
<1>8. /\ m \in Nat /\ last \in Nat /\ faults \in Nat /\ MaxTold \in Nat
      /\ \A k \in Ids : k \in Nat /\ told[k] \in Nat
  BY DEF AccountInv, TypeOK, Ids, ChatAssumption
<1>9. pass[p].lo \in Nat /\ pass[p].upto \in Nat /\ pass[p].todo \in SUBSET Ids
  BY PassType DEF AccountInv
<1>10. pass[p].lo >= 1 /\ ~(pass[p].first /\ silent)
  BY <1>1 DEF AccountInv, AllFit, Fits
<1>11. \A k \in missed : told'[k] = told[k]
  BY <1>3, <1>4, <1>5 DEF AccountInv, TypeOK
<1>12. s \in Passes /\ r \in Passes
  BY KeepBeforeType DEF Passes, TypeOK, AccountInv
<1>13. CASE ok
  <2>1. pass'[p] = s /\ \A q \in Pollers : q # p => pass'[q] = pass[q]
    BY <1>12, <1>13, TurnType DEF Send, AccountInv
  <2>2. /\ pass'[p].step = "send" /\ pass'[p].read = pass[p].read
        /\ pass'[p].todo = pass[p].todo \ {m}
        /\ pass'[p].upto = pass[p].upto /\ pass'[p].lo = pass[p].lo
    BY <1>1, <2>1, PassType DEF AccountInv, TypeOK, Passes
  <2>3. Ahead(pass[p], m)
    BY <1>1, <1>3 DEF Ahead
  <2>4. ~Ahead(pass[p], m)'
    <3>1. \A t \in pass[p].todo \ {m} : ~(t <= m)
      BY <1>3, <1>8, <1>9
    <3> QED
      BY <2>2, <3>1, <1>3, <1>8, <1>9 DEF Ahead
  <2>5. \A k \in Ids : Ahead(pass[p], k)' => Ahead(pass[p], k)
    BY <1>1, <2>2 DEF Ahead
  <2>6. ~Ambiguous => told'[m] <= faults + 1
    <3> SUFFICES ASSUME ~Ambiguous PROVE told'[m] <= faults + 1
      OBVIOUS
    <3>1. told[m] <= faults
      BY <1>3, <1>5, <1>6, <1>8, <2>3
    <3>2. Capped(told[m] + copies) <= told[m] + 1 /\ Capped(told[m] + copies) \in Nat
      BY <1>1, <1>8, <1>13 DEF Capped
    <3> QED
      BY <1>4, <1>8, <3>1, <3>2
  <2>7. ~Ambiguous => \A k \in Ids :
          told'[k] <= faults + 1 /\ (k > last /\ Ahead(pass[p], k)' => told'[k] <= faults)
    BY <1>4, <1>6, <2>4, <2>5, <2>6
  <2> QED
    BY <1>1, <1>2, <1>5, <1>7, <1>11, <2>1, <2>2, <2>7, LoneStep
<1>14. CASE ~ok
  <2>1. pass'[p] = r /\ \A q \in Pollers : q # p => pass'[q] = pass[q]
    BY <1>12, <1>14, TurnType DEF Send, AccountInv
  <2>2. /\ pass'[p].step = "save" /\ pass'[p].read = pass[p].read
        /\ pass'[p].todo = {} /\ pass'[p].first = pass[p].first
        /\ pass'[p].upto = KeepBefore(p, m) /\ pass'[p].lo = pass[p].lo
    BY <2>1, PassType DEF AccountInv, TypeOK, Passes
  <2>3. ASSUME NEW k \in Ids, k > last, Ahead(pass[p], k)' PROVE Ahead(pass[p], k)
    <3>1. k > KeepBefore(p, m)
      BY <1>2, <1>10, <2>2, <2>3 DEF Ahead
    <3>2. CASE m > pass[p].lo
      <4>1. m <= k
        BY <3>1, <3>2, <1>8 DEF KeepBefore
      <4> QED
        BY <4>1, <1>1, <1>3 DEF Ahead
    <3>3. CASE ~(m > pass[p].lo)
      <4>1. k < pass[p].lo \/ m <= k
        BY <3>3, <1>3, <1>8, <1>9
      <4> QED
        BY <4>1, <1>1, <1>3 DEF Ahead
    <3> QED
      BY <3>2, <3>3
  <2>4. ~Ambiguous => \A k \in Ids : told'[k] <= told[k]
    <3>1. ~Ambiguous => Capped(told[m] + copies) <= told[m]
      BY <1>1, <1>8, <1>14 DEF Capped
    <3> QED
      BY <1>4, <1>8, <3>1
  <2>5. \A k \in Ids : told'[k] \in Nat
    <3>1. told' \in [Ids -> 0..MaxTold]
      BY <1>1, ToldMore DEF AccountInv
    <3> QED
      BY <3>1
  <2>6. ~Ambiguous => \A k \in Ids :
          told'[k] <= faults + 1 /\ (k > last /\ Ahead(pass[p], k)' => told'[k] <= faults)
    BY <1>6, <1>8, <2>3, <2>4, <2>5
  <2>7. /\ UnderWay(p)' => pass'[p].read = last'
        /\ pass'[p].todo \cap missed' = {}
    BY <1>2, <1>5, <2>2
  <2>8. \A k \in missed' : k <= last' \/ k < Oldest'
    BY <1>2, <1>5
  <2>9. ~Ambiguous => \A k \in Ids :
          /\ told'[k] <= faults' + 1
          /\ k > last' /\ Ahead(pass[p], k)' => told'[k] <= faults'
    BY <1>2, <2>6
  <2>10. ~Ambiguous /\ faults' = 0 => \A k \in missed' : told'[k] = 0
    BY <1>2, <1>7, <1>11
  <2> QED
    BY <1>1, <2>1, <2>7, <2>8, <2>9, <2>10, LoneStep
<1> QED
  BY <1>13, <1>14

\* A pass that dies may have sent its next message, and no other.
LEMMA DieOnce ==
  ASSUME ChatAssumption, AccountInv, OnceInv, NEW p \in Pollers, Die(p) PROVE OnceInv'
<1> SUFFICES ASSUME ~overlapped' PROVE OnceInv'
  BY DEF OnceInv, Alone, MissedBehind, Copies, MissedIsUntold
<1>1. UnderWay(p) /\ ~overlapped /\ faults \in Nat /\ faults' = faults + 1
  BY DEF Die, AccountInv, TypeOK
<1>2. UNCHANGED <<silent, last, missed>> /\ Oldest' = Oldest
  BY DEF Die, chat, row, Oldest
<1>3. pass'[p] = AtRest /\ \A q \in Pollers : q # p => pass'[q] = pass[q]
  BY RestTurns, TurnType DEF Die, Rest, AccountInv
<1>4. pass'[p].step = "idle" /\ pass'[p].todo = {}
  BY <1>3 DEF AtRest
<1>5. \A m \in missed : m <= last \/ m < Oldest
  BY <1>1, LoneFacts
<1>6. ~Ambiguous => \A k \in Ids :
        told[k] <= faults + 1 /\ (k > last /\ Ahead(pass[p], k) => told[k] <= faults)
  BY <1>1, LoneFacts
<1>7. \A k \in Ids : k \in Nat /\ told[k] \in Nat
  BY DEF AccountInv, TypeOK, Ids
<1>8. ~Ambiguous => \A k \in Ids : told'[k] <= faults'
  <2> SUFFICES ASSUME ~Ambiguous PROVE \A k \in Ids : told'[k] <= faults'
    OBVIOUS
  <2>1. CASE UNCHANGED told
    BY <2>1, <1>1, <1>6, <1>7
  <2>2. CASE At(p, "send") /\ \E m \in pass[p].todo \ refused :
               IsNext(p, m) /\ told' = [told EXCEPT ![m] = Capped(@ + 1)]
    <3>1. PICK m \in Ids : IsNext(p, m) /\ told' = [told EXCEPT ![m] = Capped(@ + 1)]
      BY <2>2, PassType DEF AccountInv
    <3>2. told'[m] = Capped(told[m] + 1) /\ \A k \in Ids : k # m => told'[k] = told[k]
      BY <3>1, ToldMore DEF AccountInv
    <3>3. pass[p].read < m /\ m \in pass[p].todo
      BY <2>2, <3>1, NextIsNext
    <3>4. m <= m
      BY <1>7
    <3>5. Ahead(pass[p], m)
      BY <2>2, <3>3, <3>4 DEF Ahead, At
    <3>6. told[m] <= faults
      <4>1. pass[p].read = last
        BY <1>1, LoneFacts
      <4> QED
        BY <4>1, <3>3, <3>5, <1>6, <1>7 DEF AccountInv, TypeOK
    <3>7. Capped(told[m] + 1) <= told[m] + 1 /\ Capped(told[m] + 1) \in Nat
      <4>1. MaxTold \in Nat
        BY DEF ChatAssumption
      <4> QED
        BY <4>1, <1>7 DEF Capped
    <3>8. told'[m] <= faults'
      BY <3>2, <3>6, <3>7, <1>1, <1>7
    <3>9. \A k \in Ids : k # m => told'[k] <= faults'
      BY <3>2, <1>1, <1>6, <1>7
    <3> QED
      BY <3>8, <3>9
  <2> QED
    BY <2>1, <2>2 DEF Die
<1>9. \A k \in Ids : told'[k] \in Nat
  <2>1. TypeOK'
    BY DieType DEF AccountInv
  <2> QED
    BY <2>1 DEF TypeOK
<1>10. ~Ambiguous => \A k \in Ids : told'[k] <= faults' + 1 /\ told'[k] <= faults'
  BY <1>1, <1>8, <1>9
<1>11. faults' # 0
  BY <1>1
<1> QED
  BY <1>1, <1>2, <1>3, <1>4, <1>5, <1>10, <1>11, LoneStep DEF UnderWay

LEMMA SaveOnce ==
  ASSUME AccountInv, OnceInv, NEW p \in Pollers, Save(p) PROVE OnceInv'
<1> SUFFICES ASSUME ~overlapped' PROVE OnceInv'
  BY DEF OnceInv, Alone, MissedBehind, Copies, MissedIsUntold
<1>1. UnderWay(p) /\ ~overlapped /\ pass[p].step = "save"
  BY DEF Save, At, UnderWay
<1>2. UNCHANGED <<silent, told, faults>> /\ Oldest' = Oldest
  BY DEF Save, chat, Oldest
<1>3. pass'[p] = AtRest /\ \A q \in Pollers : q # p => pass'[q] = pass[q]
  BY RestTurns, TurnType DEF Save, Rest, AccountInv
<1>4. pass'[p].step = "idle" /\ pass'[p].todo = {}
  BY <1>3 DEF AtRest
<1>5. pass[p].read = last /\ \A m \in missed : m <= last \/ m < Oldest
  BY <1>1, LoneFacts
<1>6. ~Ambiguous => \A k \in Ids :
        told[k] <= faults + 1 /\ (k > last /\ Ahead(pass[p], k) => told[k] <= faults)
  BY <1>1, LoneFacts
<1>7. last \in Nat /\ pass[p].upto \in Nat /\ missed \in SUBSET Ids /\ buyer \in SUBSET Ids
      /\ \A k \in Ids : k \in Nat /\ k >= 1 /\ told[k] \in Nat
  <2>1. \A k \in Ids : k \in Nat /\ k >= 1
    BY DEF Ids
  <2> QED
    BY <2>1, PassType DEF AccountInv, TypeOK
<1>8. pass[p].first => last = 0
  BY <1>5 DEF AccountInv, AllFit, Fits
<1>9. \/ Bootstraps(p) /\ last' = pass[p].upto
         /\ missed' = missed \cup {m \in buyer \ deleted : m <= pass[p].upto}
      \/ ~Bootstraps(p) /\ pass[p].upto > last /\ last' = pass[p].upto /\ missed' = missed
      \/ ~Bootstraps(p) /\ ~(pass[p].upto > last) /\ last' = last /\ missed' = missed
  BY <1>5 DEF Save, row
<1>10. \A k \in Ids : Bootstraps(p) \/ k > pass[p].upto => Ahead(pass[p], k)
  BY <1>1 DEF Ahead, Bootstraps
<1>11. last <= last' /\ last' \in Nat
  BY <1>7, <1>8, <1>9 DEF Bootstraps
<1>12. \A m \in missed' : m <= last' \/ m < Oldest'
  <2>1. \A m \in missed : m <= last' \/ m < Oldest
    BY <1>5, <1>7, <1>11
  <2> QED
    BY <2>1, <1>2, <1>9
<1>13. ~Ambiguous => \A k \in Ids : told[k] <= faults + 1 /\ (k > last' => told[k] <= faults)
  <2> SUFFICES ASSUME ~Ambiguous, NEW k \in Ids, k > last' PROVE told[k] <= faults
    BY <1>6
  <2>1. k > last
    BY <1>7, <1>11
  <2>2. Ahead(pass[p], k)
    BY <1>7, <1>9, <1>10
  <2> QED
    BY <2>1, <2>2, <1>6
<1>14. ~Ambiguous /\ faults = 0 => \A m \in missed' : told[m] = 0
  <2> SUFFICES ASSUME ~Ambiguous, faults = 0, NEW m \in missed' PROVE told[m] = 0
    OBVIOUS
  <2>1. CASE m \in missed
    BY <2>1, <1>1, LoneFacts
  <2>2. CASE m \notin missed
    <3>1. Bootstraps(p) /\ m \in Ids
      BY <2>2, <1>7, <1>9
    <3>2. m > last /\ Ahead(pass[p], m)
      BY <3>1, <1>7, <1>8, <1>10 DEF Bootstraps
    <3> QED
      BY <3>1, <3>2, <1>6, <1>7
  <2> QED
    BY <2>1, <2>2
<1> QED
  BY <1>1, <1>2, <1>3, <1>4, <1>12, <1>13, <1>14, LoneStep DEF UnderWay

LEMMA NextOnce == ChatAssumption /\ AccountInv /\ OnceInv /\ [Next]_vars => OnceInv'
<1> SUFFICES ASSUME ChatAssumption, AccountInv, OnceInv, [Next]_vars PROVE OnceInv'
  OBVIOUS
<1>1. written \in Nat /\ written <= written
  BY DEF AccountInv, TypeOK
<1>2. ASSUME NEW kind \in {"seller", "buyer", "refused"}, Write(kind) PROVE OnceInv'
  <2>1. written' \in Nat /\ written <= written'
    BY <1>1, <1>2 DEF Write
  <2> QED
    BY <1>2, <2>1, ChatOnce DEF Write
<1>3. ASSUME NEW m \in Ids, Delete(m) PROVE OnceInv'
  <2>1. written' \in Nat /\ written <= written'
    BY <1>1, <1>3 DEF Delete
  <2> QED
    BY <1>3, <2>1, ChatOnce DEF Delete
<1>4. CASE GrowStale
  <2>1. written' \in Nat /\ written <= written'
    BY <1>1, <1>4 DEF GrowStale
  <2> QED
    BY <1>4, <2>1, ChatOnce DEF GrowStale
<1>5. CASE UNCHANGED vars
  <2>1. written' \in Nat /\ written <= written'
    BY <1>1, <1>5 DEF vars, chat
  <2> QED
    BY <1>5, <2>1, ChatOnce DEF vars
<1>6. ASSUME NEW p \in Pollers, Forward(p) PROVE OnceInv'
  BY <1>6, ReadOnce, FetchOnce, EmptyOnce, SendOnce, SentOnce, SaveOnce DEF Forward
<1> QED
  BY <1>2, <1>3, <1>4, <1>5, <1>6, DieOnce DEF Next

LEMMA Invariant == Spec => []IInv
<1>1. Init /\ ChatAssumption => IInv
  BY InitAccount, InitOnce DEF IInv
<1>2. IInv /\ ChatAssumption /\ [Next]_vars => IInv'
  BY NextAccount, NextOnce DEF IInv
<1> QED
  BY <1>1, <1>2, ChatAssumption, PTL DEF Spec

\* With one pass at a time a message is forwarded once, and once more for every
\* pass that died (_process_chat sends what is after last_msg_id).
THEOREM ForwardsOnce == Spec => []OnceEach
<1>1. IInv => OnceEach
  <2> SUFFICES ASSUME IInv PROVE OnceEach
    OBVIOUS
  <2>1. faults \in Nat
    BY DEF IInv, AccountInv, TypeOK
  <2>2. faults + 1 = 1 + faults
    BY <2>1
  <2> QED
    BY <2>2 DEF IInv, OnceInv, Copies, OnceEach
<1> QED
  BY <1>1, Invariant, PTL

\* What a pass takes the chat past without a word was not and is not sent, by a
\* lone poller that nothing goes wrong with: a swallowed history stays silent.
THEOREM KeepsSilent == Spec => []MissedIsUntold
<1>1. IInv => MissedIsUntold
  BY DEF IInv, OnceInv
<1> QED
  BY <1>1, Invariant, PTL

\* The row and the messages behind it, in a step that touches neither.
LEMMA MarkStays ==
  ASSUME AccountInv, UNCHANGED <<last, told>>
  PROVE  last' >= last /\ \A m \in Ids : told'[m] # told[m] => m > last
<1>1. last \in Nat
  BY DEF AccountInv, TypeOK
<1> QED
  BY <1>1

\* Of a pass under way alone, only the message it sends next gets another copy,
\* and that one is after the row.
LEMMA OnlyNextIsTold ==
  ASSUME ChatAssumption, AccountInv, OnceInv, ~overlapped, NEW p \in Pollers,
         At(p, "send"), NEW m \in Ids, IsNext(p, m), NEW n \in Nat,
         told' = [told EXCEPT ![m] = Capped(@ + n)], UNCHANGED last
  PROVE  last' >= last /\ \A k \in Ids : told'[k] # told[k] => k > last
<1>1. UnderWay(p) /\ last \in Nat
  BY DEF At, UnderWay, AccountInv, TypeOK
<1>2. pass[p].read = last /\ pass[p].read < m
  BY <1>1, LoneFacts, NextIsNext
<1>3. \A k \in Ids : k # m => told'[k] = told[k]
  BY ToldMore DEF AccountInv
<1>4. m \in Nat
  BY DEF Ids
<1> QED
  BY <1>1, <1>2, <1>3, <1>4

LEMMA SaveMovesOn ==
  ASSUME AccountInv, OnceInv, ~overlapped, NEW p \in Pollers, Save(p)
  PROVE  last' >= last /\ UNCHANGED told
<1>1. UnderWay(p)
  BY DEF Save, At, UnderWay
<1>2. last \in Nat /\ pass[p].upto \in Nat /\ pass[p].read = last
  BY <1>1, PassType, LoneFacts DEF AccountInv, TypeOK
<1>3. pass[p].first => last = 0
  BY <1>2 DEF AccountInv, AllFit, Fits
<1>4. Bootstraps(p) => last = 0
  BY <1>3 DEF Bootstraps
<1>5. \/ last' = pass[p].upto /\ (Bootstraps(p) \/ pass[p].upto > last)
      \/ last' = last
  BY <1>2 DEF Save, row
<1> QED
  BY <1>2, <1>4, <1>5 DEF Save

\* With one pass at a time last_msg_id never goes back, and nothing up to it is
\* ever sent again, through any failures and deaths (_process_chat).
THEOREM MarkNeverGoesBack == Spec => MarkMovesOn
<1>1. ASSUME IInv, [Next]_vars, ~overlapped'
      PROVE  last' >= last /\ \A m \in Ids : told'[m] # told[m] => m > last
  <2>1. ChatAssumption /\ AccountInv /\ OnceInv
    BY <1>1, ChatAssumption DEF IInv
  <2>2. CASE UNCHANGED <<last, told>>
    BY <2>1, <2>2, MarkStays
  <2>3. ASSUME NEW kind \in {"seller", "buyer", "refused"}, Write(kind)
        PROVE  UNCHANGED <<last, told>>
    BY <2>3 DEF Write, row, history
  <2>4. ASSUME NEW m \in Ids, Delete(m) PROVE UNCHANGED <<last, told>>
    BY <2>4 DEF Delete, row, history
  <2>5. GrowStale \/ UNCHANGED vars => UNCHANGED <<last, told>>
    BY DEF GrowStale, vars, row, history
  <2>6. ASSUME NEW p \in Pollers,
               Read(p) \/ Fetch(p) \/ FetchEmpty(p) \/ FetchFails(p) \/ Sent(p)
        PROVE  UNCHANGED <<last, told>>
    BY <2>6 DEF Read, Fetch, FetchEmpty, FetchFails, Sent, row, history
  <2>7. ASSUME NEW p \in Pollers, NEW m \in Ids, NEW ok \in BOOLEAN, NEW copies \in 0..2,
               Send(p, m, ok, copies)
        PROVE  last' >= last /\ \A k \in Ids : told'[k] # told[k] => k > last
    <3>1. /\ At(p, "send") /\ IsNext(p, m) /\ copies \in Nat /\ UNCHANGED last
          /\ told' = [told EXCEPT ![m] = Capped(@ + copies)] /\ ~overlapped
      BY <1>1, <2>7 DEF Send, row
    <3> QED
      BY <2>1, <3>1, OnlyNextIsTold
  <2>8. ASSUME NEW p \in Pollers, Save(p)
        PROVE  last' >= last /\ \A k \in Ids : told'[k] # told[k] => k > last
    <3>1. ~overlapped
      BY <1>1, <2>8 DEF Save
    <3> QED
      BY <2>1, <2>8, <3>1, SaveMovesOn
  <2>9. ASSUME NEW p \in Pollers, Die(p)
        PROVE  last' >= last /\ \A k \in Ids : told'[k] # told[k] => k > last
    <3>1. UNCHANGED last /\ ~overlapped /\ 1 \in Nat
      BY <1>1, <2>9 DEF Die, row
    <3>2. CASE UNCHANGED told
      BY <2>2, <3>1, <3>2
    <3>3. CASE At(p, "send") /\ \E m \in pass[p].todo \ refused :
                 IsNext(p, m) /\ told' = [told EXCEPT ![m] = Capped(@ + 1)]
      <4>1. PICK m \in Ids : IsNext(p, m) /\ told' = [told EXCEPT ![m] = Capped(@ + 1)]
        BY <2>1, <3>3, PassType DEF AccountInv
      <4> QED
        BY <2>1, <3>1, <3>3, <4>1, OnlyNextIsTold
    <3> QED
      BY <2>9, <3>2, <3>3 DEF Die
  <2>10. ASSUME NEW p \in Pollers, Forward(p)
         PROVE  last' >= last /\ \A k \in Ids : told'[k] # told[k] => k > last
    BY <2>2, <2>6, <2>7, <2>8, <2>10 DEF Forward
  <2> QED
    BY <1>1, <2>2, <2>3, <2>4, <2>5, <2>9, <2>10 DEF Next
<1>2. IInv /\ [Next]_vars =>
        [~overlapped' => /\ last' >= last
                         /\ \A m \in Ids : told'[m] # told[m] => m > last]_vars
  BY <1>1
<1> QED
  BY <1>2, Invariant, PTL DEF Spec, MarkMovesOn
=============================================================================
