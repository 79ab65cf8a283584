------------------------- MODULE OrderStatusProofs -------------------------
(***************************************************************************)
(* Theorems about OrderStatus for any number of delayed checks and visits  *)
(* and any number of faults.                                               *)
(***************************************************************************)
EXTENDS OrderStatus, FiniteSetTheorems, TLAPS

Sending(a) == actor[a].step \in {"send", "unmark"}

\* Whoever sends, or takes a failed notification back, has its mark in the
\* table, and is alone in that.
Marks == \A a \in Actors : Sending(a) => Kind(actor[a].seen) \in notified

\* A final status is never invented: the supplier has it, or has reported an
\* error, whoever holds it; and the poller notifies and closes only for one.
Finals ==
  /\ \A a \in Actors : IsFinal(actor[a].seen) => Ended
  /\ IsFinal(saved) => Ended
  /\ actor[Poller].step \in {"look", "insert", "send", "unmark"}
       => IsFinal(actor[Poller].seen)
  /\ At(Poller, "finish") => Ended
  /\ \A k \in notified : k = "final" => Ended

\* Nothing was told of a kind without a mark, or of one that is being sent.
Counts == ~Ambiguous =>
  /\ \A k \in Kinds : told[k] <= 1
  /\ \A k \in Kinds \ notified : told[k] = 0
  /\ \A a \in Actors : Sending(a) => told[Kind(actor[a].seen)] = 0

\* A final message is only sent for an order the supplier has finished or has
\* reported an error of, and only such an order is closed.
Closed == status = "DONE" \/ told["final"] > 0 => Ended

IInv == TypeOK /\ Marks /\ OneSender /\ Finals /\ Counts /\ Closed

-----------------------------------------------------------------------------

LEMMA KindType == \A s : Kind(s) \in Kinds
BY DEF Kind, Kinds

LEMMA RestType == \A a : Rest(a) \in {"idle", "gone"}
BY DEF Rest

LEMMA SettledType == \A a :
  /\ Settled(a) \in {"idle", "gone", "finish"}
  /\ Settled(a) = "finish" => a = Poller
BY RestType DEF Settled

\* What is said of an actor that moves to step s with status x in hand.
Moved(a, s, x) ==
  /\ actor' \in [Actors -> [step : Steps, seen : SavedStatus]]
  /\ actor'[a] = [step |-> s, seen |-> x]
  /\ \A b \in Actors : b # a => actor'[b] = actor[b]

LEMMA MoveMoves ==
  ASSUME TypeOK, NEW a \in Actors, NEW s \in Steps, NEW x \in SavedStatus,
         actor' = [actor EXCEPT ![a] = [step |-> s, seen |-> x]]
  PROVE  Moved(a, s, x)
BY DEF TypeOK, Moved

Kept(a, s) == IF s \in EmptyHanded THEN "none" ELSE actor[a].seen

LEMMA GoMoves ==
  ASSUME TypeOK, NEW a \in Actors, NEW s \in Steps, Go(a, s)
  PROVE  Moved(a, s, Kept(a, s)) /\ Kept(a, s) \in SavedStatus
<1>1. Kept(a, s) \in SavedStatus
  BY DEF TypeOK, Kept, EmptyHanded, SavedStatus
<1>2. actor' = [actor EXCEPT ![a] = [step |-> s, seen |-> Kept(a, s)]]
  BY DEF Go, Kept, EmptyHanded
<1> QED
  BY <1>1, <1>2, MoveMoves

\* An actor that only moves, and not to "send" or "unmark".
LEMMA QuietMove ==
  ASSUME IInv, NEW a \in Actors, NEW s \in Steps \ {"send", "unmark"},
         NEW x \in SavedStatus, Moved(a, s, x),
         UNCHANGED <<supplier, status, saved, notified, told>>,
         erred' \in BOOLEAN, erred => erred',
         fresh' \in BOOLEAN, crowded' \in BOOLEAN, faults' \in Nat,
         IsFinal(x) => Ended',
         a = Poller /\ s \in {"look", "insert"} => IsFinal(x),
         a = Poller /\ s = "finish" => Ended
  PROVE  IInv'
<1> USE DEF IInv, Moved
<1>1. TypeOK' /\ (Ended => Ended')
  BY DEF TypeOK, Ended
<1>2. \A b \in Actors : Sending(b)' => b # a /\ Sending(b) /\ actor'[b] = actor[b]
  BY DEF Sending
<1>3. Marks'
  BY <1>2 DEF Marks
<1>4. OneSender'
  BY <1>2 DEF OneSender, Sending
<1>5. Finals'
  <2>1. Poller \in Actors
    BY DEF Actors
  <2>2. \A b \in Actors : IsFinal(actor'[b].seen) => Ended'
    BY <1>1 DEF Finals
  <2> QED
    BY <1>1, <2>1, <2>2 DEF Finals, At
<1>6. Counts'
  BY <1>2 DEF Counts
<1>7. Closed'
  BY <1>1 DEF Closed
<1> QED
  BY <1>1, <1>3, <1>4, <1>5, <1>6, <1>7

LEMMA InitIInv == Init => IInv
<1> SUFFICES ASSUME Init PROVE IInv
  OBVIOUS
<1> USE DEF Init
<1>1. TypeOK
  <2>1. told \in [Kinds -> 0..MaxTold]
    BY OrderStatusAssumption
  <2>2. actor \in [Actors -> [step : Steps, seen : SavedStatus]]
    BY DEF SavedStatus, Steps
  <2> QED
    BY <2>1, <2>2 DEF TypeOK, SupplierStatus, SavedStatus
<1>2. \A a \in Actors : actor[a].step \in {"fetch", "idle"} /\ actor[a].seen = "none"
  OBVIOUS
<1>3. Marks /\ OneSender
  BY <1>2 DEF Marks, OneSender, Sending
<1>4. Finals
  BY <1>2 DEF Finals, IsFinal, At, Actors
<1>5. Counts /\ Closed
  BY <1>2 DEF Counts, Closed, Sending, Kinds
<1> QED
  BY <1>1, <1>3, <1>4, <1>5 DEF IInv

-----------------------------------------------------------------------------
\* One lemma per action that does more than move its actor.

LEMMA EnvironmentKeeps ==
  ASSUME IInv, SupplierSettles \/ Expire \/ Crowd PROVE IInv'
<1>1. CASE SupplierSettles
  <2> USE <1>1 DEF IInv, SupplierSettles
  <2>1. TypeOK'
    BY DEF TypeOK, SupplierStatus
  <2>2. Marks' /\ OneSender' /\ Counts'
    BY DEF Marks, OneSender, Counts, Sending
  <2>3. Finals' /\ Closed'
    BY DEF Finals, Closed, Ended, IsFinal, At
  <2> QED
    BY <2>1, <2>2, <2>3
<1>2. CASE Expire
  <2> USE <1>2 DEF IInv, Expire
  <2>1. TypeOK'
    BY DEF TypeOK
  <2>2. Marks' /\ OneSender' /\ Counts'
    BY DEF Marks, OneSender, Counts, Sending
  <2>3. Finals' /\ Closed'
    BY DEF Finals, Closed, Ended, At
  <2> QED
    BY <2>1, <2>2, <2>3
<1>3. CASE Crowd
  <2> USE <1>3 DEF IInv, Crowd
  <2>1. TypeOK'
    BY DEF TypeOK
  <2>2. Marks' /\ OneSender' /\ Counts'
    BY DEF Marks, OneSender, Counts, Sending
  <2>3. Finals' /\ Closed'
    BY DEF Finals, Closed, Ended, At
  <2> QED
    BY <2>1, <2>2, <2>3
<1> QED
  BY <1>1, <1>2, <1>3

LEMMA ReadingKeeps ==
  ASSUME IInv, PollRead \/ PollRow \/ \E v \in Visits : VisitRead(v) PROVE IInv'
<1> USE DEF IInv
<1>1. Poller \in Actors /\ Visits \subseteq Actors /\ Poller \notin Visits
  BY OrderStatusAssumption DEF Actors
<1>2. /\ saved \in SavedStatus /\ fresh \in BOOLEAN /\ crowded \in BOOLEAN /\ faults \in Nat
      /\ erred \in BOOLEAN
  BY DEF TypeOK
<1>3. CASE PollRead
  <2>1. Moved(Poller, "row", saved)
    BY <1>1, <1>2, <1>3, MoveMoves DEF PollRead, Steps
  <2> QED
    BY <1>1, <1>2, <1>3, <2>1, QuietMove DEF PollRead, Steps, Finals, Ended
<1>4. CASE PollRow
  <2>1. PICK s \in {"finish", "fetch", "idle"} :
          /\ Go(Poller, s)
          /\ s = "finish" => IsFinal(actor[Poller].seen)
    BY <1>4 DEF PollRow
  <2>2. Moved(Poller, s, Kept(Poller, s)) /\ Kept(Poller, s) \in SavedStatus
    BY <1>1, <2>1, GoMoves DEF Steps
  <2>3. IsFinal(Kept(Poller, s)) => Ended
    BY <1>1 DEF Kept, EmptyHanded, Finals, IsFinal
  <2>4. s = "finish" => Ended
    BY <1>1, <2>1 DEF Finals
  <2> QED
    BY <1>1, <1>2, <1>4, <2>2, <2>3, <2>4, QuietMove DEF PollRow, Steps, Ended
<1>5. CASE \E v \in Visits : VisitRead(v)
  <2>1. PICK v \in Visits : VisitRead(v)
    BY <1>5
  <2>2. PICK s \in {"look", "fetch"} :
          actor' = [actor EXCEPT ![v] = [step |-> s, seen |-> saved]]
    BY <2>1 DEF VisitRead
  <2>3. Moved(v, s, saved)
    BY <1>1, <1>2, <2>2, MoveMoves DEF Steps
  <2> QED
    BY <1>1, <1>2, <2>1, <2>3, QuietMove DEF VisitRead, Steps, Finals, Ended
<1> QED
  BY <1>3, <1>4, <1>5

\* Where Go leads without a send: the actor keeps what it holds or lets go.
LEMMA QuietGo ==
  ASSUME IInv, NEW a \in Actors, NEW s \in Steps \ {"send", "unmark"}, Go(a, s),
         UNCHANGED <<supplier, erred, status, saved, notified, told>>,
         fresh' \in BOOLEAN, crowded' \in BOOLEAN, faults' \in Nat,
         a = Poller /\ s \in {"look", "insert"} => IsFinal(actor[a].seen),
         a = Poller /\ s = "finish" => Ended
  PROVE  IInv'
<1>1. Moved(a, s, Kept(a, s)) /\ Kept(a, s) \in SavedStatus
  BY GoMoves DEF IInv
<1>2. IsFinal(Kept(a, s)) => Ended
  BY DEF Kept, EmptyHanded, IInv, Finals, IsFinal
<1>3. a = Poller /\ s \in {"look", "insert"} => IsFinal(Kept(a, s))
  BY DEF Kept, EmptyHanded
<1>4. erred' \in BOOLEAN /\ Ended' = Ended
  BY DEF IInv, TypeOK, Ended
<1> QED
  BY <1>1, <1>2, <1>3, <1>4, QuietMove

LEMMA FetchKeeps ==
  ASSUME IInv, NEW a \in Actors, Fetch(a) \/ FetchError(a) \/ FetchFails(a) PROVE IInv'
<1>1. CASE Fetch(a)
  <2>1. Moved(a, "save", supplier)
    BY <1>1, MoveMoves DEF Fetch, IInv, TypeOK, Steps, SavedStatus
  <2> QED
    BY <1>1, <2>1, QuietMove DEF Fetch, IInv, TypeOK, Steps, SavedStatus, Ended
<1>2. CASE FetchError(a)
  <2>1. Moved(a, "save", "canceled")
    BY <1>2, MoveMoves DEF FetchError, IInv, Steps, SavedStatus, SupplierStatus
  <2>2. Ended' /\ "canceled" \in SavedStatus
    BY <1>2 DEF FetchError, Ended, SavedStatus, SupplierStatus
  <2> QED
    BY <1>2, <2>1, <2>2, QuietMove DEF FetchError, IInv, TypeOK, Steps
<1>3. CASE FetchFails(a)
  <2>1. PICK s \in {"look", "idle", "gone"} :
          Go(a, s) /\ (s = "look" => a \in Visits)
    BY <1>3, RestType DEF FetchFails
  <2>2. ~(a = Poller /\ s = "look")
    BY <2>1, OrderStatusAssumption
  <2> QED
    BY <1>3, <2>1, <2>2, QuietGo DEF FetchFails, IInv, TypeOK, Steps
<1> QED
  BY <1>1, <1>2, <1>3

LEMMA SaveKeeps == ASSUME IInv, NEW a \in Actors, Save(a) PROVE IInv'
<1> USE DEF IInv
<1> DEFINE x == actor[a].seen
<1>1. PICK s \in {"idle", "look"} :
        Go(a, s) /\ (a = Poller /\ s = "look" => IsFinal(x))
  BY DEF Save
<1>2. Moved(a, s, Kept(a, s)) /\ Kept(a, s) \in SavedStatus /\ Kept(a, s) \in {x, "none"}
  BY <1>1, GoMoves DEF Steps, Kept, EmptyHanded
<1>3. saved' = x /\ x \in SavedStatus /\ UNCHANGED <<supplier, erred, status, fresh, crowded, notified, told, faults>>
  BY DEF Save, TypeOK
<1>4. TypeOK'
  BY <1>2, <1>3 DEF TypeOK, Moved
<1>5. \A b \in Actors : Sending(b)' => b # a /\ Sending(b) /\ actor'[b] = actor[b]
  BY <1>2 DEF Sending, Moved
<1>6. Marks' /\ OneSender' /\ Counts'
  BY <1>3, <1>5 DEF Marks, OneSender, Counts, Sending
<1>7. Finals'
  <2>1. Poller \in Actors /\ (IsFinal(x) => Ended)
    BY DEF Actors, Finals
  <2>2. \A b \in Actors : IsFinal(actor'[b].seen) => Ended
    BY <1>2, <2>1 DEF Moved, Finals, IsFinal
  <2>3. a = Poller /\ s = "look" => IsFinal(Kept(a, s))
    BY <1>1 DEF Kept, EmptyHanded
  <2> QED
    BY <1>2, <1>3, <2>1, <2>2, <2>3 DEF Finals, Moved, At, Ended
<1>8. Closed'
  BY <1>3 DEF Closed, Ended
<1> QED
  BY <1>4, <1>6, <1>7, <1>8

LEMMA LookKeeps == ASSUME IInv, NEW a \in Actors, Look(a) PROVE IInv'
<1> USE DEF IInv
<1> DEFINE x == actor[a].seen
<1>1. Poller \in Actors /\ (a = Poller => IsFinal(x))
  BY DEF Look, At, Finals, Actors
<1>2. PICK s \in {"insert", "idle", "gone", "finish"} :
        Go(a, s) /\ (s = "finish" => a = Poller)
  BY SettledType DEF Look
<1> QED
  BY <1>1, <1>2, QuietGo DEF Look, TypeOK, Steps, Finals, Ended

\* The mark is new: nobody was sending this kind, and it had not been told.
LEMMA InsertKeeps == ASSUME IInv, NEW a \in Actors, Insert(a) PROVE IInv'
<1> USE DEF IInv
<1> DEFINE x == actor[a].seen
           k == Kind(x)
<1>1. Poller \in Actors /\ (a = Poller => IsFinal(x)) /\ (IsFinal(x) => Ended)
  BY DEF Insert, At, Finals, Actors
<1>2. UNCHANGED <<supplier, erred, status, saved, fresh, crowded, told, faults>>
  BY DEF Insert
<1>3. CASE k \in notified
  <2>1. PICK s \in {"idle", "gone"} : Go(a, s) /\ UNCHANGED notified
    BY <1>3, RestType DEF Insert
  <2> QED
    BY <1>2, <2>1, QuietGo DEF TypeOK, Steps
<1>4. CASE k \notin notified
  <2>1. PICK s \in {"send", "idle", "gone", "finish"} :
          Go(a, s) /\ (s = "finish" => a = Poller)
    BY <1>4, SettledType DEF Insert
  <2>2. notified' = notified \cup {k} /\ k \in Kinds
    BY <1>4, KindType DEF Insert
  <2>3. Moved(a, s, Kept(a, s)) /\ Kept(a, s) \in SavedStatus /\ (s = "send" => Kept(a, s) = x)
    BY <2>1, GoMoves DEF Steps, Kept, EmptyHanded
  <2>4. TypeOK'
    BY <1>2, <2>2, <2>3 DEF TypeOK, Moved
  <2>5. \A b \in Actors : Sending(b)' => \/ b = a /\ actor'[b].seen = x
                                         \/ b # a /\ Sending(b) /\ actor'[b] = actor[b]
    BY <2>3 DEF Sending, Moved
  <2>6. \A b \in Actors : Sending(b) => Kind(actor[b].seen) # k
    BY <1>4 DEF Marks
  <2>7. Marks'
    BY <2>2, <2>5 DEF Marks
  <2>8. OneSender'
    BY <2>5, <2>6 DEF OneSender, Sending
  <2>9. Finals'
    <3>1. \A b \in Actors : IsFinal(actor'[b].seen) => Ended
      BY <1>1, <2>3 DEF Moved, Finals, IsFinal, Kept, EmptyHanded
    <3>2. k = "final" => Ended
      BY <1>1 DEF Kind
    <3> QED
      BY <1>1, <1>2, <2>1, <2>2, <2>3, <3>1, <3>2 DEF Finals, Moved, At, Ended
  <2>10. Counts'
    BY <1>2, <1>4, <2>2, <2>5 DEF Counts
  <2>11. Closed'
    BY <1>2 DEF Closed, Ended
  <2> QED
    BY <2>4, <2>7, <2>8, <2>9, <2>10, <2>11
<1> QED
  BY <1>3, <1>4

LEMMA SendKeeps ==
  ASSUME IInv, NEW a \in Actors, NEW ok \in BOOLEAN, NEW n \in 0..2, Send(a, ok, n)
  PROVE  IInv'
<1> USE DEF IInv
<1> DEFINE x == actor[a].seen
           k == Kind(x)
<1>1. /\ Poller \in Actors /\ (a = Poller => IsFinal(x)) /\ (IsFinal(x) => Ended)
      /\ Sending(a) /\ k \in Kinds
  BY KindType DEF Send, At, Finals, Actors, Sending
<1>2. UNCHANGED <<supplier, erred, status, saved, fresh, crowded, notified, faults>>
  BY DEF Send
<1>3. PICK s \in {"unmark", "idle", "gone", "finish"} :
        Go(a, s) /\ (s = "finish" => a = Poller) /\ (s = "unmark" => ~ok)
  BY SettledType DEF Send
<1>4. Moved(a, s, Kept(a, s)) /\ Kept(a, s) \in SavedStatus /\ (s = "unmark" => Kept(a, s) = x)
  BY <1>3, GoMoves DEF Steps, Kept, EmptyHanded
<1>5. told' = [told EXCEPT ![k] = Capped(told[k] + n)]
  BY DEF Send
<1>6. Capped(told[k] + n) \in 0..MaxTold
  BY <1>1, OrderStatusAssumption DEF TypeOK, Capped
<1>7. TypeOK'
  BY <1>1, <1>2, <1>4, <1>5, <1>6 DEF TypeOK, Moved
<1>8. \A b \in Actors : Sending(b)' => /\ Sending(b)
                                       /\ actor'[b].seen = actor[b].seen
                                       /\ b = a => s = "unmark"
  BY <1>1, <1>4 DEF Sending, Moved
<1>9. Marks'
  BY <1>2, <1>8 DEF Marks
<1>10. OneSender'
  BY <1>8 DEF OneSender, Sending
<1>11. Finals'
  <2>1. \A b \in Actors : IsFinal(actor'[b].seen) => Ended
    BY <1>1, <1>4 DEF Moved, Finals, IsFinal, Kept, EmptyHanded
  <2> QED
    BY <1>1, <1>2, <1>3, <1>4, <2>1 DEF Finals, Moved, At, Ended
<1>12. Counts'
  <2> SUFFICES ASSUME ~Ambiguous PROVE Counts!2'
    BY <1>2 DEF Counts
  <2>1. n = (IF ok THEN 1 ELSE 0)
    BY DEF Send
  <2>2. told[k] = 0 /\ k \in notified
    BY <1>1 DEF Counts, Marks
  <2>3. told'[k] = n /\ \A j \in Kinds \ {k} : told'[j] = told[j]
    BY <1>1, <1>5, <2>1, <2>2, OrderStatusAssumption DEF TypeOK, Capped
  <2>4. \A b \in Actors : Sending(b)' => told'[Kind(actor'[b].seen)] = 0
    <3>1. SUFFICES ASSUME NEW b \in Actors, Sending(b)'
                   PROVE  told'[Kind(actor[b].seen)] = 0
      BY <1>8
    <3>2. CASE b = a
      BY <1>3, <1>8, <2>1, <2>3, <3>1, <3>2
    <3>3. CASE b # a
      <4>1. Kind(actor[b].seen) # k
        BY <1>1, <1>8, <3>1, <3>3 DEF OneSender, Sending
      <4> QED
        BY <1>8, <2>3, <3>1, <4>1, KindType DEF Counts
    <3> QED
      BY <3>2, <3>3
  <2> QED
    BY <1>2, <2>1, <2>2, <2>3, <2>4 DEF Counts
<1>13. Closed'
  <2>1. CASE k = "final"
    BY <1>1, <1>2, <2>1 DEF Closed, Kind, Ended
  <2>2. CASE k # "final"
    BY <1>2, <1>5, <2>2 DEF Closed, TypeOK, Kinds, Ended
  <2> QED
    BY <2>1, <2>2
<1> QED
  BY <1>7, <1>9, <1>10, <1>11, <1>12, <1>13

\* The mark is taken back by the only actor that stood behind it.
LEMMA UnmarkKeeps == ASSUME IInv, NEW a \in Actors, Unmark(a) PROVE IInv'
<1> USE DEF IInv
<1> DEFINE k == Kind(actor[a].seen)
<1>1. Sending(a) /\ k \in Kinds /\ UNCHANGED <<supplier, erred, status, saved, fresh, crowded, told, faults>>
  BY KindType DEF Unmark, Sending, At
<1>2. PICK s \in {"idle", "gone"} : Go(a, s)
  BY RestType DEF Unmark
<1>3. Moved(a, s, "none")
  BY <1>2, GoMoves DEF Steps, Kept, EmptyHanded
<1>4. notified' = notified \ {k}
  BY DEF Unmark
<1>5. TypeOK'
  BY <1>1, <1>3, <1>4 DEF TypeOK, Moved
<1>6. \A b \in Actors : Sending(b)' => b # a /\ Sending(b) /\ actor'[b] = actor[b]
  BY <1>3 DEF Sending, Moved
<1>7. \A b \in Actors : Sending(b)' => Kind(actor[b].seen) # k
  BY <1>1, <1>6 DEF OneSender, Sending
<1>8. Marks' /\ OneSender'
  BY <1>4, <1>6, <1>7 DEF Marks, OneSender, Sending
<1>9. Finals'
  BY <1>1, <1>3, <1>4 DEF Finals, Moved, At, IsFinal, Actors, Ended
<1>10. Counts'
  BY <1>1, <1>4, <1>6 DEF Counts
<1>11. Closed'
  BY <1>1 DEF Closed, Ended
<1> QED
  BY <1>5, <1>8, <1>9, <1>10, <1>11

LEMMA FinishKeeps == ASSUME IInv, Finish PROVE IInv'
<1> USE DEF IInv
<1>1. /\ Poller \in Actors /\ Ended /\ status' = "DONE"
      /\ UNCHANGED <<supplier, erred, saved, fresh, crowded, notified, told, faults>>
  BY DEF Finish, Finals, Actors
<1>2. Moved(Poller, "idle", "none")
  BY <1>1, GoMoves DEF Finish, Steps, Kept, EmptyHanded
<1>3. TypeOK'
  BY <1>1, <1>2 DEF TypeOK, Moved
<1>4. \A b \in Actors : Sending(b)' => b # Poller /\ Sending(b) /\ actor'[b] = actor[b]
  BY <1>2 DEF Sending, Moved
<1>5. Marks' /\ OneSender' /\ Counts'
  BY <1>1, <1>4 DEF Marks, OneSender, Counts, Sending
<1>6. Finals' /\ Closed'
  BY <1>1, <1>2 DEF Finals, Closed, Moved, At, Ended
<1> QED
  BY <1>3, <1>5, <1>6

LEMMA DieKeeps == ASSUME IInv, NEW a \in Actors, Die(a) PROVE IInv'
<1>1. PICK s \in {"idle", "gone"} : Go(a, s)
  BY RestType DEF Die
<1>2. faults' \in Nat
  BY DEF Die, IInv, TypeOK
<1> QED
  BY <1>1, <1>2, QuietGo DEF Die, IInv, TypeOK, Steps

LEMMA StutterKeeps == ASSUME IInv, UNCHANGED vars PROVE IInv'
BY DEF IInv, TypeOK, Marks, OneSender, Finals, Counts, Closed, Ended, Sending, At, vars

LEMMA NextIInv == IInv /\ [Next]_vars => IInv'
<1> SUFFICES ASSUME IInv, [Next]_vars PROVE IInv'
  OBVIOUS
<1>1. CASE SupplierSettles \/ Expire \/ Crowd
  BY <1>1, EnvironmentKeeps
<1>2. CASE PollRead \/ PollRow \/ \E v \in Visits : VisitRead(v)
  BY <1>2, ReadingKeeps
<1>3. CASE Finish
  BY <1>3, FinishKeeps
<1>4. ASSUME NEW a \in Actors,
             Fetch(a) \/ FetchError(a) \/ FetchFails(a) \/ Save(a) \/ Notify(a) \/ Die(a)
      PROVE  IInv'
  BY <1>4, FetchKeeps, SaveKeeps, LookKeeps, InsertKeeps, SendKeeps, UnmarkKeeps, DieKeeps
     DEF Notify
<1>5. CASE UNCHANGED vars
  BY <1>5, StutterKeeps
<1> QED
  BY <1>1, <1>2, <1>3, <1>4, <1>5 DEF Next

LEMMA Invariant == Spec => []IInv
BY InitIInv, NextIInv, PTL DEF Spec

-----------------------------------------------------------------------------
\* Marks without a message, counted against the deaths.

\* Nobody holds "done" of an order that the supplier has not done.
Known ==
  /\ \A a \in Actors : IsDone(actor[a].seen) => IsDone(supplier)
  /\ IsDone(saved) => IsDone(supplier)

OrphanInv == Known /\ MarksHaveReason

\* A status an actor takes up comes from itself, the row or the supplier.
LEMMA KnownFrom ==
  ASSUME Known, IsDone(supplier) => IsDone(supplier'),
         IsDone(saved') => IsDone(supplier),
         \A b \in Actors :
           \/ actor'[b].seen = actor[b].seen
           \/ actor'[b].seen \in {"none", saved, supplier}
  PROVE  Known'
BY DEF Known, IsDone

LEMMA GoSees ==
  ASSUME TypeOK, NEW a \in Actors, NEW s \in Steps, Go(a, s), NEW b \in Actors
  PROVE  actor'[b].seen \in {actor[b].seen, "none"}
<1>1. Moved(a, s, Kept(a, s))
  BY GoMoves
<1>2. Kept(a, s) \in {actor[a].seen, "none"}
  BY DEF Kept, EmptyHanded
<1> QED
  BY <1>1, <1>2 DEF Moved

LEMMA MoveSees ==
  ASSUME TypeOK, NEW a \in Actors, NEW s \in Steps, NEW x \in SavedStatus,
         actor' = [actor EXCEPT ![a] = [step |-> s, seen |-> x]], NEW b \in Actors
  PROVE  actor'[b].seen \in {actor[b].seen, x}
BY MoveMoves DEF Moved

LEMMA KnownStep == IInv /\ Known /\ [Next]_vars => Known'
<1> SUFFICES ASSUME IInv, Known, [Next]_vars PROVE Known'
  OBVIOUS
<1>1. TypeOK /\ saved \in SavedStatus /\ supplier \in SavedStatus /\ Poller \in Actors
  BY DEF IInv, TypeOK, SavedStatus, Actors
<1>2. \A a : Rest(a) \in Steps /\ Settled(a) \in Steps
  BY RestType, SettledType DEF Steps
<1>3. CASE SupplierSettles
  BY <1>3, KnownFrom DEF SupplierSettles, Known, IsDone
<1>4. CASE Expire \/ Crowd \/ UNCHANGED vars
  BY <1>4, KnownFrom DEF Expire, Crowd, vars, Known
<1>5. CASE PollRead
  <2>1. \A b \in Actors : actor'[b].seen \in {actor[b].seen, saved}
    BY <1>1, <1>5, MoveSees DEF PollRead, Steps
  <2> QED
    BY <1>5, <2>1, KnownFrom DEF PollRead, Known
<1>6. CASE PollRow
  <2>1. PICK s \in Steps : Go(Poller, s)
    BY <1>6 DEF PollRow, Steps
  <2>2. \A b \in Actors : actor'[b].seen \in {actor[b].seen, "none"}
    BY <1>1, <2>1, GoSees
  <2> QED
    BY <1>6, <2>2, KnownFrom DEF PollRow, Known
<1>7. ASSUME NEW v \in Visits, VisitRead(v) PROVE Known'
  <2>1. v \in Actors
    BY DEF Actors
  <2>2. \A b \in Actors : actor'[b].seen \in {actor[b].seen, saved}
    BY <1>1, <1>7, <2>1, MoveSees DEF VisitRead, Steps
  <2> QED
    BY <1>7, <2>2, KnownFrom DEF VisitRead, Known
<1>8. ASSUME NEW a \in Actors, Fetch(a) PROVE Known'
  <2>1. \A b \in Actors : actor'[b].seen \in {actor[b].seen, supplier}
    BY <1>1, <1>8, MoveSees DEF Fetch, Steps
  <2> QED
    BY <1>8, <2>1, KnownFrom DEF Fetch, Known
<1>9. ASSUME NEW a \in Actors, FetchError(a) PROVE Known'
  <2>1. \A b \in Actors : actor'[b].seen \in {actor[b].seen, "canceled"}
    BY <1>1, <1>9, MoveSees DEF FetchError, Steps, SavedStatus, SupplierStatus
  <2> QED
    BY <1>9, <2>1 DEF FetchError, Known, IsDone
<1>10. ASSUME NEW a \in Actors, Save(a) PROVE Known'
  <2>1. PICK s \in Steps : Go(a, s)
    BY <1>10 DEF Save, Steps
  <2>2. \A b \in Actors : actor'[b].seen \in {actor[b].seen, "none"}
    BY <1>1, <2>1, GoSees
  <2> QED
    BY <1>10, <2>2, KnownFrom DEF Save, Known
<1>11. CASE Finish
  <2>1. \A b \in Actors : actor'[b].seen \in {actor[b].seen, "none"}
    BY <1>1, <1>11, GoSees DEF Finish, Steps
  <2> QED
    BY <1>11, <2>1, KnownFrom DEF Finish, Known
<1>12. ASSUME NEW a \in Actors, FetchFails(a) \/ Notify(a) \/ Die(a) PROVE Known'
  <2>1. PICK s \in Steps : Go(a, s)
    BY <1>2, <1>12 DEF FetchFails, Notify, Look, Insert, Send, Unmark, Die, Steps
  <2>2. \A b \in Actors : actor'[b].seen \in {actor[b].seen, "none"}
    BY <1>1, <2>1, GoSees
  <2>3. UNCHANGED <<supplier, saved>>
    BY <1>12 DEF FetchFails, Notify, Look, Insert, Send, Unmark, Die
  <2> QED
    BY <2>2, <2>3, KnownFrom DEF Known
<1> QED
  BY <1>3, <1>4, <1>5, <1>6, <1>7, <1>8, <1>9, <1>10, <1>11, <1>12 DEF Next

-----------------------------------------------------------------------------

LEMMA OrphansFinite ==
  ASSUME TypeOK PROVE IsFiniteSet(Orphans) /\ Cardinality(Orphans) \in Nat
<1>1. IsFiniteSet(Kinds)
  <2>1. Kinds = ({} \cup {"started"}) \cup {"final"}
    BY DEF Kinds
  <2> QED
    BY <2>1, FS_EmptySet, FS_AddElement
<1>2. Orphans \subseteq Kinds
  BY DEF Orphans, TypeOK
<1> QED
  BY <1>1, <1>2, FS_Subset, FS_CardinalityType

\* What makes no orphan keeps the count.
LEMMA NoNewOrphan ==
  ASSUME TypeOK, MarksHaveReason, Orphans' \subseteq Orphans, faults' = faults
  PROVE  MarksHaveReason'
<1>1. Cardinality(Orphans') <= Cardinality(Orphans) /\ Cardinality(Orphans') \in Nat
  BY OrphansFinite, FS_Subset, FS_CardinalityType
<1> QED
  BY <1>1, OrphansFinite DEF MarksHaveReason, TypeOK

\* A death makes one at most.
LEMMA OneNewOrphan ==
  ASSUME TypeOK, MarksHaveReason, NEW k, Orphans' \subseteq Orphans \cup {k},
         faults' = faults + 1
  PROVE  MarksHaveReason'
<1>1. /\ IsFiniteSet(Orphans \cup {k})
      /\ Cardinality(Orphans \cup {k}) <= Cardinality(Orphans) + 1
      /\ Cardinality(Orphans \cup {k}) \in Nat
  <2>1. IsFiniteSet(Orphans) /\ Cardinality(Orphans) \in Nat
    BY OrphansFinite
  <2>2. /\ IsFiniteSet(Orphans \cup {k})
        /\ \/ Cardinality(Orphans \cup {k}) = Cardinality(Orphans)
           \/ Cardinality(Orphans \cup {k}) = Cardinality(Orphans) + 1
    BY <2>1, FS_AddElement
  <2> QED
    BY <2>1, <2>2
<1>2. /\ Cardinality(Orphans') <= Cardinality(Orphans \cup {k})
      /\ Cardinality(Orphans') \in Nat
  BY <1>1, FS_Subset, FS_CardinalityType
<1> QED
  BY <1>1, <1>2, OrphansFinite DEF MarksHaveReason, TypeOK

\* Who was not sending leaves nothing behind.
LEMMA BystanderOrphans ==
  ASSUME UNCHANGED <<notified, told>>, IsDone(supplier) => IsDone(supplier'),
         \A b \in Actors : Sending(b) => Sending(b)' /\ actor'[b].seen = actor[b].seen
  PROVE  Orphans' \subseteq Orphans
BY DEF Orphans, Sending, IsDone

LEMMA GoOrphans ==
  ASSUME TypeOK, NEW a \in Actors, NEW s \in Steps, Go(a, s), ~Sending(a),
         UNCHANGED <<supplier, notified, told>>
  PROVE  Orphans' \subseteq Orphans
<1>1. \A b \in Actors : Sending(b) => Sending(b)' /\ actor'[b].seen = actor[b].seen
  BY GoMoves DEF Moved, Sending
<1> QED
  BY <1>1, BystanderOrphans DEF IsDone

LEMMA MoveOrphans ==
  ASSUME TypeOK, NEW a \in Actors, NEW s \in Steps, NEW x \in SavedStatus,
         actor' = [actor EXCEPT ![a] = [step |-> s, seen |-> x]], ~Sending(a),
         UNCHANGED <<supplier, notified, told>>
  PROVE  Orphans' \subseteq Orphans
<1>1. \A b \in Actors : Sending(b) => Sending(b)' /\ actor'[b].seen = actor[b].seen
  BY MoveMoves DEF Moved, Sending
<1> QED
  BY <1>1, BystanderOrphans DEF IsDone

\* A new mark is for an order that is done, or comes with its sender.
LEMMA InsertOrphans ==
  ASSUME IInv, Known, NEW a \in Actors, Insert(a) PROVE Orphans' \subseteq Orphans
<1> DEFINE x == actor[a].seen
           k == Kind(x)
<1>1. ~Sending(a) /\ TypeOK /\ UNCHANGED <<supplier, told>>
  BY DEF Insert, At, Sending, IInv
<1>2. CASE k \in notified
  BY <1>1, <1>2, RestType, GoOrphans DEF Insert, Steps
<1>3. CASE k \notin notified
  <2>1. PICK s \in Steps :
          Go(a, s) /\ (IsDone(x) \/ s = "send") /\ notified' = notified \cup {k}
    BY <1>3, SettledType DEF Insert, Steps
  <2>2. \A b \in Actors : Sending(b) => Sending(b)' /\ actor'[b].seen = actor[b].seen
    BY <1>1, <2>1, GoMoves DEF Moved, Sending
  <2>3. IsDone(x) => k = "final" /\ IsDone(supplier)
    BY DEF Known, Kind, IsFinal, IsDone
  <2>4. s = "send" => Sending(a)' /\ actor'[a].seen = x
    <3>1. Moved(a, s, Kept(a, s))
      BY <1>1, <2>1, GoMoves
    <3> QED
      BY <3>1 DEF Moved, Sending, Kept, EmptyHanded
  <2>5. k \notin Orphans'
    BY <1>1, <2>1, <2>3, <2>4 DEF Orphans, Sending
  <2>6. \A j \in Orphans' : j = k \/ j \in Orphans
    BY <1>1, <2>1, <2>2 DEF Orphans, Sending
  <2> QED
    BY <2>5, <2>6
<1> QED
  BY <1>2, <1>3

\* A message that went out is counted; a sender that failed takes its mark back.
LEMMA SendOrphans ==
  ASSUME IInv, NEW a \in Actors, NEW ok \in BOOLEAN, NEW n \in 0..2, Send(a, ok, n)
  PROVE  Orphans' \subseteq Orphans
<1> DEFINE x == actor[a].seen
           k == Kind(x)
<1>1. /\ TypeOK /\ k \in Kinds /\ UNCHANGED <<supplier, notified>>
      /\ (ok => n >= 1) /\ told' = [told EXCEPT ![k] = Capped(told[k] + n)]
  BY KindType DEF Send, IInv
<1>2. told'[k] = Capped(told[k] + n) /\ \A j \in Kinds \ {k} : told'[j] = told[j]
  BY <1>1 DEF TypeOK
<1>3. ok => told'[k] # 0
  <2>1. told[k] \in Nat
    BY <1>1 DEF TypeOK
  <2> QED
    BY <1>1, <1>2, <2>1, OrderStatusAssumption DEF Capped
<1>4. PICK s \in Steps : Go(a, s) /\ (~ok => s = "unmark")
  BY SettledType DEF Send, Steps
<1>5. Moved(a, s, Kept(a, s)) /\ (~ok => Kept(a, s) = x)
  BY <1>1, <1>4, GoMoves DEF Kept, EmptyHanded
<1>6. ~ok => Sending(a)' /\ actor'[a].seen = x
  BY <1>4, <1>5 DEF Moved, Sending
<1>7. k \notin Orphans'
  BY <1>3, <1>6 DEF Orphans, Sending
<1>8. \A b \in Actors \ {a} : actor'[b] = actor[b]
  BY <1>5 DEF Moved
<1>9. \A j \in Orphans' : j = k \/ j \in Orphans
  <2> SUFFICES ASSUME NEW j \in Orphans', j # k PROVE j \in Orphans
    OBVIOUS
  <2>1. j \in notified /\ j \in Kinds /\ told[j] = 0 /\ ~(j = "final" /\ IsDone(supplier))
    BY <1>1, <1>2 DEF Orphans, TypeOK
  <2>2. \A b \in Actors : Sending(b) => Kind(actor[b].seen) # j
    BY <1>8 DEF Orphans, Sending
  <2> QED
    BY <2>1, <2>2 DEF Orphans, Sending
<1> QED
  BY <1>7, <1>9

\* The only sender of the kind takes the mark with it.
LEMMA UnmarkOrphans ==
  ASSUME IInv, NEW a \in Actors, Unmark(a) PROVE Orphans' \subseteq Orphans
<1> DEFINE k == Kind(actor[a].seen)
<1>1. TypeOK /\ notified' = notified \ {k} /\ UNCHANGED <<supplier, told>>
  BY DEF Unmark, IInv
<1>2. PICK s \in Steps : Go(a, s)
  BY RestType DEF Unmark, Steps
<1>3. \A b \in Actors \ {a} : actor'[b] = actor[b]
  BY <1>1, <1>2, GoMoves DEF Moved
<1> QED
  BY <1>1, <1>3 DEF Orphans

\* Who dies while sending leaves the one mark it stood behind.
LEMMA DieOrphans ==
  ASSUME IInv, NEW a \in Actors, Die(a)
  PROVE  Orphans' \subseteq Orphans \cup {Kind(actor[a].seen)}
<1>1. TypeOK /\ UNCHANGED <<supplier, notified, told>>
  BY DEF Die, IInv
<1>2. PICK s \in Steps : Go(a, s)
  BY RestType DEF Die, Steps
<1>3. \A b \in Actors \ {a} : actor'[b] = actor[b]
  BY <1>1, <1>2, GoMoves DEF Moved
<1> QED
  BY <1>1, <1>3 DEF Orphans

LEMMA OrphanStep == IInv /\ OrphanInv /\ [Next]_vars => MarksHaveReason'
<1> SUFFICES ASSUME IInv, Known, MarksHaveReason, [Next]_vars PROVE MarksHaveReason'
  BY DEF OrphanInv
<1>1. TypeOK /\ saved \in SavedStatus /\ supplier \in SavedStatus /\ Poller \in Actors
  BY DEF IInv, TypeOK, SavedStatus, Actors
<1>2. \A a : Rest(a) \in Steps /\ Settled(a) \in Steps
  BY RestType, SettledType DEF Steps
<1>3. CASE SupplierSettles \/ Expire \/ Crowd \/ UNCHANGED vars
  <2>1. UNCHANGED <<notified, told, actor, faults>> /\ (IsDone(supplier) => IsDone(supplier'))
    BY <1>3 DEF SupplierSettles, Expire, Crowd, vars, IsDone
  <2> QED
    BY <1>1, <2>1, BystanderOrphans, NoNewOrphan DEF Sending
<1>4. CASE PollRead
  <2>1. Orphans' \subseteq Orphans
    BY <1>1, <1>4, MoveOrphans DEF PollRead, At, Sending, Steps
  <2> QED
    BY <1>1, <1>4, <2>1, NoNewOrphan DEF PollRead
<1>5. CASE PollRow \/ Finish
  <2>1. PICK s \in Steps : Go(Poller, s) /\ ~Sending(Poller)
    BY <1>5 DEF PollRow, Finish, At, Sending, Steps
  <2>2. UNCHANGED <<supplier, notified, told, faults>>
    BY <1>5 DEF PollRow, Finish
  <2> QED
    BY <1>1, <2>1, <2>2, GoOrphans, NoNewOrphan
<1>6. ASSUME NEW v \in Visits, VisitRead(v) PROVE MarksHaveReason'
  <2>1. v \in Actors
    BY DEF Actors
  <2>2. Orphans' \subseteq Orphans
    BY <1>1, <1>6, <2>1, MoveOrphans DEF VisitRead, At, Sending, Steps
  <2> QED
    BY <1>1, <1>6, <2>2, NoNewOrphan DEF VisitRead
<1>7. ASSUME NEW a \in Actors, Fetch(a) \/ FetchError(a) PROVE MarksHaveReason'
  <2>1. PICK x \in SavedStatus :
          actor' = [actor EXCEPT ![a] = [step |-> "save", seen |-> x]]
    BY <1>1, <1>7 DEF Fetch, FetchError, SavedStatus, SupplierStatus
  <2>2. ~Sending(a) /\ UNCHANGED <<supplier, notified, told, faults>>
    BY <1>7 DEF Fetch, FetchError, At, Sending
  <2>3. Orphans' \subseteq Orphans
    BY <1>1, <2>1, <2>2, MoveOrphans DEF Steps
  <2> QED
    BY <1>1, <2>2, <2>3, NoNewOrphan
<1>8. ASSUME NEW a \in Actors, FetchFails(a) \/ Save(a) \/ Look(a) PROVE MarksHaveReason'
  <2>1. PICK s \in Steps : Go(a, s) /\ ~Sending(a)
    BY <1>2, <1>8 DEF FetchFails, Save, Look, At, Sending, Steps
  <2>2. UNCHANGED <<supplier, notified, told, faults>>
    BY <1>8 DEF FetchFails, Save, Look
  <2> QED
    BY <1>1, <2>1, <2>2, GoOrphans, NoNewOrphan
<1>9. ASSUME NEW a \in Actors, Insert(a) PROVE MarksHaveReason'
  BY <1>1, <1>9, InsertOrphans, NoNewOrphan DEF Insert
<1>10. ASSUME NEW a \in Actors, NEW ok \in BOOLEAN, NEW n \in 0..2, Send(a, ok, n)
       PROVE  MarksHaveReason'
  BY <1>1, <1>10, SendOrphans, NoNewOrphan DEF Send
<1>11. ASSUME NEW a \in Actors, Unmark(a) PROVE MarksHaveReason'
  BY <1>1, <1>11, UnmarkOrphans, NoNewOrphan DEF Unmark
<1>12. ASSUME NEW a \in Actors, Die(a) PROVE MarksHaveReason'
  BY <1>1, <1>12, DieOrphans, OneNewOrphan DEF Die
<1> QED
  BY <1>3, <1>4, <1>5, <1>6, <1>7, <1>8, <1>9, <1>10, <1>11, <1>12 DEF Next, Notify

LEMMA InitOrphans == Init => OrphanInv
<1> SUFFICES ASSUME Init PROVE OrphanInv
  OBVIOUS
<1>1. Known
  BY DEF Init, Known, IsDone
<1>2. Orphans = {} /\ faults = 0
  BY DEF Init, Orphans
<1> QED
  BY <1>1, <1>2, FS_EmptySet DEF OrphanInv, MarksHaveReason

\* However many actors race, fail or die, there are no more marks without a
\* message than there were deaths: a failed send and a lost race leave none
\* (try_mark_notified, send_message, unmark_notified).
THEOREM MarksAreAccountedFor == Spec => []MarksHaveReason
<1>1. IInv /\ IInv' /\ OrphanInv /\ [Next]_vars => OrphanInv'
  BY KnownStep, OrphanStep DEF OrphanInv
<1>2. Spec => []OrphanInv
  BY <1>1, InitOrphans, Invariant, PTL DEF Spec
<1>3. OrphanInv => MarksHaveReason
  BY DEF OrphanInv
<1> QED
  BY <1>2, <1>3, PTL

-----------------------------------------------------------------------------

\* Every reachable state is well-typed: marks carry a kind, never a status
\* (Notified.kind, _notify_kind).
THEOREM TypeCorrect == Spec => []TypeOK
<1>1. IInv => TypeOK
  BY DEF IInv
<1> QED
  BY <1>1, Invariant, PTL

\* However many checks and visits race the poller, only one of them at a time
\* sends or takes back a kind of notification (try_mark_notified,
\* unmark_notified).
THEOREM SendersAreAlone == Spec => []OneSender
<1>1. IInv => OneSender
  BY DEF IInv
<1> QED
  BY <1>1, Invariant, PTL

\* With an honest Telegram the operator never gets two messages of one kind,
\* for any number of deaths and failed sends (try_mark_notified,
\* unmark_notified, send_message).
THEOREM NobodyIsToldTwice == Spec => []ToldOnce
<1>1. IInv => ToldOnce
  BY DEF IInv, Counts, ToldOnce
<1> QED
  BY <1>1, Invariant, PTL

\* No race of stale reads closes an order, or announces its end, before the
\* supplier has finished it or answered one query about it with an error
\* (_poll_order, supplier_canceled, mark_order_done).
THEOREM NoEarlyClose == Spec => []ClosedOnlyWhenFinal
<1>1. IInv => ClosedOnlyWhenFinal
  BY DEF IInv, Finals, Closed, ClosedOnlyWhenFinal
<1> QED
  BY <1>1, Invariant, PTL
=============================================================================
