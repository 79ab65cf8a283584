-------------------------- MODULE DigisellerProofs --------------------------
(***************************************************************************)
(* Theorems about DigisellerOrders for any number of visits, orders and    *)
(* faults, with locks that may expire under a visit.                       *)
(***************************************************************************)
EXTENDS DigisellerOrders, FiniteSetTheorems, TLAPS

\* The outcome that a processed invoice must have on record.
Settled ==
  /\ order = "panel" => rows["accepted"] > 0
  /\ order = "rejected" => rows["rejected"] > 0

\* What a visit may be at on its route, and what may follow its message: who is
\* about to finish has its outcome on record, who orders from Fragment has
\* finished before.
Suits(s, t) ==
  /\ t \in {"gone", "refuse", "finish", "release"}
  /\ t \in {"finish", "release"} => order # "fragment"
  /\ s = "check" => order = "fragment"
  /\ s \in {"remember", "reject_no_id"} => order = "panel"
  /\ s \in {"create", "insert"} => order # "rejected"
  /\ s = "reject" => order # "panel"
  /\ s = "finish" \/ t = "finish" => Settled
  /\ /\ s \in {"release", "check", "create", "insert", "reject"}
     /\ order = "fragment" /\ numbered
     => processed

AllFit == \A v \in Visits : Suits(visit[v].step, visit[v].then)

\* An accepted order is processed, or about to be.
Recorded ==
  rows["accepted"] > 0 /\ numbered /\ faults = 0
    => processed \/ \E v \in Visits : At(v, "finish")

\* Visits that do not overlap are alone ...
Alone == ~overlapped =>
  \A v, w \in Visits : UnderWay(v) /\ UnderWay(w) => v = w

\* ... and one that has not recorded its order yet finds none recorded.
Early(s) ==
  \/ s \in {"fetch", "processed", "peek", "take", "route", "check", "create",
            "remember", "insert"}
  \/ order = "fragment" /\ s \in {"finish", "release"}

NotYet == ~overlapped => \A v \in Visits : Early(visit[v].step) => rows["accepted"] = 0

\* A created order that is waiting to be recorded.
Waits(s) == s \in {"remember", "insert"}

Orders == ~overlapped /\ ~Ambiguous =>
  /\ placed <= faults + 1
  /\ rows["accepted"] = 0 /\ (\A v \in Visits : ~Waits(visit[v].step)) => placed <= faults

\* A visit that may still come to order from Fragment: it has passed by
\* processed_invoices and has not called yet.
Ahead(s) == s \in {"peek", "take", "route", "finish", "release", "check", "create"}

\* A numbered Fragment sale has no order before it is finished, and none before
\* the visit that finished it has called.
FinishedFirst == ~overlapped /\ ~Ambiguous /\ order = "fragment" /\ numbered =>
  /\ placed <= 1
  /\ ~processed => placed = 0
  /\ \A v \in Visits : Ahead(visit[v].step) => placed = 0

IInv ==
  /\ TypeOK
  /\ ProcessedIsSettled
  /\ AllFit
  /\ Recorded
  /\ Alone /\ NotYet
  /\ Orders /\ FinishedFirst

-----------------------------------------------------------------------------

\* What is said of a visit that moves to step s, with t to follow a message.
Moved(v, s, t) ==
  /\ visit' \in [Visits -> [step : Steps, then : Steps]]
  /\ visit'[v].step = s
  /\ visit'[v].then = t
  /\ \A w \in Visits : w # v => visit'[w] = visit[w]

LEMMA MoveMoves ==
  ASSUME TypeOK, NEW v \in Visits, NEW s \in Steps, NEW t \in Steps,
         visit' = [visit EXCEPT ![v] = [step |-> s, then |-> t]]
  PROVE  Moved(v, s, t)
BY DEF TypeOK, Moved

LEMMA GoMoves ==
  ASSUME TypeOK, NEW v \in Visits, NEW s \in Steps, Go(v, s)
  PROVE  Moved(v, s, "gone")
<1>1. "gone" \in Steps
  BY DEF Steps
<1> QED
  BY <1>1, MoveMoves DEF Go

LEMMA TellMoves ==
  ASSUME TypeOK, NEW v \in Visits, NEW s \in Steps, TellThen(v, s)
  PROVE  Moved(v, "mark", s)
<1>1. "mark" \in Steps
  BY DEF Steps
<1> QED
  BY <1>1, MoveMoves DEF TellThen

\* A row more.
LEMMA RowAdded ==
  ASSUME TypeOK, NEW r \in RowSays, Add(r)
  PROVE  /\ rows' \in [RowSays -> Nat]
         /\ rows'[r] = rows[r] + 1
         /\ \A q \in RowSays : q # r => rows'[q] = rows[q]
BY DEF TypeOK, Add

LEMMA RowTypes == TypeOK => rows["accepted"] \in Nat /\ rows["rejected"] \in Nat
BY DEF TypeOK, RowSays

LEMMA InitIInv == Init => IInv
<1> SUFFICES ASSUME Init PROVE IInv
  OBVIOUS
<1> USE DEF Init
<1>1. TypeOK
  BY DEF TypeOK, Steps, RowSays
<1>2. rows["accepted"] = 0 /\ rows["rejected"] = 0
  BY DEF RowSays
<1>3. ProcessedIsSettled
  BY DEF ProcessedIsSettled
<1>4. Recorded /\ NotYet
  BY <1>2 DEF Recorded, NotYet
<1>5. AllFit
  BY DEF AllFit, Suits
<1>6. Alone
  BY DEF Alone, UnderWay
<1>7. Orders /\ FinishedFirst
  BY DEF Orders, FinishedFirst
<1> QED
  BY <1>1, <1>3, <1>4, <1>5, <1>6, <1>7 DEF IInv

-----------------------------------------------------------------------------
\* A visit that moves and neither records nor orders anything.
LEMMA QuietMove ==
  ASSUME IInv, NEW v \in Visits, NEW s, NEW t, Moved(v, s, t),
         UNCHANGED <<sale, rows, processed, placed, history>>,
         lock' \in {"none", "live", "expired"},
         remembered' \in BOOLEAN, notified' \in BOOLEAN,
         UnderWay(v), ~At(v, "finish"), Suits(s, t),
         Early(s) => Early(visit[v].step), Waits(s) <=> Waits(visit[v].step),
         order = "fragment" /\ numbered /\ Ahead(s) => Ahead(visit[v].step) \/ ~processed
  PROVE  IInv'
<1> USE DEF IInv, sale, history
<1>1. TypeOK'
  BY DEF TypeOK, Moved
<1>2. ProcessedIsSettled'
  BY DEF ProcessedIsSettled
<1>3. AllFit'
  BY DEF AllFit, Suits, Settled, Moved
<1>4. Recorded'
  BY DEF Recorded, At, Moved
<1>5. Alone'
  BY DEF Alone, UnderWay, Moved
<1>6. NotYet'
  BY DEF NotYet, Early, Moved
<1>7. Orders'
  BY DEF Orders, Waits, Moved
<1>8. FinishedFirst'
  BY DEF FinishedFirst, Moved
<1> QED
  BY <1>1, <1>2, <1>3, <1>4, <1>5, <1>6, <1>7, <1>8

LEMMA QuietKeeps ==
  ASSUME IInv, NEW v \in Visits,
         \/ GetPurchase(v) \/ CallRaises(v) \/ IsProcessed(v) \/ Peek(v) \/ Take(v)
         \/ Route(v) \/ CheckUsername(v) \/ Remember(v) \/ Mark(v) \/ Send(v)
         \/ Release(v)
  PROVE  IInv'
<1>0. /\ TypeOK /\ Suits(visit[v].step, visit[v].then)
      /\ lock \in {"none", "live", "expired"} /\ order \in Routes
      /\ remembered \in BOOLEAN /\ notified \in BOOLEAN /\ numbered \in BOOLEAN
      /\ visit[v].step \in Steps /\ visit[v].then \in Steps
  BY DEF IInv, TypeOK, AllFit
<1>1. CASE GetPurchase(v)
  <2>1. \/ Moved(v, "processed", "gone")
        \/ Moved(v, "route", "gone") /\ ~numbered
        \/ Moved(v, "mark", "refuse")
    BY <1>0, <1>1, GoMoves, TellMoves DEF GetPurchase, Steps
  <2> QED
    BY <1>0, <1>1, <2>1, QuietMove
       DEF GetPurchase, At, UnderWay, Suits, Early, Waits, Ahead, invoice
<1>2. CASE CallRaises(v)
  <2>1. Moved(v, "mark", "gone")
    BY <1>0, <1>2, TellMoves DEF CallRaises, Steps
  <2> QED
    BY <1>0, <1>2, <2>1, QuietMove
       DEF CallRaises, At, UnderWay, Suits, Early, Waits, Ahead, invoice
<1>3. CASE IsProcessed(v)
  <2>1. Moved(v, "gone", "gone") \/ (Moved(v, "peek", "gone") /\ ~processed)
    BY <1>0, <1>3, GoMoves DEF IsProcessed, Steps
  <2> QED
    BY <1>0, <1>3, <2>1, QuietMove
       DEF IsProcessed, At, UnderWay, Suits, Early, Waits, Ahead, invoice
<1>4. CASE Peek(v)
  <2>1. \E s \in {"gone", "take"} : Moved(v, s, "gone")
    BY <1>0, <1>4, GoMoves DEF Peek, Steps
  <2> QED
    BY <1>0, <1>4, <2>1, QuietMove DEF Peek, At, UnderWay, Suits, Early, Waits, Ahead, invoice
<1>5. CASE Take(v)
  <2>1. Moved(v, "route", "gone")
    BY <1>0, <1>5, GoMoves DEF Take, Steps
  <2> QED
    BY <1>0, <1>5, <2>1, QuietMove DEF Take, At, UnderWay, Suits, Early, Waits, Ahead
<1>6. CASE Route(v)
  <2>1. \/ order = "fragment" /\ numbered /\ Moved(v, "finish", "gone")
        \/ order = "fragment" /\ ~numbered /\ Moved(v, "check", "gone")
        \/ order = "panel" /\ Moved(v, "create", "gone")
        \/ order = "rejected" /\ Moved(v, "reject", "gone")
    BY <1>0, <1>6, GoMoves DEF Route, Routes, Steps
  <2> QED
    BY <1>0, <1>6, <2>1, QuietMove
       DEF Route, At, UnderWay, Suits, Settled, Early, Waits, Ahead, invoice
<1>7. CASE CheckUsername(v)
  <2>1. \E s \in {"create", "reject"} : Moved(v, s, "gone")
    BY <1>0, <1>7, GoMoves DEF CheckUsername, Steps
  <2> QED
    BY <1>0, <1>7, <2>1, QuietMove
       DEF CheckUsername, At, UnderWay, Suits, Early, Waits, Ahead, invoice
<1>8. CASE Remember(v)
  <2>1. Moved(v, "insert", "gone")
    BY <1>0, <1>8, GoMoves DEF Remember, Steps
  <2> QED
    BY <1>0, <1>8, <2>1, QuietMove DEF Remember, At, UnderWay, Suits, Early, Waits, Ahead
<1>9. CASE Mark(v) \/ Send(v)
  <2>1. \/ Moved(v, visit[v].then, "gone")
        \/ Moved(v, "send", visit[v].then)
    BY <1>0, <1>9, GoMoves, MoveMoves DEF Mark, Send, Steps
  <2>2. /\ At(v, "mark") \/ At(v, "send")
        /\ UNCHANGED <<sale, rows, lock, processed, remembered, placed, history>>
        /\ notified' \in BOOLEAN
    BY <1>0, <1>9 DEF Mark, Send, invoice
  <2>3. CASE Moved(v, visit[v].then, "gone")
    BY <1>0, <2>2, <2>3, QuietMove DEF At, UnderWay, Suits, Early, Waits, Ahead
  <2>4. CASE Moved(v, "send", visit[v].then)
    BY <1>0, <2>2, <2>4, QuietMove DEF At, UnderWay, Suits, Early, Waits, Ahead
  <2> QED
    BY <2>1, <2>3, <2>4
<1>10. CASE Release(v)
  <2>1. \E s \in {"check", "gone"} :
          Moved(v, s, "gone") /\ (s = "check" <=> order = "fragment")
    BY <1>0, <1>10, GoMoves DEF Release, Steps
  <2> QED
    BY <1>0, <1>10, <2>1, QuietMove DEF Release, At, UnderWay, Suits, Early, Waits, Ahead
<1> QED
  BY <1>1, <1>2, <1>3, <1>4, <1>5, <1>6, <1>7, <1>8, <1>9, <1>10

LEMMA ExpireKeeps == ASSUME IInv, Expire \/ UNCHANGED vars PROVE IInv'
<1>1. /\ UNCHANGED <<sale, rows, processed, remembered, notified, placed, visit, history>>
      /\ lock' \in {lock, "expired"}
  BY DEF Expire, vars, sale, history
<1> QED
  BY <1>1 DEF IInv, TypeOK, ProcessedIsSettled, AllFit, Suits, Settled, Recorded,
              Alone, NotYet, Early, Orders, Waits, FinishedFirst, UnderWay, At, sale, history

\* A visit begins: alone, it finds no order on record.
LEMMA ReadRowKeeps == ASSUME IInv, NEW v \in Visits, ReadRow(v) PROVE IInv'
<1> USE DEF IInv
<1>1. PICK s \in {"gone", "fetch"} : Moved(v, s, "gone") /\ (s = "fetch" => ~HasRow)
  BY GoMoves DEF ReadRow, Steps
<1>2. /\ UNCHANGED <<sale, rows, invoice, notified, placed, faults>>
      /\ overlapped' = (overlapped \/ \E w \in Visits : UnderWay(w))
      /\ At(v, "idle")
  BY DEF ReadRow
<1> USE DEF sale, invoice
<1>3. TypeOK'
  BY <1>1, <1>2 DEF TypeOK, Moved
<1>4. ProcessedIsSettled' /\ AllFit'
  BY <1>1, <1>2 DEF ProcessedIsSettled, AllFit, Suits, Settled, Moved
<1>5. Recorded'
  BY <1>1, <1>2 DEF Recorded, At, Moved
<1>6. ~overlapped' => ~overlapped /\ \A w \in Visits : ~UnderWay(w)
  BY <1>2
<1>7. Alone'
  BY <1>1, <1>6 DEF Alone, UnderWay, Moved
<1>8. s = "fetch" => rows["accepted"] = 0
  BY <1>1, RowTypes DEF HasRow, RowSays
<1>9. NotYet'
  <2>1. \A w \in Visits : ~overlapped' /\ w # v => ~Early(visit'[w].step)
    BY <1>1, <1>6 DEF Early, UnderWay, Moved
  <2>2. Early(visit'[v].step) => s = "fetch"
    BY <1>1 DEF Early, Moved
  <2> QED
    BY <1>2, <1>8, <2>1, <2>2 DEF NotYet, Early
<1>10. Orders'
  BY <1>1, <1>2, <1>6 DEF Orders, Waits, Moved, At
<1>11. FinishedFirst'
  BY <1>1, <1>2, <1>6 DEF FinishedFirst, Ahead, Moved
<1> QED
  BY <1>3, <1>4, <1>5, <1>7, <1>9, <1>10, <1>11

\* An ERROR row is written.
LEMMA RejectKeeps ==
  ASSUME IInv, NEW v \in Visits, Refuse(v) \/ Reject(v) \/ RejectNoId(v)
  PROVE  IInv'
<1> USE DEF IInv
<1>0. Suits(visit[v].step, visit[v].then) /\ order \in Routes
  BY DEF AllFit, TypeOK
<1>1. PICK r \in {"refused", "rejected", "no_id"} : Add(r)
  BY DEF Refuse, Reject, RejectNoId
<1>2. /\ rows' \in [RowSays -> Nat]
      /\ rows'["accepted"] = rows["accepted"]
      /\ rows["rejected"] > 0 => rows'["rejected"] > 0
      /\ Reject(v) => rows'["rejected"] > 0
  <2>1. r \in RowSays /\ "accepted" \in RowSays /\ "rejected" \in RowSays /\ r # "accepted"
    BY DEF RowSays
  <2>2. rows["rejected"] \in Nat /\ rows'["rejected"] \in {rows["rejected"], rows["rejected"] + 1}
    BY <1>1, <2>1, RowAdded, RowTypes
  <2>3. Reject(v) => rows'["rejected"] = rows["rejected"] + 1
    BY <2>1, RowAdded DEF Reject
  <2> QED
    BY <1>1, <2>1, <2>2, <2>3, RowAdded
<1>3. /\ UNCHANGED <<sale, invoice, notified, placed, history>>
      /\ visit[v].step \in {"refuse", "reject", "reject_no_id"}
  BY DEF Refuse, Reject, RejectNoId, At
<1>4. PICK s \in {"gone", "mark"}, t \in {"gone", "finish", "release"} :
        /\ Moved(v, s, t)
        /\ t = "finish" => Reject(v) /\ order # "fragment"
        /\ t = "release" => order = "panel"
  <2>1. CASE Refuse(v)
    BY <2>1, GoMoves DEF Refuse, Steps
  <2>2. CASE Reject(v)
    BY <2>2, TellMoves DEF Reject, IfNumbered, Steps
  <2>3. CASE RejectNoId(v)
    <3>1. order = "panel"
      BY <1>0, <2>3 DEF RejectNoId, At, Suits
    <3> QED
      BY <2>3, <3>1, TellMoves DEF RejectNoId, IfNumbered, Steps
  <2> QED
    BY <2>1, <2>2, <2>3
<1> USE DEF sale, invoice, history
<1>5. TypeOK'
  BY <1>2, <1>3, <1>4 DEF TypeOK, Moved
<1>6. Settled => Settled'
  BY <1>2, <1>3 DEF Settled
<1>7. ProcessedIsSettled'
  BY <1>3, <1>6 DEF ProcessedIsSettled, Settled
<1>8. AllFit'
  <2>1. t = "finish" => Settled'
    BY <1>0, <1>2, <1>3, <1>4 DEF Settled, Suits, Reject, At
  <2>2. Suits(s, t)'
    BY <1>3, <1>4, <2>1 DEF Suits
  <2>3. \A w \in Visits : w # v => Suits(visit[w].step, visit[w].then)'
    BY <1>3, <1>4, <1>6 DEF AllFit, Suits, Moved
  <2> QED
    BY <1>4, <2>2, <2>3 DEF AllFit, Moved
<1>9. Recorded'
  BY <1>2, <1>3, <1>4 DEF Recorded, At, Moved
<1>10. Alone'
  BY <1>3, <1>4 DEF Alone, UnderWay, Moved
<1>11. NotYet'
  BY <1>2, <1>3, <1>4 DEF NotYet, Early, Moved
<1>12. Orders'
  BY <1>2, <1>3, <1>4 DEF Orders, Waits, Moved
<1>13. FinishedFirst'
  BY <1>3, <1>4 DEF FinishedFirst, Ahead, Moved
<1> QED
  BY <1>5, <1>7, <1>8, <1>9, <1>10, <1>11, <1>12, <1>13

\* An order is recorded.
LEMMA InsertKeeps == ASSUME IInv, NEW v \in Visits, Insert(v) PROVE IInv'
<1> USE DEF IInv
<1>0. Suits(visit[v].step, visit[v].then) /\ At(v, "insert")
  BY DEF AllFit, Insert
<1>1. /\ rows' \in [RowSays -> Nat]
      /\ rows'["accepted"] > 0
      /\ rows'["rejected"] = rows["rejected"]
  <2>1. "accepted" \in RowSays /\ "rejected" \in RowSays
    BY DEF RowSays
  <2>2. rows' \in [RowSays -> Nat] /\ rows'["accepted"] = rows["accepted"] + 1
        /\ rows'["rejected"] = rows["rejected"]
    BY <2>1, RowAdded DEF Insert
  <2> QED
    BY <2>2, RowTypes
<1>2. UNCHANGED <<sale, invoice, notified, placed, history>>
  BY DEF Insert
<1>3. PICK s \in {"gone", "finish"} :
        /\ Moved(v, s, "gone")
        /\ s = "finish" <=> order # "fragment" /\ numbered
  BY GoMoves DEF Insert, IfNumbered, Steps
<1> USE DEF sale, invoice, history
<1>4. TypeOK'
  BY <1>1, <1>2, <1>3 DEF TypeOK, Moved
<1>5. Settled => Settled'
  BY <1>1, <1>2 DEF Settled
<1>6. ProcessedIsSettled'
  BY <1>2, <1>5 DEF ProcessedIsSettled, Settled
<1>7. AllFit'
  <2>1. s = "finish" => Settled'
    BY <1>0, <1>1, <1>2 DEF Settled, Suits, At
  <2>2. Suits(s, "gone")'
    BY <1>2, <1>3, <2>1 DEF Suits
  <2>3. \A w \in Visits : w # v => Suits(visit[w].step, visit[w].then)'
    BY <1>2, <1>3, <1>5 DEF AllFit, Suits, Moved
  <2> QED
    BY <1>3, <2>2, <2>3 DEF AllFit, Moved
<1>8. Recorded'
  <2>1. CASE order = "fragment" /\ numbered
    BY <1>0, <1>2, <2>1 DEF Recorded, Suits, At
  <2>2. CASE order # "fragment" /\ numbered
    BY <1>2, <1>3, <2>2 DEF Recorded, At, Moved
  <2>3. CASE ~numbered
    BY <1>2, <2>3 DEF Recorded
  <2> QED
    BY <2>1, <2>2, <2>3 DEF TypeOK
<1>9. Alone'
  BY <1>0, <1>2, <1>3 DEF Alone, UnderWay, Moved, At
<1>10. NotYet'
  <2>1. \A w \in Visits : ~overlapped /\ w # v => ~UnderWay(w)
    BY <1>0 DEF Alone, UnderWay, At
  <2>2. \A w \in Visits : ~overlapped /\ w # v => ~Early(visit'[w].step)
    BY <1>3, <2>1 DEF Early, UnderWay, Moved
  <2>3. ~Early(visit'[v].step)
    BY <1>3 DEF Early, Moved
  <2> QED
    BY <1>2, <2>2, <2>3 DEF NotYet, Early
<1>11. Orders'
  BY <1>1, <1>2 DEF Orders
<1>12. FinishedFirst'
  BY <1>2, <1>3 DEF FinishedFirst, Ahead, Moved
<1> QED
  BY <1>4, <1>6, <1>7, <1>8, <1>9, <1>10, <1>11, <1>12

\* An order is made, or none is although it was asked for.
LEMMA CreateKeeps ==
  ASSUME IInv, NEW v \in Visits, NEW answer \in {"id", "no_id", "raises"},
         NEW n \in 0..2, CreateOrder(v, answer, n)
  PROVE  IInv'
<1> USE DEF IInv
<1>0. Suits(visit[v].step, visit[v].then) /\ At(v, "create")
  BY DEF AllFit, CreateOrder
<1>1. /\ UNCHANGED <<sale, rows, invoice, notified, history>>
      /\ placed' = placed + n /\ placed' \in Nat
  BY DEF CreateOrder, TypeOK
<1>2. PICK s \in {"remember", "insert", "reject_no_id", "mark"} :
        /\ Moved(v, s, "gone")
        /\ s \in {"remember", "reject_no_id"} => order = "panel"
        /\ Waits(s) <=> answer = "id"
  <2>1. CASE answer = "id"
    <3>1. CASE numbered /\ order = "panel"
      BY <2>1, <3>1, GoMoves DEF CreateOrder, Waits, Steps
    <3>2. CASE ~(numbered /\ order = "panel")
      BY <2>1, <3>2, GoMoves DEF CreateOrder, Waits, Steps
    <3> QED
      BY <3>1, <3>2
  <2>2. CASE answer = "no_id"
    BY <2>2, GoMoves DEF CreateOrder, Waits, Steps
  <2>3. CASE answer = "raises"
    BY <2>3, TellMoves DEF CreateOrder, Waits, Steps
  <2> QED
    BY <2>1, <2>2, <2>3
<1> USE DEF sale, invoice, history
<1>3. TypeOK'
  BY <1>1, <1>2 DEF TypeOK, Moved
<1>4. ProcessedIsSettled'
  BY <1>1 DEF ProcessedIsSettled
<1>5. AllFit'
  <2>1. Suits(s, "gone")'
    BY <1>0, <1>1, <1>2 DEF Suits, At
  <2>2. \A w \in Visits : w # v => Suits(visit[w].step, visit[w].then)'
    BY <1>1, <1>2 DEF AllFit, Suits, Settled, Moved
  <2> QED
    BY <1>2, <2>1, <2>2 DEF AllFit, Moved
<1>6. Recorded'
  BY <1>0, <1>1, <1>2 DEF Recorded, At, Moved
<1>7. Alone'
  BY <1>0, <1>1, <1>2 DEF Alone, UnderWay, Moved, At
<1>8. NotYet'
  BY <1>0, <1>1, <1>2 DEF NotYet, Early, Moved, At
<1>9. Orders'
  <2> SUFFICES ASSUME ~overlapped, ~Ambiguous
               PROVE  /\ placed' <= faults + 1
                      /\ ~Waits(s) => placed' <= faults
    BY <1>1, <1>2 DEF Orders, Moved
  <2>1. \A w \in Visits : ~Waits(visit[w].step)
    BY <1>0 DEF Alone, UnderWay, Waits, At
  <2>2. rows["accepted"] = 0
    BY <1>0 DEF NotYet, Early, At
  <2>3. placed <= faults
    BY <2>1, <2>2 DEF Orders
  <2>4. n = IF answer = "id" THEN 1 ELSE 0
    BY DEF CreateOrder
  <2> QED
    BY <1>1, <1>2, <2>3, <2>4 DEF TypeOK
<1>10. FinishedFirst'
  <2> SUFFICES ASSUME ~overlapped, ~Ambiguous, order = "fragment", numbered
               PROVE  /\ placed' <= 1 /\ processed
                      /\ \A w \in Visits : ~Ahead(visit'[w].step)
    BY <1>1 DEF FinishedFirst
  <2>1. placed = 0 /\ processed
    BY <1>0 DEF FinishedFirst, Ahead, Suits, At
  <2>2. n <= 1
    BY DEF CreateOrder
  <2>3. \A w \in Visits : w # v => ~Ahead(visit[w].step)
    BY <1>0 DEF Alone, UnderWay, Ahead, At
  <2>4. ~Ahead(s)
    BY <1>2 DEF Ahead
  <2> QED
    BY <1>1, <1>2, <2>1, <2>2, <2>3, <2>4 DEF Moved
<1> QED
  BY <1>3, <1>4, <1>5, <1>6, <1>7, <1>8, <1>9, <1>10

\* An invoice is finished: its outcome is on record.
LEMMA FinishKeeps == ASSUME IInv, NEW v \in Visits, Finish(v) PROVE IInv'
<1> USE DEF IInv
<1>0. Suits(visit[v].step, visit[v].then) /\ At(v, "finish")
  BY DEF AllFit, Finish
<1>1. /\ processed' = TRUE
      /\ UNCHANGED <<sale, rows, lock, remembered, notified, placed, history>>
  BY DEF Finish
<1>2. Moved(v, "release", "gone")
  BY GoMoves DEF Finish, Steps
<1> USE DEF sale, history
<1>3. TypeOK'
  BY <1>1, <1>2 DEF TypeOK, Moved
<1>4. ProcessedIsSettled'
  BY <1>0, <1>1 DEF ProcessedIsSettled, Suits, Settled, At
<1>5. AllFit'
  BY <1>1, <1>2 DEF AllFit, Suits, Settled, Moved
<1>6. Recorded'
  BY <1>1 DEF Recorded
<1>7. Alone'
  BY <1>0, <1>1, <1>2 DEF Alone, UnderWay, Moved, At
<1>8. NotYet'
  BY <1>0, <1>1, <1>2 DEF NotYet, Early, Moved, At
<1>9. Orders'
  BY <1>0, <1>1, <1>2 DEF Orders, Waits, Moved, At
<1>10. FinishedFirst'
  BY <1>0, <1>1, <1>2 DEF FinishedFirst, Ahead, Moved, At
<1> QED
  BY <1>3, <1>4, <1>5, <1>6, <1>7, <1>8, <1>9, <1>10

\* A visit dies, perhaps with an order that nobody will record.
LEMMA DieKeeps == ASSUME IInv, NEW v \in Visits, Die(v) PROVE IInv'
<1> USE DEF IInv
<1>1. /\ UNCHANGED <<sale, rows, invoice, notified, placed, overlapped>>
      /\ faults \in Nat /\ faults' = faults + 1 /\ placed \in Nat
  BY DEF Die, TypeOK
<1>2. Moved(v, "gone", "gone")
  BY GoMoves DEF Die, Steps
<1> USE DEF sale, invoice
<1>3. TypeOK'
  BY <1>1, <1>2 DEF TypeOK, Moved
<1>4. ProcessedIsSettled'
  BY <1>1 DEF ProcessedIsSettled
<1>5. AllFit'
  BY <1>1, <1>2 DEF AllFit, Suits, Settled, Moved
<1>6. Recorded'
  BY <1>1 DEF Recorded
<1>7. Alone'
  BY <1>1, <1>2 DEF Alone, UnderWay, Moved
<1>8. NotYet'
  BY <1>1, <1>2 DEF NotYet, Early, Moved
<1>9. Orders'
  BY <1>1 DEF Orders
<1>10. FinishedFirst'
  BY <1>1, <1>2 DEF FinishedFirst, Ahead, Moved
<1> QED
  BY <1>3, <1>4, <1>5, <1>6, <1>7, <1>8, <1>9, <1>10

LEMMA NextIInv == IInv /\ [Next]_vars => IInv'
<1> SUFFICES ASSUME IInv, [Next]_vars PROVE IInv'
  OBVIOUS
<1>1. CASE Expire \/ UNCHANGED vars
  BY <1>1, ExpireKeeps
<1>2. ASSUME NEW v \in Visits, Process(v) PROVE IInv'
  <2>1. CASE \E answer \in {"id", "no_id", "raises"}, n \in 0..2 : CreateOrder(v, answer, n)
    BY <2>1, CreateKeeps
  <2> QED
    BY <1>2, <2>1, QuietKeeps, ReadRowKeeps, RejectKeeps, InsertKeeps, FinishKeeps
       DEF Process
<1>3. ASSUME NEW v \in Visits, Die(v) PROVE IInv'
  BY <1>3, DieKeeps
<1> QED
  BY <1>1, <1>2, <1>3 DEF Next

LEMMA Invariant == Spec => []IInv
BY InitIInv, NextIInv, PTL DEF Spec

-----------------------------------------------------------------------------

\* Every reachable state is well-typed (process_digiseller, process_fragment).
THEOREM TypeCorrect == Spec => []TypeOK
<1>1. IInv => TypeOK
  BY DEF IInv
<1> QED
  BY <1>1, Invariant, PTL

\* However many visits overlap, outlast the lock or die: an invoice of the
\* direct suppliers is finished only with its outcome on record (_finish_inv).
THEOREM ProcessedHaveOutcome == Spec => []ProcessedIsSettled
<1>1. IInv => ProcessedIsSettled
  BY DEF IInv
<1> QED
  BY <1>1, Invariant, PTL

\* An order on record is finished once no visit is under way, without a fault,
\* for any number of visits and whatever became of the lock (_finish_inv).
THEOREM AcceptedGetProcessed == Spec => []AcceptedIsProcessed
<1>1. IInv => AcceptedIsProcessed
  BY DEF IInv, Recorded, AcceptedIsProcessed, Quiet, UnderWay, At
<1> QED
  BY <1>1, Invariant, PTL

\* Any number of visits, one after the other, order once, and once more for
\* each that died (the lookup of the code in process_digiseller), but a
\* numbered Fragment sale once at most (_finish_inv before process_fragment).
THEOREM OrderedOnce == Spec => []OnceUnlessOverlapping
<1>1. IInv => OnceUnlessOverlapping
  <2> SUFFICES ASSUME IInv, ~overlapped, ~Ambiguous
               PROVE  /\ placed <= 1 + faults
                      /\ order = "fragment" /\ numbered => placed <= 1
    BY DEF OnceUnlessOverlapping
  <2> QED
    BY DEF IInv, TypeOK, Orders, FinishedFirst
<1> QED
  BY <1>1, Invariant, PTL

-----------------------------------------------------------------------------
\* Refinement: every step is a step of SaleContract or changes none of its
\* variables.

Standings == [v \in Visits |-> Standing(visit[v].step, visit[v].then)]

LEMMA StandingMoves ==
  ASSUME NEW v \in Visits, NEW s, NEW t, Moved(v, s, t), UNCHANGED order
  PROVE  /\ Standings' = [Standings EXCEPT ![v] = Standing(s, t)]
         /\ Standings[v] = Standing(visit[v].step, visit[v].then)
<1>1. \A w \in Visits :
        Standing(visit[w].step, visit[w].then)'
          = IF w = v THEN Standing(s, t) ELSE Standing(visit[w].step, visit[w].then)
  BY DEF Standing, Moved
<1> QED
  BY <1>1 DEF Standings

LEMMA SaleInit == Init => Sale!Init
<1> SUFFICES ASSUME Init PROVE Sale!Init
  OBVIOUS
<1>1. \A v \in Visits : Standing(visit[v].step, visit[v].then) = "out"
  BY DEF Init, Standing
<1>2. Standings = [v \in Visits |-> "out"]
  BY <1>1 DEF Standings
<1>3. placed = 0 /\ \A r \in RowSays : rows[r] = 0
  BY DEF Init
<1> QED
  BY <1>2, <1>3 DEF Sale!Init, Standings, RowSays

\* A visit that moves without an order or a row stands as before, leaves, or
\* begins while the sale has no row.
LEMMA SaleMove ==
  ASSUME IInv, NEW v \in Visits, NEW s, NEW t, Moved(v, s, t),
         UNCHANGED <<order, rows, placed>>,
         \/ Standing(s, t) = Standing(visit[v].step, visit[v].then)
         \/ Standing(s, t) = "out"
         \/ At(v, "idle") /\ s = "fetch" /\ ~HasRow
  PROVE  Sale!Next \/ UNCHANGED Sale!svars
<1>1. /\ Standings' = [Standings EXCEPT ![v] = Standing(s, t)]
      /\ Standings[v] = Standing(visit[v].step, visit[v].then)
  BY StandingMoves
<1>2. CASE Standing(s, t) = Standings[v]
  <2>1. UNCHANGED Standings
    BY <1>1, <1>2 DEF Standings
  <2> QED
    BY <2>1 DEF Sale!svars, Standings
<1>3. CASE Standing(s, t) # Standings[v] /\ Standing(s, t) = "out"
  <2>1. Sale!Leave(v)
    BY <1>1, <1>3 DEF Sale!Leave, Sale!Move, Standings
  <2> QED
    BY <2>1 DEF Sale!Next, Sale!Act
<1>4. CASE At(v, "idle") /\ s = "fetch" /\ ~HasRow
  <2>1. Standings[v] = "out" /\ Standing(s, t) = "in"
    BY <1>1, <1>4 DEF At, Standing
  <2>2. /\ rows["accepted"] = 0 /\ rows["refused"] = 0
        /\ rows["rejected"] = 0 /\ rows["no_id"] = 0
    BY <1>4 DEF HasRow, IInv, TypeOK, RowSays
  <2>3. Sale!Enter(v)
    BY <1>1, <2>1, <2>2 DEF Sale!Enter, Sale!Move, Standings
  <2> QED
    BY <2>3 DEF Sale!Next, Sale!Act
<1> QED
  BY <1>1, <1>2, <1>3, <1>4

LEMMA SaleQuiet ==
  ASSUME IInv, NEW v \in Visits,
         \/ ReadRow(v) \/ GetPurchase(v) \/ CallRaises(v) \/ IsProcessed(v) \/ Peek(v)
         \/ Take(v) \/ Route(v) \/ CheckUsername(v) \/ Remember(v) \/ Mark(v) \/ Send(v)
         \/ Finish(v) \/ Release(v) \/ Die(v)
  PROVE  Sale!Next \/ UNCHANGED Sale!svars
<1>0. /\ TypeOK /\ Suits(visit[v].step, visit[v].then) /\ order \in Routes
      /\ visit[v].step \in Steps /\ visit[v].then \in Steps
  BY DEF IInv, TypeOK, AllFit
<1>1. UNCHANGED <<order, rows, placed>>
  BY DEF ReadRow, GetPurchase, CallRaises, IsProcessed, Peek, Take, Route,
         CheckUsername, Remember, Mark, Send, Finish, Release, Die, sale
<1>2. CASE ReadRow(v)
  <2>1. Moved(v, "gone", "gone") \/ (Moved(v, "fetch", "gone") /\ ~HasRow)
    BY <1>0, <1>2, GoMoves DEF ReadRow, Steps
  <2>2. Standing("gone", "gone") = "out" /\ At(v, "idle")
    BY <1>2 DEF Standing, ReadRow
  <2> QED
    BY <1>1, <2>1, <2>2, SaleMove
<1>3. CASE GetPurchase(v)
  <2>1. \/ Moved(v, "processed", "gone") \/ Moved(v, "route", "gone")
        \/ Moved(v, "mark", "refuse")
    BY <1>0, <1>3, GoMoves, TellMoves DEF GetPurchase, Steps
  <2>2. /\ Standing("processed", "gone") = "in" /\ Standing("route", "gone") = "in"
        /\ Standing("mark", "refuse") = "in"
        /\ Standing(visit[v].step, visit[v].then) = "in"
    BY <1>3 DEF Standing, GetPurchase, At
  <2> QED
    BY <1>1, <2>1, <2>2, SaleMove
<1>4. CASE CallRaises(v) \/ Die(v)
  <2>1. Moved(v, "mark", "gone") \/ Moved(v, "gone", "gone")
    BY <1>0, <1>4, GoMoves, TellMoves DEF CallRaises, Die, Steps
  <2>2. Standing("mark", "gone") = "out" /\ Standing("gone", "gone") = "out"
    BY DEF Standing
  <2> QED
    BY <1>1, <2>1, <2>2, SaleMove
<1>5. CASE IsProcessed(v) \/ Peek(v) \/ Take(v)
  <2>1. PICK s \in {"gone", "peek", "take", "route"} : Moved(v, s, "gone")
    BY <1>0, <1>5, GoMoves DEF IsProcessed, Peek, Take, Steps
  <2>2. /\ Standing(s, "gone") \in {"in", "out"}
        /\ Standing(visit[v].step, visit[v].then) = "in"
    BY <1>5 DEF Standing, IsProcessed, Peek, Take, At
  <2> QED
    BY <1>1, <2>1, <2>2, SaleMove
<1>6. CASE Route(v) \/ CheckUsername(v)
  <2>1. PICK s \in {"finish", "check", "create", "reject"} :
          Moved(v, s, "gone") /\ (s = "finish" => order = "fragment")
    BY <1>0, <1>6, GoMoves DEF Route, CheckUsername, Routes, Steps
  <2>2. Standing(s, "gone") = "in" /\ Standing(visit[v].step, visit[v].then) = "in"
    BY <1>6, <2>1 DEF Standing, Route, CheckUsername, At
  <2> QED
    BY <1>1, <2>1, <2>2, SaleMove
<1>7. CASE Remember(v)
  <2>1. Moved(v, "insert", "gone")
    BY <1>0, <1>7, GoMoves DEF Remember, Steps
  <2>2. /\ Standing("insert", "gone") = "holds"
        /\ Standing(visit[v].step, visit[v].then) = "holds"
    BY <1>7 DEF Standing, Remember, At
  <2> QED
    BY <1>1, <2>1, <2>2, SaleMove
<1>8. CASE Mark(v) \/ Send(v)
  <2>1. Moved(v, visit[v].then, "gone") \/ Moved(v, "send", visit[v].then)
    BY <1>0, <1>8, GoMoves, MoveMoves DEF Mark, Send, Steps
  <2>2. visit[v].step \in {"mark", "send"}
    BY <1>8 DEF Mark, Send, At
  <2>3. /\ Standing("send", visit[v].then) = Standing(visit[v].step, visit[v].then)
        /\ Standing(visit[v].then, "gone") = Standing(visit[v].step, visit[v].then)
    BY <1>0, <2>2 DEF Standing, Suits
  <2> QED
    BY <1>1, <2>1, <2>3, SaleMove
<1>9. CASE Finish(v) \/ Release(v)
  <2>1. PICK s \in {"release", "check", "gone"} :
          /\ Moved(v, s, "gone")
          /\ s = "check" => order = "fragment"
    BY <1>0, <1>9, GoMoves DEF Finish, Release, Steps
  <2>2. /\ visit[v].step \in {"finish", "release"}
        /\ \/ Standing(s, "gone") = Standing(visit[v].step, visit[v].then)
           \/ Standing(s, "gone") = "out"
    BY <1>9, <2>1 DEF Standing, Finish, Release, At
  <2> QED
    BY <1>1, <2>1, <2>2, SaleMove
<1> QED
  BY <1>2, <1>3, <1>4, <1>5, <1>6, <1>7, <1>8, <1>9

LEMMA SaleCreate ==
  ASSUME IInv, NEW v \in Visits, NEW answer \in {"id", "no_id", "raises"},
         NEW n \in 0..2, CreateOrder(v, answer, n)
  PROVE  Sale!Next
<1>0. TypeOK
  BY DEF IInv
<1>1. /\ UNCHANGED <<order, rows>> /\ At(v, "create")
      /\ answer = "id" => n >= 1
      /\ placed' = placed + n /\ placed \in Nat
  BY <1>0 DEF CreateOrder, sale, TypeOK
<1>2. Standing(visit[v].step, visit[v].then) = "in"
  BY <1>1 DEF Standing, At
<1>3. CASE answer = "id"
  <2>1. Moved(v, "remember", "gone") \/ Moved(v, "insert", "gone")
    BY <1>0, <1>3, GoMoves DEF CreateOrder, Steps
  <2>2. Standing("remember", "gone") = "holds" /\ Standing("insert", "gone") = "holds"
    BY DEF Standing
  <2>3. Standings' = [Standings EXCEPT ![v] = "holds"] /\ Standings[v] = "in"
    BY <1>1, <1>2, <2>1, <2>2, StandingMoves
  <2>4. Sale!Named(v)
    BY <1>1, <1>3, <2>3 DEF Sale!Named, Sale!Move, Standings
  <2> QED
    BY <2>4 DEF Sale!Next, Sale!Act
<1>4. CASE answer # "id"
  <2>1. Moved(v, "reject_no_id", "gone") \/ Moved(v, "mark", "gone")
    BY <1>0, <1>4, GoMoves, TellMoves DEF CreateOrder, Steps
  <2>2. Standing("reject_no_id", "gone") = "failed" /\ Standing("mark", "gone") = "out"
    BY DEF Standing
  <2>3. /\ \/ Standings' = [Standings EXCEPT ![v] = "failed"]
           \/ Standings' = [Standings EXCEPT ![v] = "out"]
        /\ Standings[v] = "in"
    BY <1>1, <1>2, <2>1, <2>2, StandingMoves
  <2>4. Sale!Unnamed(v)
    BY <1>1, <2>3 DEF Sale!Unnamed, Sale!Move, Standings
  <2> QED
    BY <2>4 DEF Sale!Next, Sale!Act
<1> QED
  BY <1>3, <1>4

LEMMA SaleAccept ==
  ASSUME IInv, NEW v \in Visits, Insert(v)
  PROVE  Sale!Next
<1>0. TypeOK
  BY DEF IInv
<1>1. UNCHANGED <<order, placed>> /\ At(v, "insert") /\ Add("accepted")
  BY DEF Insert, sale
<1>2. /\ rows'["accepted"] = rows["accepted"] + 1
      /\ \A r \in RowSays : r # "accepted" => rows'[r] = rows[r]
  BY <1>0, <1>1, RowAdded DEF RowSays
<1>3. PICK s \in {"gone", "finish"} : Moved(v, s, "gone") /\ (s = "finish" => order # "fragment")
  BY <1>0, GoMoves DEF Insert, IfNumbered, Steps
<1>4. Standing(s, "gone") = "out" /\ Standing(visit[v].step, visit[v].then) = "holds"
  BY <1>1, <1>3 DEF Standing, At
<1>5. Standings' = [Standings EXCEPT ![v] = "out"] /\ Standings[v] = "holds"
  BY <1>1, <1>3, <1>4, StandingMoves
<1>6. Sale!Accept(v)
  BY <1>1, <1>2, <1>5 DEF Sale!Accept, Sale!Move, Standings, RowSays
<1> QED
  BY <1>6 DEF Sale!Next, Sale!Act

LEMMA SaleRefuse ==
  ASSUME IInv, NEW v \in Visits, Refuse(v) \/ Reject(v) \/ RejectNoId(v)
  PROVE  Sale!Next
<1>0. TypeOK /\ Suits(visit[v].step, visit[v].then)
  BY DEF IInv, AllFit
<1>1. /\ UNCHANGED <<order, placed>>
      /\ visit[v].step \in {"refuse", "reject", "reject_no_id"}
  BY DEF Refuse, Reject, RejectNoId, sale, At
<1>2. PICK r \in {"refused", "rejected", "no_id"} : Add(r)
  BY DEF Refuse, Reject, RejectNoId
<1>3. /\ r \in RowSays /\ rows'[r] = rows[r] + 1
      /\ \A q \in RowSays : q # r => rows'[q] = rows[q]
  BY <1>0, <1>2, RowAdded DEF RowSays
<1>4. /\ rows'["accepted"] = rows["accepted"]
      /\ rows'["refused"] + rows'["rejected"] + rows'["no_id"]
           = rows["refused"] + rows["rejected"] + rows["no_id"] + 1
  BY <1>0, <1>3 DEF TypeOK, RowSays
<1>5. PICK s \in {"gone", "mark"}, t \in {"gone", "finish", "release"} : Moved(v, s, t)
  BY <1>0, GoMoves, TellMoves DEF Refuse, Reject, RejectNoId, IfNumbered, Steps
<1>6. Standing(s, t) = "out" /\ Standing(visit[v].step, visit[v].then) \in {"in", "failed"}
  BY <1>1 DEF Standing
<1>7. Standings' = [Standings EXCEPT ![v] = "out"] /\ Standings[v] \in {"in", "failed"}
  BY <1>1, <1>5, <1>6, StandingMoves
<1>8. Sale!Refuse(v)
  BY <1>1, <1>4, <1>7 DEF Sale!Refuse, Sale!Move, Standings
<1> QED
  BY <1>8 DEF Sale!Next, Sale!Act

LEMMA SaleStutter == ASSUME Expire \/ UNCHANGED vars PROVE UNCHANGED Sale!svars
<1>1. UNCHANGED <<order, rows, placed, visit>>
  BY DEF Expire, sale, vars
<1>2. UNCHANGED Standings
  BY <1>1 DEF Standings, Standing
<1> QED
  BY <1>1, <1>2 DEF Sale!svars, Standings

\* The redirects of a buyer, with their lock, their marks, failures and deaths,
\* implement the contract of a sale.
THEOREM DigisellerKeepsSaleContract == Spec => KeepsSaleContract
<1>1. IInv /\ [Next]_vars => [Sale!Next]_(Sale!svars)
  <2> SUFFICES ASSUME IInv, [Next]_vars PROVE Sale!Next \/ UNCHANGED Sale!svars
    OBVIOUS
  <2>1. ASSUME NEW v \in Visits, Process(v) \/ Die(v)
        PROVE  Sale!Next \/ UNCHANGED Sale!svars
    BY <2>1, SaleQuiet, SaleCreate, SaleAccept, SaleRefuse DEF Process
  <2> QED
    BY <2>1, SaleStutter DEF Next
<1> QED
  BY <1>1, SaleInit, Invariant, PTL DEF Spec, KeepsSaleContract, Sale!Spec

-----------------------------------------------------------------------------
\* What the contract comes to: the orders on record, and those that visits hold
\* and have yet to record, are all different orders.

Holders == {v \in Visits : Standings[v] = "holds"}

Backed == IsFiniteSet(Holders) /\ rows["accepted"] + Cardinality(Holders) <= placed

\* A step of the contract, as far as the orders are concerned.
MovesTo(v, s) ==
  /\ Standings' = [Standings EXCEPT ![v] = s]
  /\ rows'["accepted"] = rows["accepted"]
  /\ placed' >= placed

SomeoneMoves == \E v \in Visits, s \in {"in", "failed", "out"} : MovesTo(v, s)

SomeoneIsGiven ==
  \E v \in Visits :
    /\ Standings' = [Standings EXCEPT ![v] = "holds"]
    /\ rows'["accepted"] = rows["accepted"]
    /\ placed' >= placed + 1

SomeoneRecords ==
  \E v \in Visits :
    /\ Standings[v] = "holds"
    /\ Standings' = [Standings EXCEPT ![v] = "out"]
    /\ rows'["accepted"] = rows["accepted"] + 1
    /\ placed' = placed

NobodyMoves == UNCHANGED <<Standings, placed>> /\ rows'["accepted"] = rows["accepted"]

LEMMA OrderSteps ==
  ASSUME TypeOK, TypeOK', Sale!Next \/ UNCHANGED Sale!svars
  PROVE  SomeoneMoves \/ SomeoneIsGiven \/ SomeoneRecords \/ NobodyMoves
<1>1. /\ placed \in Nat /\ placed' \in Nat
      /\ rows["accepted"] \in Nat /\ rows'["accepted"] \in Nat
  BY DEF TypeOK, RowSays
<1>2. CASE UNCHANGED Sale!svars
  BY <1>2 DEF Sale!svars, Standings, NobodyMoves
<1>3. ~Sale!Pay
  BY DEF Sale!Pay
<1>4. ASSUME NEW v \in Visits, Sale!Act(v)
      PROVE  SomeoneMoves \/ SomeoneIsGiven \/ SomeoneRecords
  <2>1. ~Sale!HandOver(v)
    BY DEF Sale!HandOver
  <2>2. CASE Sale!Enter(v)
    <3>1. MovesTo(v, "in")
      BY <1>1, <2>2 DEF Sale!Enter, Sale!Move, Standings, MovesTo
    <3> QED
      BY <3>1 DEF SomeoneMoves
  <2>3. CASE Sale!Unnamed(v)
    <3>1. MovesTo(v, "failed") \/ MovesTo(v, "out")
      BY <1>1, <2>3 DEF Sale!Unnamed, Sale!Move, Standings, MovesTo
    <3> QED
      BY <3>1 DEF SomeoneMoves
  <2>4. CASE Sale!Refuse(v)
    <3>1. MovesTo(v, "out")
      BY <1>1, <2>4 DEF Sale!Refuse, Sale!Move, Standings, MovesTo
    <3> QED
      BY <3>1 DEF SomeoneMoves
  <2>5. CASE Sale!Leave(v)
    <3>1. MovesTo(v, "out")
      BY <1>1, <2>5 DEF Sale!Leave, Sale!Move, Standings, MovesTo
    <3> QED
      BY <3>1 DEF SomeoneMoves
  <2>6. CASE Sale!Named(v)
    <3>1. /\ Standings' = [Standings EXCEPT ![v] = "holds"]
          /\ rows'["accepted"] = rows["accepted"] /\ placed' >= placed + 1
      BY <1>1, <2>6 DEF Sale!Named, Sale!Move, Standings
    <3> QED
      BY <3>1 DEF SomeoneIsGiven
  <2>7. CASE Sale!Accept(v)
    BY <1>1, <2>7 DEF Sale!Accept, Sale!Move, Standings, SomeoneRecords
  <2> QED
    BY <1>4, <2>1, <2>2, <2>3, <2>4, <2>5, <2>6, <2>7 DEF Sale!Act
<1> QED
  BY <1>2, <1>3, <1>4 DEF Sale!Next

\* The holders, when one visit's standing changes.
LEMMA HoldersMove ==
  ASSUME NEW v \in Visits, NEW s, Standings' = [Standings EXCEPT ![v] = s]
  PROVE  Holders' = IF s = "holds" THEN Holders \cup {v} ELSE Holders \ {v}
<1>1. \A w \in Visits : Standings'[w] = IF w = v THEN s ELSE Standings[w]
  BY DEF Standings
<1> QED
  BY <1>1 DEF Holders

LEMMA BackedStep ==
  ASSUME TypeOK, TypeOK', Backed, Sale!Next \/ UNCHANGED Sale!svars
  PROVE  Backed'
<1>1. /\ placed \in Nat /\ placed' \in Nat /\ rows["accepted"] \in Nat
      /\ IsFiniteSet(Holders) /\ Cardinality(Holders) \in Nat
      /\ rows["accepted"] + Cardinality(Holders) <= placed
  BY FS_CardinalityType DEF TypeOK, RowSays, Backed
<1>2. CASE SomeoneMoves
  <2>1. PICK v \in Visits, s \in {"in", "failed", "out"} :
          /\ Standings' = [Standings EXCEPT ![v] = s]
          /\ rows'["accepted"] = rows["accepted"] /\ placed' >= placed
    BY <1>2 DEF SomeoneMoves, MovesTo
  <2>2. Holders' = Holders \ {v}
    BY <2>1, HoldersMove
  <2>3. /\ IsFiniteSet(Holders') /\ Cardinality(Holders') \in Nat
        /\ Cardinality(Holders') <= Cardinality(Holders)
    BY <1>1, <2>2, FS_RemoveElement, FS_CardinalityType
  <2> QED
    BY <1>1, <2>1, <2>3 DEF Backed
<1>3. CASE SomeoneIsGiven
  <2>1. PICK v \in Visits :
          /\ Standings' = [Standings EXCEPT ![v] = "holds"]
          /\ rows'["accepted"] = rows["accepted"] /\ placed' >= placed + 1
    BY <1>3 DEF SomeoneIsGiven
  <2>2. Holders' = Holders \cup {v}
    BY <2>1, HoldersMove
  <2>3. /\ IsFiniteSet(Holders') /\ Cardinality(Holders') \in Nat
        /\ Cardinality(Holders') <= Cardinality(Holders) + 1
    <3>1. /\ IsFiniteSet(Holders \cup {v})
          /\ \/ Cardinality(Holders \cup {v}) = Cardinality(Holders)
             \/ Cardinality(Holders \cup {v}) = Cardinality(Holders) + 1
      BY <1>1, FS_AddElement
    <3> QED
      BY <1>1, <2>2, <3>1
  <2> QED
    BY <1>1, <2>1, <2>3 DEF Backed
<1>4. CASE SomeoneRecords
  <2>1. PICK v \in Visits :
          /\ Standings[v] = "holds"
          /\ Standings' = [Standings EXCEPT ![v] = "out"]
          /\ rows'["accepted"] = rows["accepted"] + 1 /\ placed' = placed
    BY <1>4 DEF SomeoneRecords
  <2>2. v \in Holders /\ Holders' = Holders \ {v}
    <3>1. "out" # "holds" /\ v \in Holders
      BY <2>1 DEF Holders
    <3> QED
      BY <2>1, <3>1, HoldersMove
  <2>3. IsFiniteSet(Holders') /\ Cardinality(Holders') = Cardinality(Holders) - 1
    BY <1>1, <2>2, FS_RemoveElement
  <2> QED
    BY <1>1, <2>1, <2>3 DEF Backed
<1>5. CASE NobodyMoves
  BY <1>1, <1>5 DEF NobodyMoves, Backed, Holders
<1> QED
  BY <1>2, <1>3, <1>4, <1>5, OrderSteps

LEMMA InitBacked == Init => Backed
<1> SUFFICES ASSUME Init PROVE Backed
  OBVIOUS
<1>1. \A v \in Visits : Standings[v] = "out"
  BY DEF Init, Standings, Standing
<1>2. Holders = {} /\ rows["accepted"] = 0 /\ placed = 0
  BY <1>1 DEF Init, Holders, RowSays
<1> QED
  BY <1>2, FS_EmptySet DEF Backed

\* Each purchase that says "accepted" has an order of its own at the supplier,
\* for any number of visits, faults and orders: it follows from the contract
\* alone (process_digiseller, process_fragment).
THEOREM AcceptedHaveOrders == Spec => []AcceptedAreOrdered
<1>1. TypeOK /\ TypeOK' /\ Backed /\ [Sale!Next]_(Sale!svars) => Backed'
  BY BackedStep
<1>2. Spec => [][Sale!Next]_(Sale!svars)
  BY DigisellerKeepsSaleContract, PTL DEF KeepsSaleContract, Sale!Spec
<1>3. Spec => []TypeOK
  BY TypeCorrect
<1>4. TypeOK /\ Backed => AcceptedAreOrdered
  <2> SUFFICES ASSUME TypeOK, Backed PROVE AcceptedAreOrdered
    OBVIOUS
  <2>1. /\ rows["accepted"] \in Nat /\ placed \in Nat /\ Cardinality(Holders) \in Nat
        /\ rows["accepted"] + Cardinality(Holders) <= placed
    BY FS_CardinalityType DEF TypeOK, RowSays, Backed
  <2> QED
    BY <2>1 DEF AcceptedAreOrdered
<1> QED
  BY <1>1, <1>2, <1>3, <1>4, InitBacked, PTL DEF Spec
=============================================================================
