----------------------------- MODULE ChatPoller -----------------------------
(***************************************************************************)
(* One GGSEL chat and the pollers that forward its messages to Telegram    *)
(* (app/services/background.py: _poll_once, _process_chat).  A message is  *)
(* its number in the chat; ggsel_chats.last_msg_id is how far the chat has *)
(* been forwarded.                                                         *)
(*                                                                         *)
(* A step is one database transaction or one call to GGSEL or to Telegram. *)
(* There is one worker process; the specification lets several pollers run *)
(* to say what is left of the promise when a lost node has kept its own.   *)
(***************************************************************************)
EXTENDS Naturals

CONSTANTS
  Pollers,    \* chat pollers
  Page,       \* messages that get_chat_messages asks for
  MaxMsgs,    \* bound: messages of the chat
  MaxTold,    \* bound: copies counted per message
  MaxFaults,  \* bound: faults
  Ambiguous   \* may Telegram deliver what it does not acknowledge?

ASSUME ChatAssumption ==
  /\ Page \in Nat \ {0}
  /\ MaxMsgs \in Nat
  /\ MaxFaults \in Nat
  /\ MaxTold \in Nat /\ MaxTold > MaxFaults + 1
  /\ Ambiguous \in BOOLEAN

VARIABLES
  silent,      \* GGSEL_CHAT_BOOTSTRAP_SILENT
  written,     \* messages written
  buyer,       \* those written by the buyer
  refused,     \* those of the buyer that Telegram will never take
  deleted,     \* those deleted since
  fresh,       \* last_message is not older than GGSEL_CHAT_FRESH_DAYS
  known,       \* the chat has a row in ggsel_chats
  last,        \* its last_msg_id, 0 without a row
  pass,        \* where each poller stands with the chat, and what it holds
  told,        \* copies of each message in Telegram
  missed,      \* messages the chat was taken past without a word
  overlapped,  \* has a pass ever begun while another was under way?
  faults       \* faults so far

chat == <<written, buyer, refused, deleted, fresh>>
row == <<known, last>>
history == <<told, missed>>
vars == <<silent, chat, row, pass, history, overlapped, faults>>

Ids == 1..MaxMsgs

\* read: last_msg_id when the pass began, 0 if it is the first; lo: the oldest
\* message fetched; todo: those still to send; upto: what will be saved.
Passes == [step : {"idle", "fetch", "send", "save"}, first : BOOLEAN,
           read : Nat, lo : Nat, todo : SUBSET Ids, upto : Nat]

AtRest == [step |-> "idle", first |-> FALSE, read |-> 0, lo |-> 0, todo |-> {}, upto |-> 0]

TypeOK ==
  /\ silent \in BOOLEAN
  /\ written \in 0..MaxMsgs
  /\ buyer \in SUBSET Ids
  /\ refused \in SUBSET buyer
  /\ deleted \in SUBSET Ids
  /\ fresh \in BOOLEAN
  /\ known \in BOOLEAN
  /\ last \in Nat
  /\ pass \in [Pollers -> Passes]
  /\ told \in [Ids -> 0..MaxTold]
  /\ missed \in SUBSET Ids
  /\ overlapped \in BOOLEAN
  /\ faults \in Nat

At(p, s) == pass[p].step = s

UnderWay(p) == pass[p].step # "idle"

\* The message sent next is the oldest.
IsNext(p, m) == m \in pass[p].todo /\ \A k \in pass[p].todo : m <= k

\* The oldest message among the last Page ones.
Oldest == IF written > Page THEN written - Page + 1 ELSE 1

Capped(n) == IF n < MaxTold THEN n ELSE MaxTold

Turn(p, r) == pass' = [pass EXCEPT ![p] = r]

Rest(p) == Turn(p, AtRest)

Init ==
  /\ silent \in BOOLEAN
  /\ written = 0
  /\ buyer = {}
  /\ refused = {}
  /\ deleted = {}
  /\ fresh = FALSE
  /\ known = FALSE
  /\ last = 0
  /\ pass = [p \in Pollers |-> AtRest]
  /\ told = [m \in Ids |-> 0]
  /\ missed = {}
  /\ overlapped = FALSE
  /\ faults = 0

-----------------------------------------------------------------------------
\* Environment

\* A message of the seller, of the buyer, or one of the buyer that Telegram
\* refuses whenever it is sent.
Write(kind) ==
  /\ written < MaxMsgs
  /\ written' = written + 1
  /\ buyer' = IF kind = "seller" THEN buyer ELSE buyer \cup {written + 1}
  /\ refused' = IF kind = "refused" THEN refused \cup {written + 1} ELSE refused
  /\ fresh' = TRUE
  /\ UNCHANGED <<silent, deleted, row, pass, history, overlapped, faults>>

\* What becomes of the seller's messages makes no difference.
Delete(m) ==
  /\ m \in buyer \ deleted
  /\ deleted' = deleted \cup {m}
  /\ UNCHANGED <<silent, written, buyer, refused, fresh, row, pass, history,
                 overlapped, faults>>

GrowStale ==
  /\ fresh
  /\ fresh' = FALSE
  /\ UNCHANGED <<silent, written, buyer, refused, deleted, row, pass, history,
                 overlapped, faults>>

-----------------------------------------------------------------------------
\* A pass of _process_chat

\* Mutant: only chats that are new are asked for (filter_new).
ReadNew(p) ==
  /\ At(p, "idle")
  /\ fresh
  /\ ~known
  /\ Turn(p, [AtRest EXCEPT !.step = "fetch", !.first = ~known, !.read = last])
  /\ overlapped' = (overlapped \/ \E q \in Pollers : UnderWay(q))
  /\ UNCHANGED <<silent, chat, row, history, faults>>

\* ggsel_chat_get_last_msg_id, for a chat that _poll_once finds fresh
Read(p) ==
  /\ At(p, "idle")
  /\ fresh
  /\ Turn(p, [AtRest EXCEPT !.step = "fetch", !.first = ~known, !.read = last])
  /\ overlapped' = (overlapped \/ \E q \in Pollers : UnderWay(q))
  /\ UNCHANGED <<silent, chat, row, history, faults>>

\* Mutant: what is fetched is sent, whatever was sent before.
WantedAll(p) == {m \in Oldest..written : m \in buyer \ deleted}

\* to_send: of what is fetched, the buyer's messages after last_msg_id.
Wanted(p) == {m \in Oldest..written : m > pass[p].read /\ m \in buyer \ deleted}

\* get_chat_messages; with a silent bootstrap the chat's history is only
\* remembered, otherwise messages that are off the page are passed over.
Fetch(p) ==
  /\ At(p, "fetch")
  /\ written > 0
  /\ IF pass[p].first /\ silent
     THEN /\ Turn(p, [pass[p] EXCEPT !.step = "save", !.lo = Oldest, !.upto = written])
          /\ UNCHANGED missed
     ELSE /\ Turn(p, [pass[p] EXCEPT !.step = "send", !.lo = Oldest,
                                     !.todo = Wanted(p), !.upto = written])
          /\ missed' = missed \cup
               {m \in buyer \ deleted : pass[p].read < m /\ m < Oldest}
  /\ UNCHANGED <<silent, chat, row, told, overlapped, faults>>

\* Mutant: an answer without messages starts the chat anew.
FetchEmptyForgets(p) ==
  /\ At(p, "fetch")
  /\ \/ written = 0 /\ UNCHANGED faults
     \/ written > 0 /\ faults < MaxFaults /\ faults' = faults + 1
  /\ Turn(p, [pass[p] EXCEPT !.step = "save", !.first = TRUE])
  /\ UNCHANGED <<silent, chat, row, history, overlapped>>

\* The answer holds no message: the chat has none, or GGSEL reports an error
\* in a reply that get_chat_messages takes for an empty one.
FetchEmpty(p) ==
  /\ At(p, "fetch")
  /\ \/ written = 0 /\ UNCHANGED faults
     \/ written > 0 /\ faults < MaxFaults /\ faults' = faults + 1
  /\ IF pass[p].first
     THEN Turn(p, [pass[p] EXCEPT !.step = "save"])
     ELSE Rest(p)
  /\ UNCHANGED <<silent, chat, row, history, overlapped>>

FetchFails(p) ==
  /\ At(p, "fetch")
  /\ Rest(p)
  /\ UNCHANGED <<silent, chat, row, history, overlapped, faults>>

\* Mutant: a message that failed counts as read.
KeepThrough(p, m) == m

\* Mutant: without a message between, the one before last_msg_id is saved.
KeepOneBack(p, m) == IF m > pass[p].lo THEN m - 1 ELSE pass[p].read - 1

\* new_last after a failure at m: the newest fetched message between.
KeepBefore(p, m) == IF m > pass[p].lo THEN m - 1 ELSE pass[p].read

\* Mutant: the next message is tried after a failure.
SendOn(p, m, ok, copies) ==
  /\ At(p, "send")
  /\ IsNext(p, m)
  /\ ok => copies >= 1 /\ m \notin refused
  /\ m \in refused => copies = 0
  /\ ~Ambiguous => copies = IF ok THEN 1 ELSE 0
  /\ told' = [told EXCEPT ![m] = Capped(@ + copies)]
  /\ Turn(p, [pass[p] EXCEPT !.todo = @ \ {m}])
  /\ UNCHANGED <<silent, chat, row, missed, overlapped, faults>>

\* send_message of the next message; the pass ends at the first that fails.
Send(p, m, ok, copies) ==
  /\ At(p, "send")
  /\ IsNext(p, m)
  /\ ok => copies >= 1 /\ m \notin refused
  /\ m \in refused => copies = 0
  /\ ~Ambiguous => copies = IF ok THEN 1 ELSE 0
  /\ told' = [told EXCEPT ![m] = Capped(@ + copies)]
  /\ IF ok THEN Turn(p, [pass[p] EXCEPT !.todo = @ \ {m}])
           ELSE Turn(p, [pass[p] EXCEPT !.step = "save", !.todo = {},
                                        !.upto = KeepBefore(p, m)])
  /\ UNCHANGED <<silent, chat, row, missed, overlapped, faults>>

\* All have been sent.
Sent(p) ==
  /\ At(p, "send")
  /\ pass[p].todo = {}
  /\ Turn(p, [pass[p] EXCEPT !.step = "save"])
  /\ UNCHANGED <<silent, chat, row, history, overlapped, faults>>

\* A first pass that sent nothing remembers the chat all the same.
Bootstraps(p) == pass[p].first /\ (silent \/ pass[p].lo = 0)

\* ggsel_chat_set_last_msg_id: whatever the row says by now. The messages of
\* a silent bootstrap are passed over here.
Save(p) ==
  /\ At(p, "save")
  /\ IF Bootstraps(p) \/ pass[p].upto > pass[p].read
     THEN known' = TRUE /\ last' = pass[p].upto
     ELSE UNCHANGED row
  /\ missed' = IF Bootstraps(p)
               THEN missed \cup {m \in buyer \ deleted : m <= pass[p].upto}
               ELSE missed
  /\ Rest(p)
  /\ UNCHANGED <<silent, chat, told, overlapped, faults>>

\* The process is killed or cancelled, or a statement raises; a message on its
\* way may have arrived.
Die(p) ==
  /\ faults < MaxFaults
  /\ faults' = faults + 1
  /\ UnderWay(p)
  /\ Rest(p)
  /\ \/ UNCHANGED told
     \/ /\ At(p, "send")
        /\ \E m \in pass[p].todo \ refused :
             IsNext(p, m) /\ told' = [told EXCEPT ![m] = Capped(@ + 1)]
  /\ UNCHANGED <<silent, chat, row, missed, overlapped>>

Forward(p) ==
  \/ Read(p)
  \/ Fetch(p)
  \/ FetchEmpty(p)
  \/ FetchFails(p)
  \/ \E m \in Ids, ok \in BOOLEAN, copies \in 0..2 : Send(p, m, ok, copies)
  \/ Sent(p)
  \/ Save(p)

Next ==
  \/ \E kind \in {"seller", "buyer", "refused"} : Write(kind)
  \/ \E m \in Ids : Delete(m)
  \/ GrowStale
  \/ \E p \in Pollers : Forward(p) \/ Die(p)

Spec == Init /\ [][Next]_vars

-----------------------------------------------------------------------------
\* Safety

Accounted(m) == told[m] > 0 \/ m \in deleted \/ m \in missed

\* last_msg_id passes no message of the buyer that has not reached Telegram,
\* except deleted ones, those off the page and a swallowed history, whatever
\* fails or dies and however many pollers there are (new_last in
\* _process_chat).
NothingPassedOver == \A m \in buyer : m <= last => Accounted(m)

\* No message reaches Telegram before an older one of the buyer.
NoneOvertaken ==
  \A m \in Ids, k \in buyer : told[m] > 0 /\ k < m => Accounted(k)

\* With one poller at a time and a Telegram that acknowledges what it delivers
\* a message arrives once, and once more for every pass that died.
OnceEach == ~overlapped /\ ~Ambiguous => \A m \in Ids : told[m] <= 1 + faults

\* What a pass takes the chat past without sending has not been sent before,
\* and is not sent later: a silent bootstrap keeps the history silent.
MissedIsUntold ==
  ~overlapped /\ ~Ambiguous /\ faults = 0 => \A m \in missed : told[m] = 0

\* What is behind last_msg_id stays behind it: the row never goes back, and no
\* message up to it is sent (again), by any pass that runs alone, whatever
\* failed or died before (new_last and ggsel_chat_set_last_msg_id).
MarkMovesOn ==
  [][~overlapped' => /\ last' >= last
                     /\ \A m \in Ids : told'[m] # told[m] => m > last]_vars
=============================================================================
