-------------------------- MODULE TelegramContract --------------------------
(***************************************************************************)
(* What send_message promises to those who call it: how its answer and the *)
(* copies in the channel belong together.  OrderStatus!Send and            *)
(* ChatPoller!Send take a whole call as one step under this promise.       *)
(***************************************************************************)
EXTENDS Naturals

CONSTANT Sends  \* calls of send_message

VARIABLES
  ambiguous,  \* may Telegram deliver what it does not acknowledge?
  refused,    \* those whose message Telegram will never take
  verdict,    \* what each call has returned: "open", "true" or "false"
  arrived     \* copies that each call has brought to the channel

Init ==
  /\ ambiguous \in BOOLEAN
  /\ refused \in SUBSET Sends
  /\ verdict = [s \in Sends |-> "open"]
  /\ arrived = [s \in Sends |-> 0]

\* A call returns ok, and has brought so many copies.
Return(s, ok, copies) ==
  /\ verdict[s] = "open"
  /\ ok => copies >= 1 /\ s \notin refused
  /\ s \in refused => copies = 0
  /\ ~ambiguous => copies = IF ok THEN 1 ELSE 0
  /\ verdict' = [verdict EXCEPT ![s] = IF ok THEN "true" ELSE "false"]
  /\ arrived' = [arrived EXCEPT ![s] = copies]
  /\ UNCHANGED <<ambiguous, refused>>

\* Nothing bounds the copies but the call itself.
Next == \E s \in Sends, ok \in BOOLEAN :
  arrived'[s] \in Nat /\ Return(s, ok, arrived'[s])

Spec == Init /\ [][Next]_<<ambiguous, refused, verdict, arrived>>
=============================================================================
