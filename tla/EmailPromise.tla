----------------------------- MODULE EmailPromise -----------------------------
(***************************************************************************)
(* What the notification e-mails promise, with no word about dispatchers,  *)
(* locks or clocks: a queued message is settled once and for all; it is    *)
(* `sent' only if the provider accepted it at least once, and `failed'     *)
(* only after all its tries, or because it has no e-mail to send.          *)
(***************************************************************************)
EXTENDS Naturals

CONSTANTS Deliveries, Mailable, MaxAttempts

VARIABLES outcome,      \* absent, pending, sent or failed
          tries,        \* tries recorded
          accepted      \* the deliveries the provider accepted at least once

promise == <<outcome, tries, accepted>>

PInit == /\ outcome = [d \in Deliveries |-> "absent"]
         /\ tries = [d \in Deliveries |-> 0]
         /\ accepted = {}

Ask(d) == /\ outcome[d] = "absent"
          /\ outcome' = [outcome EXCEPT ![d] = "pending"]
          /\ UNCHANGED <<tries, accepted>>

\* The provider accepts a copy; it may be one too many.
Accept(d) == /\ outcome[d] # "absent" /\ d \in Mailable
             /\ accepted' = accepted \cup {d}
             /\ UNCHANGED <<outcome, tries>>

\* A try is recorded, and more are left.
TryAgain(d) == /\ outcome[d] = "pending" /\ tries[d] + 1 < MaxAttempts
               /\ tries' = [tries EXCEPT ![d] = @ + 1]
               /\ UNCHANGED <<outcome, accepted>>

Succeed(d) == /\ outcome[d] = "pending" /\ d \in accepted
              /\ outcome' = [outcome EXCEPT ![d] = "sent"]
              /\ tries' = [tries EXCEPT ![d] = @ + 1]
              /\ UNCHANGED accepted

GiveUp(d) == /\ outcome[d] = "pending" /\ tries[d] + 1 = MaxAttempts
             /\ outcome' = [outcome EXCEPT ![d] = "failed"]
             /\ tries' = [tries EXCEPT ![d] = @ + 1]
             /\ UNCHANGED accepted

Discard(d) == /\ outcome[d] = "pending" /\ d \notin Mailable
              /\ outcome' = [outcome EXCEPT ![d] = "failed"]
              /\ UNCHANGED <<tries, accepted>>

PNext == \E d \in Deliveries : \/ Ask(d) \/ Accept(d) \/ TryAgain(d)
                               \/ Succeed(d) \/ GiveUp(d) \/ Discard(d)

PSpec == PInit /\ [][PNext]_promise
===============================================================================
