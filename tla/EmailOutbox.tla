------------------------------ MODULE EmailOutbox ------------------------------
(***************************************************************************)
(* The outbox of notification e-mails: email_delivery rows written with    *)
(* their notification, and the dispatchers that claim a due row with       *)
(* SELECT ... FOR UPDATE SKIP LOCKED, send it, and commit row by row.      *)
(*                                                                         *)
(* The row lock is held while the provider is called.  A dispatcher whose  *)
(* connection drops loses its lock at once and learns of it only when it   *)
(* next talks to the database.  Time is relative: a row carries the        *)
(* minutes left until its next attempt, a claim the minutes it has lasted. *)
(***************************************************************************)
EXTENDS Integers, FiniteSets

CONSTANTS Deliveries,
          Mailable,      \* deliveries whose notification type has an e-mail
          Dispatchers,
          MaxAttempts,   \* EMAIL_MAX_ATTEMPTS
          BatchSize,     \* messages one round may attempt
          LongestDelay,  \* the cap of the retry delay, in minutes
          MaxLate,       \* bound: minutes a row or a claim may be overdue
          MaxFaults,     \* bound: failures and lost connections
          None

ASSUME MailableAssumption == Mailable \subseteq Deliveries
ASSUME LimitsAssumption == /\ MaxAttempts \in Nat \ {0} /\ BatchSize \in Nat \ {0}
                           /\ LongestDelay \in Nat \ {0}
                           /\ MaxLate \in Nat /\ MaxFaults \in Nat
ASSUME PowersAssumption == \A k \in 1..MaxAttempts : 2^(k - 1) \in Nat \ {0}
ASSUME NobodyAssumption == None \notin Dispatchers

VARIABLES delivery,     \* each row: its status, attempts and minutes until due
          lock,         \* the dispatcher that holds each row's lock
          dispatcher,   \* what each dispatcher is doing
          accepted,     \* history: deliveries the provider accepted a copy of
          sends,        \* history: calls of the provider for each delivery
          lost,         \* history: calls whose result was never recorded
          faults        \* history: failures and lost connections so far

history == <<accepted, sends, lost>>
vars == <<delivery, lock, dispatcher, history, faults>>

Statuses == {"absent", "pending", "sent", "failed"}
Settled(d) == delivery[d].status \in {"sent", "failed"}

\* Wait before the next try: 1, 2, 4 ... minutes, up to the longest delay.
RetryDelay(failures) ==
    IF 2^(failures - 1) < LongestDelay THEN 2^(failures - 1) ELSE LongestDelay

\* Mutant of GivesUp: one try too many.
GivesUpLate(failures) == failures > MaxAttempts

GivesUp(failures) == failures >= MaxAttempts

Resting == [pc |-> "rest"]
Claims == [pc : {"claim"}, done : 0..BatchSize]
Sends == [pc : {"send"}, done : 0..(BatchSize - 1), of : Deliveries, late : 0..MaxLate]
Results == [pc : {"commit"}, done : 0..(BatchSize - 1), of : Deliveries,
            late : 0..MaxLate, result : {"accepted", "refused", "unsupported"}]
InFlight(w) == dispatcher[w].pc \in {"send", "commit"}

TypeOK ==
    /\ delivery \in [Deliveries -> [status : Statuses, attempts : 0..MaxAttempts,
                                    due : (-MaxLate)..LongestDelay]]
    /\ lock \in [Deliveries -> Dispatchers \cup {None}]
    /\ dispatcher \in [Dispatchers -> {Resting} \cup Claims \cup Sends \cup Results]
    /\ accepted \subseteq Deliveries
    /\ sends \in [Deliveries -> Nat]
    /\ lost \in [Deliveries -> Nat]
    /\ faults \in 0..MaxFaults

Init ==
    /\ delivery = [d \in Deliveries |-> [status |-> "absent", attempts |-> 0, due |-> 0]]
    /\ lock = [d \in Deliveries |-> None]
    /\ dispatcher = [w \in Dispatchers |-> Resting]
    /\ accepted = {}
    /\ sends = [d \in Deliveries |-> 0]
    /\ lost = [d \in Deliveries |-> 0]
    /\ faults = 0

-------------------------------------------------------------------------------
\* A business transaction commits a notification together with its e-mail.
Queue(d) ==
    /\ delivery[d].status = "absent"
    /\ delivery' = [delivery EXCEPT ![d] =
                       [status |-> "pending", attempts |-> 0, due |-> 0]]
    /\ UNCHANGED <<lock, dispatcher, history, faults>>

-------------------------------------------------------------------------------
\* A dispatcher's round.

StartRound(w) ==
    /\ dispatcher[w] = Resting
    /\ dispatcher' = [dispatcher EXCEPT ![w] = [pc |-> "claim", done |-> 0]]
    /\ UNCHANGED <<delivery, lock, history, faults>>

\* Mutants of Claimable: no SKIP LOCKED; no filter on the status.
ClaimableOrLocked == {d \in Deliveries : delivery[d].status = "pending"
                                         /\ delivery[d].due <= 0}
ClaimableOrSent == {d \in Deliveries : /\ delivery[d].status \in {"pending", "sent"}
                                       /\ delivery[d].due <= 0 /\ lock[d] = None}

Claimable == {d \in Deliveries : /\ delivery[d].status = "pending"
                                 /\ delivery[d].due <= 0
                                 /\ lock[d] = None}

\* The free row that has been due longest is locked; a type without e-mail is
\* settled without a call.
Claim(w) ==
    /\ dispatcher[w].pc = "claim" /\ dispatcher[w].done < BatchSize
    /\ \E d \in Claimable :
       /\ \A e \in Claimable : delivery[d].due <= delivery[e].due
       /\ lock' = [lock EXCEPT ![d] = w]
       /\ \/ /\ d \in Mailable
             /\ dispatcher' = [dispatcher EXCEPT ![w] =
                   [pc |-> "send", done |-> @.done, of |-> d, late |-> 0]]
          \/ /\ d \notin Mailable
             /\ dispatcher' = [dispatcher EXCEPT ![w] =
                   [pc |-> "commit", done |-> @.done, of |-> d, late |-> 0,
                    result |-> "unsupported"]]
    /\ UNCHANGED <<delivery, history, faults>>

\* The round is over: the batch is full or nothing is due and free.
EndRound(w) ==
    /\ dispatcher[w].pc = "claim"
    /\ dispatcher[w].done = BatchSize \/ Claimable = {}
    /\ dispatcher' = [dispatcher EXCEPT ![w] = Resting]
    /\ UNCHANGED <<delivery, lock, history, faults>>

\* The provider is called.  An error is no proof that it refused the message: a
\* read timeout leaves the message accepted and the answer lost.
Send(w) ==
    /\ dispatcher[w].pc = "send"
    /\ LET q == dispatcher[w] IN \E result \in {"accepted", "refused"} :
       /\ dispatcher' = [dispatcher EXCEPT ![w] =
             [pc |-> "commit", done |-> q.done, of |-> q.of, late |-> q.late,
              result |-> result]]
       /\ sends' = [sends EXCEPT ![q.of] = @ + 1]
       /\ \/ accepted' = accepted \cup {q.of}
          \/ result = "refused" /\ UNCHANGED accepted
    /\ UNCHANGED <<delivery, lock, lost, faults>>

\* Mutants of Recorded: the handler of a refusal falls through to the success;
\* only a success counts as an attempt.
RecordedFallingThrough(row, q) ==
    IF q.result = "unsupported" THEN [row EXCEPT !.status = "failed"]
    ELSE [status |-> "sent", attempts |-> row.attempts + 1, due |-> row.due]
RecordedOnSuccess(row, q) ==
    CASE q.result = "unsupported" -> [row EXCEPT !.status = "failed"]
      [] q.result = "accepted" ->
            [status |-> "sent", attempts |-> row.attempts + 1, due |-> row.due]
      [] OTHER -> [row EXCEPT !.due = 1 - q.late]

\* The row after an attempt.  The wait is counted from the claim.
Recorded(row, q) ==
    LET attempts == row.attempts + 1
        wait == RetryDelay(attempts) - q.late
    IN CASE q.result = "unsupported" ->
               [status |-> "failed", attempts |-> row.attempts, due |-> row.due]
         [] q.result = "accepted" ->
               [status |-> "sent", attempts |-> attempts, due |-> row.due]
         [] q.result = "refused" /\ GivesUp(attempts) ->
               [status |-> "failed", attempts |-> attempts, due |-> row.due]
         [] OTHER -> [status |-> "pending", attempts |-> attempts, due |-> wait]

Record(w) ==
    /\ dispatcher[w].pc = "commit"
    /\ lock[dispatcher[w].of] = w
    /\ delivery' = [delivery EXCEPT ![dispatcher[w].of] = Recorded(@, dispatcher[w])]
    /\ lock' = [lock EXCEPT ![dispatcher[w].of] = None]
    /\ UNCHANGED history

Commit(w) ==
    /\ Record(w)
    /\ dispatcher' = [dispatcher EXCEPT ![w] =
                         [pc |-> "claim", done |-> @.done + 1]]
    /\ UNCHANGED faults

-------------------------------------------------------------------------------
\* Failures and time.

Fault == faults < MaxFaults /\ faults' = faults + 1

\* Mutant of RollBack: the exception leaves the transaction open.
RollBackHoldingLock(w) ==
    /\ dispatcher' = [dispatcher EXCEPT ![w] = Resting]
    /\ UNCHANGED <<delivery, lock, history>>

\* The round ends; what was claimed is free again, and a call already made is
\* not recorded.
RollBack(w) ==
    /\ dispatcher' = [dispatcher EXCEPT ![w] = Resting]
    /\ lock' = [d \in Deliveries |-> IF lock[d] = w THEN None ELSE lock[d]]
    /\ LET called == dispatcher[w].pc = "commit" /\ dispatcher[w].result # "unsupported"
       IN lost' = [d \in Deliveries |->
                     IF called /\ d = dispatcher[w].of THEN lost[d] + 1 ELSE lost[d]]
    /\ UNCHANGED <<delivery, accepted, sends>>

\* Any other exception, or the death of the process.
Interrupt(w) == dispatcher[w] # Resting /\ Fault /\ RollBack(w)

\* The commit is applied but its answer is lost, so the round ends.
CommitUnanswered(w) ==
    /\ Fault
    /\ Record(w)
    /\ dispatcher' = [dispatcher EXCEPT ![w] = Resting]

\* The database drops the connection of a dispatcher that is sending.
Disconnect(w) ==
    /\ Fault
    /\ \E d \in Deliveries : lock[d] = w /\ lock' = [lock EXCEPT ![d] = None]
    /\ UNCHANGED <<delivery, dispatcher, history>>

\* It finds out when it commits.
FailCommit(w) ==
    /\ dispatcher[w].pc = "commit"
    /\ lock[dispatcher[w].of] # w
    /\ RollBack(w)
    /\ UNCHANGED faults

\* A minute passes.
Tick ==
    /\ \A d \in Deliveries : delivery[d].status = "pending" => delivery[d].due > -MaxLate
    /\ \A w \in Dispatchers : InFlight(w) => dispatcher[w].late < MaxLate
    /\ delivery' = [d \in Deliveries |->
          IF delivery[d].status # "pending" THEN delivery[d]
          ELSE [delivery[d] EXCEPT !.due = @ - 1]]
    /\ dispatcher' = [w \in Dispatchers |->
          IF InFlight(w) THEN [dispatcher[w] EXCEPT !.late = @ + 1] ELSE dispatcher[w]]
    /\ UNCHANGED <<lock, history, faults>>

Work(w) == \/ StartRound(w) \/ Claim(w) \/ EndRound(w)
           \/ Send(w) \/ Commit(w) \/ FailCommit(w)

Next ==
    \/ \E d \in Deliveries : Queue(d)
    \/ \E w \in Dispatchers : \/ Work(w) \/ Interrupt(w)
                              \/ CommitUnanswered(w) \/ Disconnect(w)
    \/ Tick

Spec == Init /\ [][Next]_vars

\* The dispatcher threads loop for ever, and time goes on.
FairSpec == Spec /\ WF_vars(Tick) /\ \A w \in Dispatchers : WF_vars(Work(w))

-------------------------------------------------------------------------------
\* Properties.

ClaimHolds(w) ==
    LET q == dispatcher[w] IN
    /\ \A d \in Deliveries : lock[d] = w => InFlight(w) /\ q.of = d
    /\ InFlight(w) => delivery[q.of].status # "absent"
    /\ InFlight(w) /\ lock[q.of] = w => delivery[q.of].status = "pending"
    /\ InFlight(w) /\ lock[q.of] # w => faults > 0
    /\ q.pc = "send" => q.of \in Mailable
    /\ q.pc = "commit" => /\ q.result = "unsupported" <=> q.of \notin Mailable
                          /\ q.result = "accepted" => q.of \in accepted

\* Until its connection drops, a dispatcher holds exactly the row it claimed, and
\* the row stays pending, with tries left, from the claim to the commit.
ClaimsHold ==
    /\ \A w \in Dispatchers : ClaimHolds(w)
    /\ \A d \in Deliveries :
          /\ delivery[d].status = "pending" => delivery[d].attempts < MaxAttempts
          /\ delivery[d].status = "absent" => delivery[d].attempts = 0

\* Without a failure two dispatchers never work on the same delivery
\* (dispatch_pending_emails.py:32, "a second dispatcher never sends the same row").
OneSenderAtATime ==
    \A v, w \in Dispatchers :
       v # w /\ InFlight(v) /\ InFlight(w) /\ dispatcher[v].of = dispatcher[w].of
          => faults > 0

\* Every call of the provider is a recorded attempt, is about to be recorded, or
\* was interrupted between the call and the commit; what was interrupted is at
\* most one call per failure (docs/NOTIFICATIONS.md: a crash can repeat that one
\* message).
EveryCallIsAccounted ==
    \A d \in Deliveries :
       LET waiting == {w \in Dispatchers : /\ dispatcher[w].pc = "commit"
                                           /\ dispatcher[w].of = d
                                           /\ dispatcher[w].result # "unsupported"}
       IN /\ sends[d] = delivery[d].attempts + lost[d] + Cardinality(waiting)
          /\ lost[d] <= faults

\* A delivery that is settled is never sent again, except by a dispatcher that
\* lost its connection after claiming it.
SettledIsNotSent ==
    [][\A d \in Deliveries : Settled(d) /\ sends'[d] # sends[d] =>
          \E w \in Dispatchers : /\ dispatcher[w].pc = "send" /\ dispatcher[w].of = d
                                 /\ lock[d] # w]_vars

Promise == INSTANCE EmailPromise WITH
    outcome <- [d \in Deliveries |-> delivery[d].status],
    tries <- [d \in Deliveries |-> delivery[d].attempts]

\* The dispatchers keep the promise of the e-mails: sent only if accepted, failed
\* only after every try, settled for good, whatever fails in between.
KeepsPromise == Promise!PSpec

\* Every e-mail queued is settled in the end: no row is starved by others, left
\* locked or retried for ever.
EveryDeliverySettles ==
    \A d \in Deliveries : delivery[d].status = "pending" ~> Settled(d)

\* email_sender.py:5: EmailSendError says "the provider did not accept the message",
\* so a delivery that failed was accepted by nobody.
FailedWasNotAccepted ==
    \A d \in Deliveries : delivery[d].status = "failed" => d \notin accepted
===============================================================================
