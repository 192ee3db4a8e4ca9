-------------------------- MODULE EmailOutboxProofs --------------------------
(***************************************************************************)
(* Proofs about EmailOutbox, for any number of deliveries and dispatchers, *)
(* any retry limits and any number of failures.                            *)
(***************************************************************************)
EXTENDS EmailOutbox, FiniteSetTheorems, TLAPS

LEMMA InitialType == Init => TypeOK
  BY LimitsAssumption DEF Init, TypeOK, Statuses

\* The shape of a dispatcher follows from its program counter.
LEMMA DispatcherShape ==
    ASSUME TypeOK, NEW w \in Dispatchers
    PROVE  /\ dispatcher[w].pc = "rest" => dispatcher[w] = Resting
           /\ dispatcher[w].pc = "claim" => dispatcher[w] \in Claims
           /\ dispatcher[w].pc = "send" => dispatcher[w] \in Sends
           /\ dispatcher[w].pc = "commit" => dispatcher[w] \in Results
           /\ InFlight(w) => dispatcher[w].of \in Deliveries /\ dispatcher[w].late \in 0..MaxLate
           /\ dispatcher[w].pc \in {"rest", "claim", "send", "commit"}
  BY DEF TypeOK, Resting, Claims, Sends, Results, InFlight

LEMMA DelayType ==
    ASSUME NEW k \in 1..MaxAttempts
    PROVE  RetryDelay(k) \in 1..LongestDelay
  BY PowersAssumption, LimitsAssumption DEF RetryDelay

\* What is recorded about a pending row with tries left is a well-typed row.
LEMMA RecordedType ==
    ASSUME TypeOK, NEW d \in Deliveries, NEW q \in Results,
           delivery[d].attempts < MaxAttempts
    PROVE  Recorded(delivery[d], q) \in
              [status : Statuses, attempts : 0..MaxAttempts, due : (-MaxLate)..LongestDelay]
<1>. DEFINE row == delivery[d]
            attempts == row.attempts + 1
            wait == RetryDelay(attempts) - q.late
<1>1. /\ row.attempts \in 0..MaxAttempts /\ row.due \in (-MaxLate)..LongestDelay
      /\ q.late \in 0..MaxLate
  BY DEF TypeOK, Results
<1>2. attempts \in 1..MaxAttempts
  BY <1>1, LimitsAssumption
<1>3. wait \in (-MaxLate)..LongestDelay
  BY <1>1, <1>2, DelayType, LimitsAssumption
<1>. HIDE DEF wait
<1>4. Recorded(row, q) \in
         {[status |-> "failed", attempts |-> row.attempts, due |-> row.due],
          [status |-> "sent", attempts |-> attempts, due |-> row.due],
          [status |-> "failed", attempts |-> attempts, due |-> row.due],
          [status |-> "pending", attempts |-> attempts, due |-> wait]}
  BY DEF Recorded, wait, Results
<1>5. attempts \in 0..MaxAttempts
  BY <1>2
<1>. QED
  BY <1>1, <1>3, <1>4, <1>5 DEF Statuses

LEMMA RollBackType ==
    ASSUME TypeOK, NEW w \in Dispatchers, RollBack(w)
    PROVE  /\ delivery' \in [Deliveries -> [status : Statuses, attempts : 0..MaxAttempts,
                                            due : (-MaxLate)..LongestDelay]]
           /\ lock' \in [Deliveries -> Dispatchers \cup {None}]
           /\ dispatcher' \in [Dispatchers -> {Resting} \cup Claims \cup Sends \cup Results]
           /\ accepted' \subseteq Deliveries
           /\ sends' \in [Deliveries -> Nat]
           /\ lost' \in [Deliveries -> Nat]
<1>1. lost' \in [Deliveries -> Nat]
  <2>1. \A d \in Deliveries : lost[d] \in Nat /\ lost[d] + 1 \in Nat
    BY DEF TypeOK
  <2>. QED
    BY <2>1 DEF RollBack
<1>. QED
  BY <1>1 DEF TypeOK, RollBack

LEMMA FaultType ==
    ASSUME TypeOK, Fault
    PROVE  faults' \in 0..MaxFaults
  BY LimitsAssumption DEF TypeOK, Fault

LEMMA RecordType ==
    ASSUME TypeOK, ClaimsHold, NEW w \in Dispatchers, Record(w)
    PROVE  /\ delivery' \in [Deliveries -> [status : Statuses, attempts : 0..MaxAttempts,
                                            due : (-MaxLate)..LongestDelay]]
           /\ lock' \in [Deliveries -> Dispatchers \cup {None}]
           /\ accepted' \subseteq Deliveries
           /\ sends' \in [Deliveries -> Nat]
           /\ lost' \in [Deliveries -> Nat]
<1>. DEFINE d == dispatcher[w].of
<1>1. dispatcher[w] \in Results /\ d \in Deliveries /\ InFlight(w) /\ lock[d] = w
  BY DispatcherShape DEF Record, InFlight
<1>2. delivery[d].attempts < MaxAttempts
  BY <1>1 DEF ClaimsHold, ClaimHolds
<1>3. Recorded(delivery[d], dispatcher[w]) \in
         [status : Statuses, attempts : 0..MaxAttempts, due : (-MaxLate)..LongestDelay]
  BY <1>1, <1>2, RecordedType
<1>. QED
  BY <1>1, <1>3 DEF TypeOK, Record, history

LEMMA TickType ==
    ASSUME TypeOK, Tick
    PROVE  TypeOK'
<1>1. delivery' \in [Deliveries -> [status : Statuses, attempts : 0..MaxAttempts,
                                    due : (-MaxLate)..LongestDelay]]
  <2>. SUFFICES ASSUME NEW d \in Deliveries
                PROVE  delivery'[d] \in [status : Statuses, attempts : 0..MaxAttempts,
                                         due : (-MaxLate)..LongestDelay]
    BY DEF Tick
  <2>1. delivery[d] \in [status : Statuses, attempts : 0..MaxAttempts,
                         due : (-MaxLate)..LongestDelay]
    BY DEF TypeOK
  <2>2. CASE delivery[d].status # "pending"
    BY <2>1, <2>2 DEF Tick
  <2>3. CASE delivery[d].status = "pending"
    <3>1. delivery[d].due - 1 \in (-MaxLate)..LongestDelay
      BY <2>1, <2>3, LimitsAssumption DEF Tick
    <3>2. delivery'[d] = [delivery[d] EXCEPT !.due = delivery[d].due - 1]
      BY <2>3 DEF Tick
    <3>. QED
      BY <2>1, <3>1, <3>2
  <2>. QED
    BY <2>2, <2>3
<1>2. dispatcher' \in [Dispatchers -> {Resting} \cup Claims \cup Sends \cup Results]
  <2>. SUFFICES ASSUME NEW w \in Dispatchers
                PROVE  dispatcher'[w] \in {Resting} \cup Claims \cup Sends \cup Results
    BY DEF Tick
  <2>1. CASE ~InFlight(w)
    BY <2>1 DEF Tick, TypeOK
  <2>2. CASE InFlight(w)
    <3>1. dispatcher[w].late + 1 \in 0..MaxLate
      BY <2>2, DispatcherShape, LimitsAssumption DEF Tick
    <3>2. dispatcher'[w] = [dispatcher[w] EXCEPT !.late = dispatcher[w].late + 1]
      BY <2>2 DEF Tick
    <3>3. dispatcher[w] \in Sends \cup Results
      BY <2>2, DispatcherShape DEF InFlight
    <3>4. CASE dispatcher[w] \in Sends
      BY <3>1, <3>2, <3>4 DEF Sends
    <3>5. CASE dispatcher[w] \in Results
      BY <3>1, <3>2, <3>5 DEF Results
    <3>. QED
      BY <3>3, <3>4, <3>5
  <2>. QED
    BY <2>1, <2>2
<1>. QED
  BY <1>1, <1>2 DEF TypeOK, Tick, history

LEMMA WorkType ==
    ASSUME TypeOK, ClaimsHold, NEW w \in Dispatchers, Work(w)
    PROVE  TypeOK'
<1>1. CASE StartRound(w)
  <2>1. [pc |-> "claim", done |-> 0] \in Claims
    BY LimitsAssumption DEF Claims
  <2>. QED
    BY <1>1, <2>1 DEF StartRound, TypeOK, history
<1>2. CASE Claim(w)
  <2>1. dispatcher[w] \in Claims
    BY <1>2, DispatcherShape DEF Claim
  <2>2. PICK d \in Deliveries :
           /\ lock' = [lock EXCEPT ![d] = w]
           /\ \/ dispatcher' = [dispatcher EXCEPT ![w] =
                    [pc |-> "send", done |-> @.done, of |-> d, late |-> 0]]
              \/ dispatcher' = [dispatcher EXCEPT ![w] =
                    [pc |-> "commit", done |-> @.done, of |-> d, late |-> 0,
                     result |-> "unsupported"]]
    BY <1>2 DEF Claim, Claimable
  <2>3. /\ [pc |-> "send", done |-> dispatcher[w].done, of |-> d, late |-> 0] \in Sends
        /\ [pc |-> "commit", done |-> dispatcher[w].done, of |-> d, late |-> 0,
            result |-> "unsupported"] \in Results
    <3>1. dispatcher[w].done \in 0..(BatchSize - 1)
      BY <1>2, <2>1, LimitsAssumption DEF Claim, Claims
    <3>. QED
      BY <3>1, LimitsAssumption DEF Sends, Results
  <2>4. dispatcher' \in [Dispatchers -> {Resting} \cup Claims \cup Sends \cup Results]
    BY <2>2, <2>3 DEF TypeOK
  <2>5. lock' \in [Deliveries -> Dispatchers \cup {None}]
    BY <2>2 DEF TypeOK
  <2>. QED
    BY <1>2, <2>4, <2>5 DEF Claim, TypeOK, history
<1>3. CASE EndRound(w)
  BY <1>3 DEF EndRound, TypeOK, history
<1>4. CASE Send(w)
  <2>1. dispatcher[w] \in Sends
    BY <1>4, DispatcherShape DEF Send
  <2>2. PICK result \in {"accepted", "refused"} :
           /\ dispatcher' = [dispatcher EXCEPT ![w] =
                 [pc |-> "commit", done |-> dispatcher[w].done, of |-> dispatcher[w].of,
                  late |-> dispatcher[w].late, result |-> result]]
           /\ sends' = [sends EXCEPT ![dispatcher[w].of] = @ + 1]
           /\ accepted' = accepted \cup {dispatcher[w].of} \/ UNCHANGED accepted
    BY <1>4 DEF Send
  <2>3. [pc |-> "commit", done |-> dispatcher[w].done, of |-> dispatcher[w].of,
         late |-> dispatcher[w].late, result |-> result] \in Results
    BY <2>1 DEF Sends, Results
  <2>4. dispatcher' \in [Dispatchers -> {Resting} \cup Claims \cup Sends \cup Results]
    BY <2>2, <2>3 DEF TypeOK
  <2>5. sends' \in [Deliveries -> Nat] /\ accepted' \subseteq Deliveries
    BY <2>1, <2>2 DEF TypeOK, Sends
  <2>. QED
    BY <1>4, <2>4, <2>5 DEF Send, TypeOK
<1>5. CASE Commit(w)
  <2>1. dispatcher[w] \in Results
    BY <1>5, DispatcherShape DEF Commit, Record
  <2>2. [pc |-> "claim", done |-> dispatcher[w].done + 1] \in Claims
    BY <2>1, LimitsAssumption DEF Results, Claims
  <2>3. dispatcher' \in [Dispatchers -> {Resting} \cup Claims \cup Sends \cup Results]
    BY <1>5, <2>2 DEF Commit, TypeOK
  <2>. QED
    BY <1>5, <2>3, RecordType DEF Commit, TypeOK
<1>6. CASE FailCommit(w)
  BY <1>6, RollBackType DEF FailCommit, TypeOK
<1>. QED
  BY <1>1, <1>2, <1>3, <1>4, <1>5, <1>6 DEF Work

LEMMA NextType == TypeOK /\ ClaimsHold /\ [Next]_vars => TypeOK'
<1>. SUFFICES ASSUME TypeOK, ClaimsHold, [Next]_vars
              PROVE  TypeOK'
  OBVIOUS
<1>1. ASSUME NEW d \in Deliveries, Queue(d)
      PROVE  TypeOK'
  BY <1>1, LimitsAssumption DEF Queue, TypeOK, Statuses, history
<1>2. ASSUME NEW w \in Dispatchers, Interrupt(w)
      PROVE  TypeOK'
  BY <1>2, RollBackType, FaultType DEF Interrupt, TypeOK
<1>3. ASSUME NEW w \in Dispatchers, CommitUnanswered(w)
      PROVE  TypeOK'
  BY <1>3, RecordType, FaultType DEF CommitUnanswered, TypeOK
<1>4. ASSUME NEW w \in Dispatchers, Disconnect(w)
      PROVE  TypeOK'
  BY <1>4, FaultType DEF Disconnect, TypeOK, history
<1>5. CASE UNCHANGED vars
  BY <1>5 DEF TypeOK, vars, history
<1>. QED
  BY <1>1, <1>2, <1>3, <1>4, <1>5, WorkType, TickType DEF Next

-------------------------------------------------------------------------------
\* The claims.

LEMMA InitialClaims == Init => ClaimsHold
  BY NobodyAssumption, LimitsAssumption
     DEF Init, ClaimsHold, ClaimHolds, Resting, InFlight

\* A dispatcher's claim survives a step that leaves it, its lock and the status of
\* the row it holds alone.
LEMMA UndisturbedClaim ==
    ASSUME TypeOK, ClaimsHold, NEW v \in Dispatchers,
           dispatcher'[v] = dispatcher[v],
           \A d \in Deliveries : lock'[d] = v <=> lock[d] = v,
           \A d \in Deliveries : lock[d] = v => delivery'[d].status = delivery[d].status,
           \A d \in Deliveries : delivery[d].status # "absent" =>
                                    delivery'[d].status # "absent",
           faults > 0 => faults' > 0,
           accepted \subseteq accepted'
    PROVE  ClaimHolds(v)'
<1>1. InFlight(v)' <=> InFlight(v)
  BY DEF InFlight
<1>2. InFlight(v) => dispatcher[v].of \in Deliveries
  BY DispatcherShape
<1>3. ClaimHolds(v)
  BY DEF ClaimsHold
<1>4. dispatcher[v].pc = "commit" => InFlight(v)
  BY DEF InFlight
<1>. QED
  BY <1>1, <1>2, <1>3, <1>4 DEF ClaimHolds

LEMMA RecordedTries ==
    ASSUME TypeOK, NEW d \in Deliveries, NEW q \in Results,
           delivery[d].status = "pending", delivery[d].attempts < MaxAttempts
    PROVE  /\ Recorded(delivery[d], q).status = "pending" =>
                 Recorded(delivery[d], q).attempts < MaxAttempts
           /\ Recorded(delivery[d], q).status # "absent"
<1>1. delivery[d].attempts \in 0..MaxAttempts
  BY DEF TypeOK
<1>. QED
  BY <1>1, LimitsAssumption DEF Recorded, GivesUp, Results

\* Every pending row has a try left, and an absent one has used none.
Tries(d) == /\ delivery[d].status = "pending" => delivery[d].attempts < MaxAttempts
            /\ delivery[d].status = "absent" => delivery[d].attempts = 0

LEMMA RecordClaims ==
    ASSUME TypeOK, ClaimsHold, NEW w \in Dispatchers, Record(w),
           \A v \in Dispatchers \ {w} : dispatcher'[v] = dispatcher[v],
           dispatcher'[w].pc \in {"rest", "claim"},
           faults > 0 => faults' > 0
    PROVE  ClaimsHold'
<1>. DEFINE d == dispatcher[w].of
<1>1. dispatcher[w] \in Results /\ d \in Deliveries /\ InFlight(w) /\ lock[d] = w
  BY DispatcherShape DEF Record, InFlight
<1>2. delivery[d].status = "pending" /\ delivery[d].attempts < MaxAttempts
  BY <1>1 DEF ClaimsHold, ClaimHolds
<1>3. /\ delivery' = [delivery EXCEPT ![d] = Recorded(delivery[d], dispatcher[w])]
      /\ lock' = [lock EXCEPT ![d] = None] /\ accepted' = accepted
  BY DEF Record, history
<1>4. ASSUME NEW e \in Deliveries
      PROVE  Tries(e)'
  <2>1. CASE e = d
    BY <1>1, <1>2, <1>3, <2>1, RecordedTries DEF Tries, TypeOK
  <2>2. CASE e # d
    BY <1>3, <2>2 DEF Tries, TypeOK, ClaimsHold
  <2>. QED
    BY <2>1, <2>2
<1>5. ClaimHolds(w)'
  <2>1. \A e \in Deliveries : lock'[e] # w
    BY <1>1, <1>3, NobodyAssumption DEF TypeOK, ClaimsHold, ClaimHolds
  <2>. QED
    BY <2>1 DEF ClaimHolds, InFlight
<1>6. ASSUME NEW v \in Dispatchers, v # w
      PROVE  ClaimHolds(v)'
  <2>1. \A e \in Deliveries : lock'[e] = v <=> lock[e] = v
    BY <1>1, <1>3, <1>6, NobodyAssumption DEF TypeOK
  <2>2. \A e \in Deliveries : lock[e] = v => delivery'[e] = delivery[e]
    BY <1>1, <1>3, <1>6 DEF TypeOK
  <2>3. \A e \in Deliveries : delivery[e].status # "absent" =>
                                delivery'[e].status # "absent"
    BY <1>1, <1>2, <1>3, RecordedTries DEF TypeOK
  <2>. QED
    BY <1>3, <1>6, <2>1, <2>2, <2>3, UndisturbedClaim
<1>. QED
  BY <1>4, <1>5, <1>6 DEF ClaimsHold, Tries

LEMMA RollBackClaims ==
    ASSUME TypeOK, ClaimsHold, NEW w \in Dispatchers, RollBack(w),
           faults > 0 => faults' > 0
    PROVE  ClaimsHold'
<1>1. ClaimHolds(w)'
  BY NobodyAssumption DEF TypeOK, RollBack, ClaimHolds, InFlight, Resting
<1>2. ASSUME NEW v \in Dispatchers, v # w
      PROVE  ClaimHolds(v)'
  <2>1. \A e \in Deliveries : lock'[e] = v <=> lock[e] = v
    BY <1>2, NobodyAssumption DEF RollBack
  <2>. QED
    BY <1>2, <2>1, UndisturbedClaim DEF RollBack, TypeOK
<1>. QED
  BY <1>1, <1>2 DEF ClaimsHold, RollBack

LEMMA WorkClaims ==
    ASSUME TypeOK, ClaimsHold, NEW w \in Dispatchers, Work(w)
    PROVE  ClaimsHold'
<1>1. CASE StartRound(w) \/ EndRound(w)
  <2>1. dispatcher[w].pc \in {"rest", "claim"} /\ dispatcher'[w].pc \in {"rest", "claim"}
    BY <1>1 DEF StartRound, EndRound, Resting, TypeOK
  <2>2. ClaimHolds(w)'
    BY <1>1, <2>1 DEF ClaimsHold, ClaimHolds, InFlight, StartRound, EndRound
  <2>3. ASSUME NEW v \in Dispatchers, v # w
        PROVE  ClaimHolds(v)'
    BY <1>1, <2>3, UndisturbedClaim DEF StartRound, EndRound, TypeOK, history
  <2>. QED
    BY <1>1, <2>2, <2>3 DEF ClaimsHold, StartRound, EndRound
<1>2. CASE Claim(w)
  <2>1. PICK d \in Claimable :
           /\ lock' = [lock EXCEPT ![d] = w]
           /\ \/ /\ d \in Mailable
                 /\ dispatcher' = [dispatcher EXCEPT ![w] =
                       [pc |-> "send", done |-> @.done, of |-> d, late |-> 0]]
              \/ /\ d \notin Mailable
                 /\ dispatcher' = [dispatcher EXCEPT ![w] =
                       [pc |-> "commit", done |-> @.done, of |-> d, late |-> 0,
                        result |-> "unsupported"]]
    BY <1>2 DEF Claim
  <2>2. d \in Deliveries /\ delivery[d].status = "pending" /\ lock[d] = None
    BY DEF Claimable
  <2>3. ClaimHolds(w)'
    <3>1. \A e \in Deliveries : lock[e] # w
      BY <1>2 DEF Claim, ClaimsHold, ClaimHolds, InFlight
    <3>2. dispatcher'[w].of = d /\ dispatcher'[w].pc \in {"send", "commit"}
      BY <2>1 DEF TypeOK
    <3>3. \A e \in Deliveries : lock'[e] = w <=> e = d
      BY <2>1, <2>2, <3>1 DEF TypeOK
    <3>4. delivery' = delivery
      BY <1>2 DEF Claim
    <3>5. CASE d \in Mailable
      <4>1. dispatcher'[w] = [pc |-> "send", done |-> dispatcher[w].done, of |-> d, late |-> 0]
        BY <2>1, <3>5 DEF TypeOK
      <4>. QED
        BY <2>2, <3>3, <3>4, <3>5, <4>1 DEF ClaimHolds, InFlight
    <3>6. CASE d \notin Mailable
      <4>1. dispatcher'[w] = [pc |-> "commit", done |-> dispatcher[w].done, of |-> d,
                              late |-> 0, result |-> "unsupported"]
        BY <2>1, <3>6 DEF TypeOK
      <4>. QED
        BY <2>2, <3>3, <3>4, <3>6, <4>1 DEF ClaimHolds, InFlight
    <3>. QED
      BY <3>5, <3>6
  <2>4. ASSUME NEW v \in Dispatchers, v # w
        PROVE  ClaimHolds(v)'
    <3>1. \A e \in Deliveries : lock'[e] = v <=> lock[e] = v
      BY <2>1, <2>2, <2>4, NobodyAssumption DEF TypeOK
    <3>. QED
      BY <1>2, <2>1, <2>4, <3>1, UndisturbedClaim DEF Claim, TypeOK, history
  <2>. QED
    BY <1>2, <2>3, <2>4 DEF ClaimsHold, Claim
<1>3. CASE Send(w)
  <2>1. dispatcher[w] \in Sends
    BY <1>3, DispatcherShape DEF Send
  <2>2. PICK result \in {"accepted", "refused"} :
           /\ dispatcher' = [dispatcher EXCEPT ![w] =
                 [pc |-> "commit", done |-> dispatcher[w].done, of |-> dispatcher[w].of,
                  late |-> dispatcher[w].late, result |-> result]]
           /\ \/ accepted' = accepted \cup {dispatcher[w].of}
              \/ result = "refused" /\ UNCHANGED accepted
    BY <1>3 DEF Send
  <2>3. ClaimHolds(w)'
    <3>1. dispatcher'[w] = [pc |-> "commit", done |-> dispatcher[w].done,
              of |-> dispatcher[w].of, late |-> dispatcher[w].late, result |-> result]
      BY <2>2 DEF TypeOK
    <3>2. dispatcher[w].pc = "send" /\ ClaimHolds(w)
      BY <1>3 DEF Send, ClaimsHold
    <3>3. /\ dispatcher'[w].pc = "commit" /\ dispatcher'[w].of = dispatcher[w].of
          /\ dispatcher'[w].result # "unsupported"
          /\ dispatcher'[w].result = "accepted" => dispatcher[w].of \in accepted'
      BY <2>2, <3>1
    <3>. QED
      BY <1>3, <3>2, <3>3 DEF ClaimHolds, InFlight, Send
  <2>4. ASSUME NEW v \in Dispatchers, v # w
        PROVE  ClaimHolds(v)'
    BY <1>3, <2>2, <2>4, UndisturbedClaim DEF Send, TypeOK
  <2>. QED
    BY <1>3, <2>3, <2>4 DEF ClaimsHold, Send
<1>4. CASE Commit(w)
  <2>1. \A v \in Dispatchers \ {w} : dispatcher'[v] = dispatcher[v]
    BY <1>4 DEF Commit, TypeOK
  <2>2. dispatcher'[w].pc = "claim"
    BY <1>4 DEF Commit, TypeOK
  <2>. QED
    BY <1>4, <2>1, <2>2, RecordClaims DEF Commit
<1>5. CASE FailCommit(w)
  BY <1>5, RollBackClaims DEF FailCommit
<1>. QED
  BY <1>1, <1>2, <1>3, <1>4, <1>5 DEF Work

LEMMA NextClaims == TypeOK /\ ClaimsHold /\ [Next]_vars => ClaimsHold'
<1>. SUFFICES ASSUME TypeOK, ClaimsHold, [Next]_vars
              PROVE  ClaimsHold'
  OBVIOUS
<1>1. ASSUME NEW d \in Deliveries, Queue(d)
      PROVE  ClaimsHold'
  <2>1. \A e \in Deliveries : Tries(e)'
    BY <1>1, LimitsAssumption DEF Queue, TypeOK, Tries, ClaimsHold
  <2>2. \A e \in Deliveries : delivery[e].status = "pending" => delivery'[e] = delivery[e]
    BY <1>1 DEF Queue, TypeOK
  <2>4. \A e \in Deliveries : delivery[e].status # "absent" =>
                                delivery'[e].status # "absent"
    BY <1>1 DEF Queue, TypeOK
  <2>3. ASSUME NEW w \in Dispatchers
        PROVE  ClaimHolds(w)'
    <3>1. \A e \in Deliveries : lock[e] = w => delivery[e].status = "pending"
      BY DEF ClaimsHold, ClaimHolds
    <3>. QED
      BY <1>1, <2>2, <2>4, <3>1, UndisturbedClaim DEF Queue, history
  <2>. QED
    BY <2>1, <2>3 DEF ClaimsHold, Tries
<1>2. ASSUME NEW w \in Dispatchers, Interrupt(w)
      PROVE  ClaimsHold'
  <2>1. faults' > 0
    BY <1>2 DEF Interrupt, Fault, TypeOK
  <2>. QED
    BY <1>2, <2>1, RollBackClaims DEF Interrupt
<1>3. ASSUME NEW w \in Dispatchers, CommitUnanswered(w)
      PROVE  ClaimsHold'
  <2>1. faults' > 0
    BY <1>3 DEF CommitUnanswered, Fault, TypeOK
  <2>2. /\ \A v \in Dispatchers \ {w} : dispatcher'[v] = dispatcher[v]
        /\ dispatcher'[w].pc = "rest"
    BY <1>3 DEF CommitUnanswered, TypeOK, Resting
  <2>. QED
    BY <1>3, <2>1, <2>2, RecordClaims DEF CommitUnanswered
<1>4. ASSUME NEW w \in Dispatchers, Disconnect(w)
      PROVE  ClaimsHold'
  <2>1. PICK d \in Deliveries : lock[d] = w /\ lock' = [lock EXCEPT ![d] = None]
    BY <1>4 DEF Disconnect
  <2>2. faults' > 0
    BY <1>4 DEF Disconnect, Fault, TypeOK
  <2>3. ClaimHolds(w)'
    <3>1. \A e \in Deliveries : lock'[e] # w
      BY <2>1, NobodyAssumption DEF TypeOK, ClaimsHold, ClaimHolds
    <3>2. ClaimHolds(w) /\ UNCHANGED <<delivery, dispatcher, accepted>>
      BY <1>4 DEF ClaimsHold, Disconnect, history
    <3>3. InFlight(w) => dispatcher[w].of \in Deliveries
      BY DispatcherShape
    <3>. QED
      BY <2>2, <3>1, <3>2, <3>3 DEF ClaimHolds, InFlight
  <2>4. ASSUME NEW v \in Dispatchers, v # w
        PROVE  ClaimHolds(v)'
    <3>1. \A e \in Deliveries : lock'[e] = v <=> lock[e] = v
      BY <2>1, <2>4, NobodyAssumption DEF TypeOK
    <3>. QED
      BY <1>4, <2>2, <2>4, <3>1, UndisturbedClaim DEF Disconnect, history
  <2>. QED
    BY <1>4, <2>3, <2>4 DEF ClaimsHold, Disconnect
<1>5. CASE Tick
  <2>1. \A d \in Deliveries : /\ delivery'[d].status = delivery[d].status
                              /\ delivery'[d].attempts = delivery[d].attempts
    BY <1>5 DEF Tick, TypeOK
  <2>2. ASSUME NEW w \in Dispatchers
        PROVE  ClaimHolds(w)'
    <3>1. CASE ~InFlight(w)
      BY <1>5, <2>1, <3>1, UndisturbedClaim DEF Tick, history
    <3>2. CASE InFlight(w)
      <4>1. dispatcher'[w] = [dispatcher[w] EXCEPT !.late = dispatcher[w].late + 1]
        BY <1>5, <3>2 DEF Tick
      <4>2. dispatcher[w] \in Sends \cup Results
        BY <3>2, DispatcherShape DEF InFlight
      <4>3. /\ dispatcher'[w].pc = dispatcher[w].pc /\ dispatcher'[w].of = dispatcher[w].of
            /\ dispatcher[w].pc = "commit" => dispatcher'[w].result = dispatcher[w].result
        BY <4>1, <4>2 DEF Sends, Results
      <4>4. ClaimHolds(w) /\ UNCHANGED <<lock, accepted, faults>>
        BY <1>5 DEF ClaimsHold, Tick, history
      <4>5. dispatcher[w].of \in Deliveries
        BY <3>2, DispatcherShape
      <4>. QED
        BY <2>1, <4>3, <4>4, <4>5 DEF ClaimHolds, InFlight
    <3>. QED
      BY <3>1, <3>2
  <2>. QED
    BY <2>1, <2>2 DEF ClaimsHold
<1>6. CASE UNCHANGED vars
  BY <1>6 DEF vars, history, ClaimsHold, ClaimHolds, InFlight
<1>. QED
  BY <1>1, <1>2, <1>3, <1>4, <1>5, <1>6, WorkClaims DEF Next

\* Every row and every dispatcher keeps its type, whatever fails
\* (dispatch_pending_emails.py): above all, no delivery is tried more than
\* EMAIL_MAX_ATTEMPTS times.
THEOREM TypeCorrect == Spec => []TypeOK
<1>1. Init => TypeOK /\ ClaimsHold
  BY InitialType, InitialClaims
<1>2. TypeOK /\ ClaimsHold /\ [Next]_vars => (TypeOK /\ ClaimsHold)'
  BY NextType, NextClaims
<1>. QED
  BY <1>1, <1>2, PTL DEF Spec

\* A dispatcher that keeps its connection holds the row it claimed, and the row
\* stays pending until its commit.
THEOREM ClaimsAreHeld == Spec => []ClaimsHold
<1>1. Init => TypeOK /\ ClaimsHold
  BY InitialType, InitialClaims
<1>2. TypeOK /\ ClaimsHold /\ [Next]_vars => (TypeOK /\ ClaimsHold)'
  BY NextType, NextClaims
<1>. QED
  BY <1>1, <1>2, PTL DEF Spec

\* Without a failure no two dispatchers work on the same delivery
\* (dispatch_pending_emails.py:32-34).
THEOREM NeverTwoSenders == Spec => []OneSenderAtATime
<1>1. TypeOK /\ ClaimsHold => OneSenderAtATime
  <2>. SUFFICES ASSUME TypeOK, ClaimsHold, NEW v \in Dispatchers, NEW w \in Dispatchers,
                       v # w, InFlight(v), InFlight(w),
                       dispatcher[v].of = dispatcher[w].of
                PROVE  faults > 0
    BY DEF OneSenderAtATime
  <2>1. lock[dispatcher[v].of] # v \/ lock[dispatcher[w].of] # w
    OBVIOUS
  <2>. QED
    BY <2>1 DEF ClaimsHold, ClaimHolds
<1>. QED
  BY <1>1, TypeCorrect, ClaimsAreHeld, PTL

\* A settled delivery is sent again only by a dispatcher that lost its connection
\* after claiming it.
THEOREM SettledIsFinal == Spec => SettledIsNotSent
<1>1. TypeOK /\ ClaimsHold /\ [Next]_vars =>
         [\A d \in Deliveries : Settled(d) /\ sends'[d] # sends[d] =>
             \E w \in Dispatchers : /\ dispatcher[w].pc = "send" /\ dispatcher[w].of = d
                                    /\ lock[d] # w]_vars
  <2>. SUFFICES ASSUME TypeOK, ClaimsHold, Next,
                       NEW d \in Deliveries, Settled(d), sends'[d] # sends[d]
                PROVE  \E w \in Dispatchers : /\ dispatcher[w].pc = "send"
                                              /\ dispatcher[w].of = d /\ lock[d] # w
    OBVIOUS
  <2>1. PICK w \in Dispatchers : Send(w)
    BY DEF Next, Work, Queue, StartRound, Claim, EndRound, Commit, FailCommit, Record,
           RollBack, Interrupt, CommitUnanswered, Disconnect, Tick, history
  <2>2. dispatcher[w].pc = "send" /\ dispatcher[w].of = d
    <3>1. dispatcher[w].pc = "send"
             /\ sends' = [sends EXCEPT ![dispatcher[w].of] = @ + 1]
      BY <2>1 DEF Send
    <3>. QED
      BY <3>1 DEF TypeOK
  <2>3. lock[d] # w
    BY <2>2 DEF ClaimsHold, ClaimHolds, InFlight, Settled
  <2>. QED
    BY <2>2, <2>3
<1>. QED
  BY <1>1, TypeCorrect, ClaimsAreHeld, PTL DEF Spec, SettledIsNotSent

-------------------------------------------------------------------------------
\* The promise.

\* Recording a result is one of the promise's settling or trying steps.
LEMMA RecordMaps ==
    ASSUME TypeOK, ClaimsHold, NEW w \in Dispatchers, Record(w)
    PROVE  Promise!PNext
<1>. DEFINE d == dispatcher[w].of
            q == dispatcher[w]
            row == delivery[d]
            outcome == [e \in Deliveries |-> delivery[e].status]
            tries == [e \in Deliveries |-> delivery[e].attempts]
<1>1. q \in Results /\ d \in Deliveries /\ InFlight(w) /\ lock[d] = w /\ q.pc = "commit"
  BY DispatcherShape DEF Record, InFlight
<1>2. /\ row.status = "pending" /\ row.attempts < MaxAttempts
      /\ q.result = "unsupported" <=> d \notin Mailable
      /\ q.result = "accepted" => d \in accepted
  BY <1>1 DEF ClaimsHold, ClaimHolds
<1>3. /\ delivery' = [delivery EXCEPT ![d] = Recorded(row, q)]
      /\ accepted' = accepted
  BY DEF Record, history
<1>4. /\ outcome' = [outcome EXCEPT ![d] = Recorded(row, q).status]
      /\ tries' = [tries EXCEPT ![d] = Recorded(row, q).attempts]
  BY <1>1, <1>3 DEF TypeOK
<1>5. outcome[d] = "pending" /\ tries[d] = row.attempts /\ row.attempts \in 0..MaxAttempts
  BY <1>1, <1>2 DEF TypeOK
<1>6. \/ Recorded(row, q).status = "failed" /\ Recorded(row, q).attempts = row.attempts
           /\ q.result = "unsupported"
      \/ Recorded(row, q).status = "sent" /\ Recorded(row, q).attempts = row.attempts + 1
           /\ q.result = "accepted"
      \/ Recorded(row, q).status = "failed" /\ Recorded(row, q).attempts = row.attempts + 1
           /\ row.attempts + 1 = MaxAttempts
      \/ Recorded(row, q).status = "pending" /\ Recorded(row, q).attempts = row.attempts + 1
           /\ row.attempts + 1 < MaxAttempts
  BY <1>1, <1>2, <1>5, LimitsAssumption DEF Recorded, GivesUp, Results
<1>7. CASE /\ Recorded(row, q).status = "failed" /\ Recorded(row, q).attempts = row.attempts
           /\ q.result = "unsupported"
  <2>1. tries' = tries
    BY <1>1, <1>4, <1>5, <1>7
  <2>. QED
    BY <1>1, <1>2, <1>3, <1>4, <1>5, <1>7, <2>1 DEF Promise!PNext, Promise!Discard
<1>8. CASE /\ Recorded(row, q).status = "sent"
           /\ Recorded(row, q).attempts = row.attempts + 1 /\ q.result = "accepted"
  BY <1>1, <1>2, <1>3, <1>4, <1>5, <1>8 DEF Promise!PNext, Promise!Succeed
<1>9. CASE /\ Recorded(row, q).status = "failed"
           /\ Recorded(row, q).attempts = row.attempts + 1 /\ row.attempts + 1 = MaxAttempts
  BY <1>1, <1>3, <1>4, <1>5, <1>9 DEF Promise!PNext, Promise!GiveUp
<1>10. CASE /\ Recorded(row, q).status = "pending"
            /\ Recorded(row, q).attempts = row.attempts + 1 /\ row.attempts + 1 < MaxAttempts
  <2>1. outcome' = outcome
    BY <1>1, <1>4, <1>5, <1>10
  <2>. QED
    BY <1>1, <1>3, <1>4, <1>5, <1>10, <2>1 DEF Promise!PNext, Promise!TryAgain
<1>. QED
  BY <1>6, <1>7, <1>8, <1>9, <1>10

LEMMA StepMaps ==
    ASSUME TypeOK, ClaimsHold, [Next]_vars
    PROVE  [Promise!PNext]_(Promise!promise)
<1>1. ASSUME NEW d \in Deliveries, Queue(d)
      PROVE  Promise!PNext
  <2>1. /\ [e \in Deliveries |-> delivery[e].status]' =
              [[e \in Deliveries |-> delivery[e].status] EXCEPT ![d] = "pending"]
        /\ [e \in Deliveries |-> delivery[e].attempts]' =
              [e \in Deliveries |-> delivery[e].attempts]
    BY <1>1 DEF Queue, TypeOK, ClaimsHold
  <2>. QED
    BY <1>1, <2>1 DEF Queue, history, Promise!PNext, Promise!Ask
<1>2. ASSUME NEW w \in Dispatchers, Send(w)
      PROVE  Promise!PNext \/ UNCHANGED Promise!promise
  <2>1. /\ dispatcher[w].of \in Deliveries /\ dispatcher[w].of \in Mailable
    BY <1>2, DispatcherShape DEF Send, InFlight, ClaimsHold, ClaimHolds
  <2>2. delivery' = delivery
           /\ (accepted' = accepted \cup {dispatcher[w].of} \/ accepted' = accepted)
    BY <1>2 DEF Send
  <2>3. CASE accepted' = accepted
    BY <2>2, <2>3 DEF Promise!promise
  <2>4. CASE accepted' = accepted \cup {dispatcher[w].of}
    <3>1. CASE delivery[dispatcher[w].of].status # "absent"
      BY <2>1, <2>2, <2>4, <3>1 DEF Promise!PNext, Promise!Accept
    <3>2. delivery[dispatcher[w].of].status # "absent"
      BY <1>2 DEF Send, InFlight, ClaimsHold, ClaimHolds
    <3>. QED
      BY <3>1, <3>2
  <2>. QED
    BY <2>2, <2>3, <2>4
<1>3. ASSUME NEW w \in Dispatchers, Commit(w) \/ CommitUnanswered(w)
      PROVE  Promise!PNext
  BY <1>3, RecordMaps DEF Commit, CommitUnanswered
<1>4. CASE Tick
  <2>1. \A d \in Deliveries : /\ delivery'[d].status = delivery[d].status
                              /\ delivery'[d].attempts = delivery[d].attempts
    BY <1>4 DEF Tick, TypeOK
  <2>. QED
    BY <1>4, <2>1 DEF Tick, history, Promise!promise
<1>5. ASSUME NEW w \in Dispatchers,
             \/ StartRound(w) \/ Claim(w) \/ EndRound(w) \/ FailCommit(w)
             \/ Interrupt(w) \/ Disconnect(w)
      PROVE  UNCHANGED Promise!promise
  BY <1>5 DEF StartRound, Claim, EndRound, FailCommit, Interrupt, Disconnect, RollBack,
              history, Promise!promise
<1>6. CASE UNCHANGED vars
  BY <1>6 DEF vars, history, Promise!promise
<1>. QED
  BY <1>1, <1>2, <1>3, <1>4, <1>5, <1>6 DEF Next, Work

\* The dispatchers keep the promise of the e-mails (EmailPromise) through crashes,
\* lost commits, lost connections and providers whose errors cannot be believed.
THEOREM ImplementsPromise == Spec => KeepsPromise
<1>1. Init => Promise!PInit
  BY DEF Init, Promise!PInit
<1>2. TypeOK /\ ClaimsHold /\ [Next]_vars => [Promise!PNext]_(Promise!promise)
  BY StepMaps
<1>. QED
  BY <1>1, <1>2, TypeCorrect, ClaimsAreHeld, PTL DEF Spec, KeepsPromise, Promise!PSpec

-------------------------------------------------------------------------------
\* The calls of the provider are accounted for by counting dispatchers.

\* Those that made a call for d and have not recorded it, and those that work on d
\* without the lock they claimed it with.
Waiting(d) == {w \in Dispatchers : /\ dispatcher[w].pc = "commit"
                                   /\ dispatcher[w].of = d
                                   /\ dispatcher[w].result # "unsupported"}
Strays(d) == {w \in Dispatchers : InFlight(w) /\ dispatcher[w].of = d /\ lock[d] # w}

CallsCounted ==
    \A d \in Deliveries :
       /\ IsFiniteSet(Waiting(d)) /\ IsFiniteSet(Strays(d))
       /\ sends[d] = delivery[d].attempts + lost[d] + Cardinality(Waiting(d))
       /\ lost[d] + Cardinality(Strays(d)) <= faults

One(b) == IF b THEN 1 ELSE 0

LEMMA OneElementMoves ==
    ASSUME NEW S, NEW T, NEW w, IsFiniteSet(S), T \ {w} = S \ {w}
    PROVE  /\ IsFiniteSet(T) /\ Cardinality(S) \in Nat /\ Cardinality(T) \in Nat
           /\ Cardinality(T) - One(w \in T) = Cardinality(S) - One(w \in S)
<1>. DEFINE U == S \ {w}
<1>1. /\ IsFiniteSet(U) /\ Cardinality(S) \in Nat /\ Cardinality(U) \in Nat
      /\ Cardinality(S) = Cardinality(U) + One(w \in S)
  <2>1. /\ IsFiniteSet(U)
        /\ Cardinality(U) = IF w \in S THEN Cardinality(S) - 1 ELSE Cardinality(S)
    BY FS_RemoveElement
  <2>2. Cardinality(S) \in Nat /\ Cardinality(U) \in Nat
    BY <2>1, FS_CardinalityType
  <2>. QED
    BY <2>1, <2>2 DEF One
<1>2. IsFiniteSet(T) /\ Cardinality(T) = Cardinality(U) + One(w \in T)
  <2>1. CASE w \in T
    <3>1. T = U \cup {w} /\ w \notin U
      BY <2>1
    <3>. HIDE DEF U
    <3>. QED
      BY <1>1, <2>1, <3>1, FS_AddElement DEF One
  <2>2. CASE w \notin T
    <3>1. T = U
      BY <2>2
    <3>. HIDE DEF U
    <3>. QED
      BY <1>1, <2>2, <3>1 DEF One
  <2>. QED
    BY <2>1, <2>2
<1>. HIDE DEF U
<1>. QED
  BY <1>1, <1>2 DEF One

\* A step of one dispatcher keeps the count if it books what it does.
LEMMA StepIsCounted ==
    ASSUME TypeOK, TypeOK', CallsCounted, NEW w \in Dispatchers,
           \A v \in Dispatchers \ {w} :
               /\ dispatcher'[v] = dispatcher[v]
               /\ \A d \in Deliveries : lock'[d] = v <=> lock[d] = v,
           \A d \in Deliveries :
               /\ sends'[d] - delivery'[d].attempts - lost'[d] - One(w \in Waiting(d)')
                     = sends[d] - delivery[d].attempts - lost[d] - One(w \in Waiting(d))
               /\ lost'[d] + One(w \in Strays(d)') - faults'
                     <= lost[d] + One(w \in Strays(d)) - faults
    PROVE  CallsCounted'
<1>. SUFFICES ASSUME NEW d \in Deliveries
              PROVE  /\ IsFiniteSet(Waiting(d)') /\ IsFiniteSet(Strays(d)')
                     /\ sends'[d] = delivery'[d].attempts + lost'[d] + Cardinality(Waiting(d)')
                     /\ lost'[d] + Cardinality(Strays(d)') <= faults'
  BY DEF CallsCounted
<1>1. /\ Waiting(d)' \ {w} = Waiting(d) \ {w}
      /\ Strays(d)' \ {w} = Strays(d) \ {w}
  BY DEF Waiting, Strays, InFlight
<1>2. /\ IsFiniteSet(Waiting(d)) /\ IsFiniteSet(Strays(d))
      /\ sends[d] = delivery[d].attempts + lost[d] + Cardinality(Waiting(d))
      /\ lost[d] + Cardinality(Strays(d)) <= faults
  BY DEF CallsCounted
<1>3. /\ IsFiniteSet(Waiting(d)') /\ Cardinality(Waiting(d)') \in Nat
      /\ Cardinality(Waiting(d)) \in Nat
      /\ Cardinality(Waiting(d)') - One(w \in Waiting(d)')
            = Cardinality(Waiting(d)) - One(w \in Waiting(d))
  BY <1>1, <1>2, OneElementMoves
<1>4. /\ IsFiniteSet(Strays(d)') /\ Cardinality(Strays(d)') \in Nat
      /\ Cardinality(Strays(d)) \in Nat
      /\ Cardinality(Strays(d)') - One(w \in Strays(d)')
            = Cardinality(Strays(d)) - One(w \in Strays(d))
  BY <1>1, <1>2, OneElementMoves
<1>5. /\ sends[d] \in Nat /\ lost[d] \in Nat /\ delivery[d].attempts \in Nat /\ faults \in Nat
      /\ sends'[d] \in Nat /\ lost'[d] \in Nat /\ delivery'[d].attempts \in Nat
      /\ faults' \in Nat
  BY DEF TypeOK
<1>6. \A b \in BOOLEAN : One(b) \in {0, 1}
  BY DEF One
<1>7. /\ One(w \in Waiting(d)) \in Int /\ One(w \in Waiting(d)') \in Int
      /\ One(w \in Strays(d)) \in Int /\ One(w \in Strays(d)') \in Int
  BY DEF One
<1>8. sends'[d] = delivery'[d].attempts + lost'[d] + Cardinality(Waiting(d)')
  <2>1. sends'[d] - delivery'[d].attempts - lost'[d] - One(w \in Waiting(d)')
           = sends[d] - delivery[d].attempts - lost[d] - One(w \in Waiting(d))
    OBVIOUS
  <2>. QED
    BY <1>2, <1>3, <1>5, <1>7, <2>1
<1>9. lost'[d] + Cardinality(Strays(d)') <= faults'
  BY <1>2, <1>4, <1>5, <1>7
<1>. QED
  BY <1>3, <1>4, <1>8, <1>9

\* Outside a call, a dispatcher is in nobody's count.
LEMMA RestingIsUncounted ==
    ASSUME NEW w \in Dispatchers, dispatcher[w].pc \in {"rest", "claim"}
    PROVE  \A d \in Deliveries : w \notin Waiting(d) /\ w \notin Strays(d)
  BY DEF Waiting, Strays, InFlight

LEMMA RestingWillBeUncounted ==
    ASSUME NEW w \in Dispatchers, dispatcher'[w].pc \in {"rest", "claim"}
    PROVE  \A d \in Deliveries : w \notin Waiting(d)' /\ w \notin Strays(d)'
  BY DEF Waiting, Strays, InFlight

\* The facts StepIsCounted asks of a step, from the numbers it changes.
LEMMA NumbersOf ==
    ASSUME TypeOK, NEW d \in Deliveries
    PROVE  /\ sends[d] \in Nat /\ lost[d] \in Nat /\ delivery[d].attempts \in Nat
           /\ faults \in Nat
  BY DEF TypeOK

LEMMA OneOf == One(TRUE) = 1 /\ One(FALSE) = 0
  BY DEF One

LEMMA ClaimIsCounted ==
    ASSUME TypeOK, TypeOK', ClaimsHold, CallsCounted, NEW w \in Dispatchers,
           StartRound(w) \/ EndRound(w) \/ Claim(w)
    PROVE  CallsCounted'
<1>1. \A v \in Dispatchers \ {w} :
         /\ dispatcher'[v] = dispatcher[v]
         /\ \A d \in Deliveries : lock'[d] = v <=> lock[d] = v
  <2>1. CASE StartRound(w) \/ EndRound(w)
    BY <2>1 DEF StartRound, EndRound, TypeOK
  <2>2. CASE Claim(w)
    BY <2>2, NobodyAssumption DEF Claim, Claimable, TypeOK
  <2>. QED
    BY <2>1, <2>2
<1>2. UNCHANGED <<delivery, sends, lost, faults>>
  BY DEF StartRound, EndRound, Claim, history
<1>3. \A d \in Deliveries : w \notin Waiting(d) /\ w \notin Strays(d)
  BY RestingIsUncounted DEF StartRound, EndRound, Claim, Resting
<1>4. \A d \in Deliveries : w \notin Waiting(d)' /\ w \notin Strays(d)'
  <2>1. CASE StartRound(w) \/ EndRound(w)
    <3>1. dispatcher'[w].pc \in {"rest", "claim"}
      BY <2>1 DEF StartRound, EndRound, Resting, TypeOK
    <3>. QED
      BY <3>1, RestingWillBeUncounted
  <2>2. CASE Claim(w)
    <3>1. PICK e \in Claimable :
             /\ lock' = [lock EXCEPT ![e] = w]
             /\ \/ dispatcher' = [dispatcher EXCEPT ![w] =
                       [pc |-> "send", done |-> @.done, of |-> e, late |-> 0]]
                \/ dispatcher' = [dispatcher EXCEPT ![w] =
                       [pc |-> "commit", done |-> @.done, of |-> e, late |-> 0,
                        result |-> "unsupported"]]
      BY <2>2 DEF Claim
    <3>2. e \in Deliveries /\ lock'[e] = w
      BY <3>1 DEF Claimable, TypeOK
    <3>3. /\ dispatcher'[w].of = e
          /\ dispatcher'[w].pc = "commit" => dispatcher'[w].result = "unsupported"
      BY <3>1 DEF TypeOK
    <3>. QED
      BY <3>2, <3>3 DEF Waiting, Strays
  <2>. QED
    BY <2>1, <2>2
<1>5. \A d \in Deliveries :
         /\ sends'[d] - delivery'[d].attempts - lost'[d] - One(w \in Waiting(d)')
               = sends[d] - delivery[d].attempts - lost[d] - One(w \in Waiting(d))
         /\ lost'[d] + One(w \in Strays(d)') - faults'
               <= lost[d] + One(w \in Strays(d)) - faults
  BY <1>2, <1>3, <1>4, OneOf, NumbersOf DEF One
<1>. QED
  BY <1>1, <1>5, StepIsCounted

LEMMA SendIsCounted ==
    ASSUME TypeOK, TypeOK', ClaimsHold, CallsCounted, NEW w \in Dispatchers, Send(w)
    PROVE  CallsCounted'
<1>. DEFINE e == dispatcher[w].of
<1>1. dispatcher[w] \in Sends /\ e \in Deliveries /\ dispatcher[w].pc = "send"
  BY DispatcherShape DEF Send, InFlight
<1>2. PICK result \in {"accepted", "refused"} :
         /\ dispatcher' = [dispatcher EXCEPT ![w] =
               [pc |-> "commit", done |-> dispatcher[w].done, of |-> e,
                late |-> dispatcher[w].late, result |-> result]]
         /\ sends' = [sends EXCEPT ![e] = @ + 1]
  BY DEF Send
<1>3. UNCHANGED <<delivery, lock, lost, faults>>
  BY DEF Send
<1>4. \A v \in Dispatchers \ {w} :
         /\ dispatcher'[v] = dispatcher[v]
         /\ \A d \in Deliveries : lock'[d] = v <=> lock[d] = v
  BY <1>2, <1>3 DEF TypeOK
<1>5. /\ dispatcher'[w].pc = "commit" /\ dispatcher'[w].of = e
      /\ dispatcher'[w].result # "unsupported"
  BY <1>2 DEF TypeOK
<1>6. ASSUME NEW d \in Deliveries
      PROVE  /\ w \notin Waiting(d) /\ (w \in Waiting(d)' <=> d = e)
             /\ w \in Strays(d)' <=> w \in Strays(d)
             /\ sends'[d] = sends[d] + One(d = e)
  <2>1. w \notin Waiting(d) /\ (w \in Waiting(d)' <=> d = e)
    BY <1>1, <1>5 DEF Waiting
  <2>2. w \in Strays(d)' <=> w \in Strays(d)
    BY <1>1, <1>3, <1>5 DEF Strays, InFlight
  <2>3. sends'[d] = sends[d] + One(d = e)
    BY <1>1, <1>2 DEF One, TypeOK
  <2>. QED
    BY <2>1, <2>2, <2>3
<1>7. ASSUME NEW d \in Deliveries
      PROVE  /\ sends'[d] - delivery'[d].attempts - lost'[d] - One(w \in Waiting(d)')
                   = sends[d] - delivery[d].attempts - lost[d] - One(w \in Waiting(d))
             /\ lost'[d] + One(w \in Strays(d)') - faults'
                   <= lost[d] + One(w \in Strays(d)) - faults
  BY <1>3, <1>6, NumbersOf DEF One
<1>. QED
  BY <1>4, <1>7, StepIsCounted

LEMMA RecordIsCounted ==
    ASSUME TypeOK, TypeOK', ClaimsHold, CallsCounted, NEW w \in Dispatchers, Record(w),
           \A v \in Dispatchers \ {w} : dispatcher'[v] = dispatcher[v],
           dispatcher'[w].pc \in {"rest", "claim"},
           faults' >= faults
    PROVE  CallsCounted'
<1>. DEFINE e == dispatcher[w].of
            q == dispatcher[w]
<1>1. q \in Results /\ e \in Deliveries /\ InFlight(w) /\ lock[e] = w /\ q.pc = "commit"
  BY DispatcherShape DEF Record, InFlight
<1>2. /\ delivery' = [delivery EXCEPT ![e] = Recorded(delivery[e], q)]
      /\ lock' = [lock EXCEPT ![e] = None] /\ UNCHANGED <<sends, lost>>
  BY DEF Record, history
<1>3. \A v \in Dispatchers \ {w} :
         /\ dispatcher'[v] = dispatcher[v]
         /\ \A d \in Deliveries : lock'[d] = v <=> lock[d] = v
  BY <1>1, <1>2, NobodyAssumption DEF TypeOK
<1>4. \A d \in Deliveries : w \notin Waiting(d)' /\ w \notin Strays(d)'
  BY RestingWillBeUncounted
<1>5. ASSUME NEW d \in Deliveries
      PROVE  /\ w \notin Strays(d)
             /\ w \in Waiting(d) <=> d = e /\ q.result # "unsupported"
             /\ delivery'[d].attempts
                   = delivery[d].attempts + One(d = e /\ q.result # "unsupported")
  <2>1. w \notin Strays(d)
    BY <1>1 DEF Strays
  <2>2. w \in Waiting(d) <=> d = e /\ q.result # "unsupported"
    BY <1>1 DEF Waiting
  <2>3. CASE d # e
    BY <1>2, <2>1, <2>2, <2>3, NumbersOf DEF TypeOK, One
  <2>4. CASE d = e
    <3>1. delivery'[d].attempts = Recorded(delivery[e], q).attempts
      BY <1>1, <1>2, <2>4 DEF TypeOK
    <3>2. Recorded(delivery[e], q).attempts
             = IF q.result = "unsupported" THEN delivery[e].attempts
               ELSE delivery[e].attempts + 1
      BY <1>1 DEF Recorded, Results
    <3>. QED
      BY <2>1, <2>2, <2>4, <3>1, <3>2, NumbersOf DEF One
  <2>. QED
    BY <2>3, <2>4
<1>6. ASSUME NEW d \in Deliveries
      PROVE  /\ sends'[d] - delivery'[d].attempts - lost'[d] - One(w \in Waiting(d)')
                   = sends[d] - delivery[d].attempts - lost[d] - One(w \in Waiting(d))
             /\ lost'[d] + One(w \in Strays(d)') - faults'
                   <= lost[d] + One(w \in Strays(d)) - faults
  <2>1. faults' \in Nat
    BY NumbersOf DEF TypeOK
  <2>. QED
    BY <1>2, <1>4, <1>5, <2>1, NumbersOf DEF One
<1>. QED
  BY <1>3, <1>6, StepIsCounted

\* What is rolled back after a call is a lost call; the dispatcher had lost its row,
\* or the rollback itself is a failure.
LEMMA RollBackIsCounted ==
    ASSUME TypeOK, TypeOK', ClaimsHold, CallsCounted, NEW w \in Dispatchers, RollBack(w),
           \/ faults' = faults + 1
           \/ faults' = faults /\ dispatcher[w].pc = "commit" /\ lock[dispatcher[w].of] # w
    PROVE  CallsCounted'
<1>. DEFINE q == dispatcher[w]
            called == q.pc = "commit" /\ q.result # "unsupported"
<1>1. /\ dispatcher' = [dispatcher EXCEPT ![w] = Resting]
      /\ lock' = [d \in Deliveries |-> IF lock[d] = w THEN None ELSE lock[d]]
      /\ lost' = [d \in Deliveries |-> IF called /\ d = q.of THEN lost[d] + 1 ELSE lost[d]]
      /\ UNCHANGED <<delivery, sends>>
  BY DEF RollBack
<1>2. \A v \in Dispatchers \ {w} :
         /\ dispatcher'[v] = dispatcher[v]
         /\ \A d \in Deliveries : lock'[d] = v <=> lock[d] = v
  BY <1>1, NobodyAssumption DEF TypeOK
<1>3. \A d \in Deliveries : w \notin Waiting(d)' /\ w \notin Strays(d)'
  <2>1. dispatcher'[w].pc = "rest"
    BY <1>1 DEF TypeOK, Resting
  <2>. QED
    BY <2>1, RestingWillBeUncounted
<1>4. ASSUME NEW d \in Deliveries
      PROVE  /\ w \in Waiting(d) <=> called /\ d = q.of
             /\ lost'[d] = lost[d] + One(called /\ d = q.of)
             /\ faults' = faults + 1 \/ (faults' = faults /\ (w \in Strays(d) <=> d = q.of))
  <2>1. w \in Waiting(d) <=> called /\ d = q.of
    BY DEF Waiting
  <2>2. lost'[d] = lost[d] + One(called /\ d = q.of)
    BY <1>1, NumbersOf DEF One
  <2>3. faults' = faults + 1 \/ (faults' = faults /\ (w \in Strays(d) <=> d = q.of))
    BY DEF Strays, InFlight
  <2>. QED
    BY <2>1, <2>2, <2>3
<1>. HIDE DEF called
<1>5. ASSUME NEW d \in Deliveries
      PROVE  /\ sends'[d] - delivery'[d].attempts - lost'[d] - One(w \in Waiting(d)')
                   = sends[d] - delivery[d].attempts - lost[d] - One(w \in Waiting(d))
             /\ lost'[d] + One(w \in Strays(d)') - faults'
                   <= lost[d] + One(w \in Strays(d)) - faults
  BY <1>1, <1>3, <1>4, NumbersOf DEF One
<1>. QED
  BY <1>2, <1>5, StepIsCounted

LEMMA DisconnectIsCounted ==
    ASSUME TypeOK, TypeOK', ClaimsHold, CallsCounted, NEW w \in Dispatchers, Disconnect(w)
    PROVE  CallsCounted'
<1>1. PICK e \in Deliveries : lock[e] = w /\ lock' = [lock EXCEPT ![e] = None]
  BY DEF Disconnect
<1>2. faults' = faults + 1 /\ UNCHANGED <<delivery, dispatcher, sends, lost>>
  BY DEF Disconnect, Fault, history
<1>3. \A v \in Dispatchers \ {w} :
         /\ dispatcher'[v] = dispatcher[v]
         /\ \A d \in Deliveries : lock'[d] = v <=> lock[d] = v
  BY <1>1, <1>2, NobodyAssumption DEF TypeOK
<1>4. \A d \in Deliveries : w \in Waiting(d)' <=> w \in Waiting(d)
  BY <1>2 DEF Waiting
<1>5. ASSUME NEW d \in Deliveries
      PROVE  /\ sends'[d] - delivery'[d].attempts - lost'[d] - One(w \in Waiting(d)')
                   = sends[d] - delivery[d].attempts - lost[d] - One(w \in Waiting(d))
             /\ lost'[d] + One(w \in Strays(d)') - faults'
                   <= lost[d] + One(w \in Strays(d)) - faults
  BY <1>2, <1>4, NumbersOf DEF One
<1>. QED
  BY <1>3, <1>5, StepIsCounted

\* Steps that move no dispatcher and no lock leave the count alone.
LEMMA QueueOrTickIsCounted ==
    ASSUME TypeOK, ClaimsHold, CallsCounted,
           (\E d \in Deliveries : Queue(d)) \/ Tick \/ UNCHANGED vars
    PROVE  CallsCounted'
<1>1. /\ UNCHANGED <<lock, sends, lost, faults>>
      /\ \A d \in Deliveries : delivery'[d].attempts = delivery[d].attempts
  <2>1. ASSUME NEW e \in Deliveries, Queue(e)
        PROVE  \A d \in Deliveries : delivery'[d].attempts = delivery[d].attempts
    BY <2>1 DEF Queue, ClaimsHold, TypeOK
  <2>2. CASE Tick \/ UNCHANGED vars
    BY <2>2 DEF Tick, vars, TypeOK, history
  <2>. QED
    BY <2>1, <2>2 DEF Queue, history
<1>2. ASSUME NEW w \in Dispatchers
      PROVE  /\ dispatcher'[w].pc = dispatcher[w].pc
             /\ InFlight(w) => dispatcher'[w].of = dispatcher[w].of
             /\ dispatcher[w].pc = "commit" => dispatcher'[w].result = dispatcher[w].result
  <2>1. CASE dispatcher'[w] = dispatcher[w]
    BY <2>1
  <2>2. CASE Tick /\ InFlight(w)
    <3>1. dispatcher'[w] = [dispatcher[w] EXCEPT !.late = dispatcher[w].late + 1]
      BY <2>2 DEF Tick
    <3>2. dispatcher[w] \in Sends \cup Results
      BY <2>2, DispatcherShape DEF InFlight
    <3>. QED
      BY <3>1, <3>2 DEF Sends, Results
  <2>. QED
    BY <2>1, <2>2 DEF Queue, Tick, vars
<1>3. \A d \in Deliveries : Waiting(d)' = Waiting(d) /\ Strays(d)' = Strays(d)
  BY <1>1, <1>2 DEF Waiting, Strays, InFlight
<1>. QED
  BY <1>1, <1>3 DEF CallsCounted

LEMMA NextCounted == TypeOK /\ ClaimsHold /\ CallsCounted /\ [Next]_vars => CallsCounted'
<1>. SUFFICES ASSUME TypeOK, ClaimsHold, CallsCounted, [Next]_vars
              PROVE  CallsCounted'
  OBVIOUS
<1>0. TypeOK'
  BY NextType
<1>1. ASSUME NEW w \in Dispatchers, Commit(w) \/ CommitUnanswered(w)
      PROVE  CallsCounted'
  <2>1. /\ \A v \in Dispatchers \ {w} : dispatcher'[v] = dispatcher[v]
        /\ dispatcher'[w].pc \in {"rest", "claim"}
    BY <1>1 DEF Commit, CommitUnanswered, TypeOK, Resting
  <2>2. faults' >= faults
    BY <1>1 DEF Commit, CommitUnanswered, Fault, TypeOK
  <2>. QED
    BY <1>0, <1>1, <2>1, <2>2, RecordIsCounted DEF Commit, CommitUnanswered
<1>2. ASSUME NEW w \in Dispatchers, FailCommit(w) \/ Interrupt(w)
      PROVE  CallsCounted'
  BY <1>0, <1>2, RollBackIsCounted DEF FailCommit, Interrupt, Fault
<1>. QED
  BY <1>0, <1>1, <1>2, ClaimIsCounted, SendIsCounted, DisconnectIsCounted,
     QueueOrTickIsCounted DEF Next, Work

\* Every call of the provider is a recorded attempt, is about to be recorded, or was
\* interrupted in between, by at most one failure each (dispatch_pending_emails.py:74).
THEOREM CallsAreAccounted == Spec => []EveryCallIsAccounted
<1>1. Init => CallsCounted
  <2>. SUFFICES ASSUME Init, NEW d \in Deliveries
                PROVE  /\ IsFiniteSet(Waiting(d)) /\ IsFiniteSet(Strays(d))
                       /\ sends[d] = delivery[d].attempts + lost[d] + Cardinality(Waiting(d))
                       /\ lost[d] + Cardinality(Strays(d)) <= faults
    BY DEF CallsCounted
  <2>1. Waiting(d) = {} /\ Strays(d) = {}
    BY DEF Init, Resting, Waiting, Strays, InFlight
  <2>2. sends[d] = 0 /\ delivery[d].attempts = 0 /\ lost[d] = 0 /\ faults = 0
    BY DEF Init
  <2>. QED
    BY <2>1, <2>2, FS_EmptySet
<1>2. TypeOK /\ CallsCounted => EveryCallIsAccounted
  <2>. SUFFICES ASSUME TypeOK, CallsCounted, NEW d \in Deliveries
                PROVE  /\ sends[d] = delivery[d].attempts + lost[d] + Cardinality(Waiting(d))
                       /\ lost[d] <= faults
    BY DEF EveryCallIsAccounted, Waiting
  <2>1. IsFiniteSet(Strays(d)) /\ lost[d] + Cardinality(Strays(d)) <= faults
    BY DEF CallsCounted
  <2>2. Cardinality(Strays(d)) \in Nat
    BY <2>1, FS_CardinalityType
  <2>. QED
    BY <2>1, <2>2, NumbersOf DEF CallsCounted
<1>. QED
  BY <1>1, <1>2, NextCounted, TypeCorrect, ClaimsAreHeld, PTL DEF Spec

===============================================================================
