----------------------------- MODULE ContactsProofs -----------------------------
(***************************************************************************)
(* Proofs about Contacts, for any number of companies, professionals and   *)
(* calls.  The inductive invariant says what a call knows at each of its   *)
(* statements and why nobody else can change it: the rows it has locked.   *)
(***************************************************************************)
EXTENDS Contacts, OrderingProofs

\* What a call carries at each of its statements.
Shape(c) ==
    LET q == call[c] IN
    /\ q.op = "none" <=> q.at = "idle"
    /\ q.op \in {"contact", "list"} => q.co \in Companies /\ q.job \in Jobs
    /\ q.op = "list" => q.at \in {"applicants", "matches", "skills", "listed"}
    /\ q.op = "contact" =>
          /\ q.who \in Professionals
          /\ q.at \in {"company", "applicants", "matches", "skills", "listed", "send"}
    /\ q.op = "review" =>
          q.co \in Companies /\ q.value \in Decisions /\ q.at \in {"lock", "write"}
    /\ q.op = "status" => q.co \in Companies /\ q.at \in {"company", "reason", "told"}
    /\ q.op = "profile" => q.co \in Companies /\ q.at \in {"lock", "write"}
    /\ q.op = "change" =>
          q.who \in Accounts /\ q.value \in AccountStatuses /\ q.at \in {"lock", "write"}

\* Which rows a call has locked.
Locks(c) ==
    LET q == call[c] IN
    /\ IF q.op = "change" /\ q.at = "write" THEN q.owned = q.who ELSE q.owned = Nobody
    /\ IF q.op \in {"review", "profile"} /\ q.at = "write" THEN q.held = q.co ELSE q.held = Nobody
    /\ IF q.op = "contact" /\ q.at # "company"
       THEN q.shared = (IF q.at = "send" THEN {q.co, q.who} ELSE {q.co})
       ELSE q.shared = {}

\* What a call has read of the rows it has locked, and of what never changes.
Reads(c) ==
    LET q == call[c] IN
    /\ q.op = "change" /\ q.at = "write" => q.was = account[q.who]
    /\ q.op = "contact" /\ q.at # "company" => IsApprovedCompany(q.co)
    /\ q.op = "contact" /\ q.at \in {"matches", "skills", "listed", "send"} =>
          Owner[q.job] = q.co
    /\ q.at = "send" => IsActive(q.who)
    /\ q.op = "review" /\ q.at = "write" =>
          standing[q.co] = "pending" /\ (q.value = "approved" => CnaeIsAllowed(q.co))
    /\ q.op = "profile" /\ q.at = "write" => (q.was = "absent" <=> addresses[q.co] = 0)
    /\ q.op = "status" /\ q.value = "rejected" => standing[q.co] = "rejected"
    /\ q.at = "reason" => q.value = "rejected"
    /\ q.op = "status" /\ q.at = "told" /\ q.value = "rejected" => q.was = "present"

\* No two calls hold a row in ways that exclude each other.
Apart(c, d) ==
    /\ call[c].owned # Nobody =>
          call[d].owned # call[c].owned /\ call[c].owned \notin call[d].shared
    /\ call[c].held # Nobody => call[d].held # call[c].held

CallsInv ==
    /\ ContactTypeOK
    /\ \A c \in Callers : Shape(c) /\ Locks(c) /\ Reads(c)
    /\ \A c, d \in Callers : c # d => Apart(c, d)
    /\ DecidedOnce
    /\ AddressesAreOwned

-----------------------------------------------------------------------------
\* An identifier is no value of another kind, NULL included.
LEMMA NobodyIsNobody == Nobody \notin Accounts /\ Nobody \notin Companies /\ Nobody \notin Jobs
BY ContactsAssumption DEF ContactsAssumption, Accounts

LEMMA IdleIsACall == Idle \in CallStates
BY DEF Idle, CallStates

\* A field of a call takes another value of its kind, one at a time or several.
LEMMA CallFields ==
    ASSUME NEW q \in CallStates, NEW a \in Accounts \cup {Nobody}, NEW co \in Companies \cup {Nobody},
           NEW s \in {"idle", "company", "applicants", "matches", "skills", "listed", "send",
                      "lock", "write", "reason", "told"},
           NEW w \in AccountStatuses \cup {"none", "absent", "present"},
           NEW shared \in SUBSET Accounts
    PROVE  /\ [q EXCEPT !.at = s] \in CallStates
           /\ [q EXCEPT !.was = w] \in CallStates
           /\ [q EXCEPT !.owned = a] \in CallStates
           /\ [q EXCEPT !.held = co] \in CallStates
           /\ [q EXCEPT !.shared = shared] \in CallStates
<1>1. [q EXCEPT !.at = s] \in CallStates
  BY DEF CallStates
<1>2. [q EXCEPT !.was = w] \in CallStates
  BY DEF CallStates
<1>3. [q EXCEPT !.owned = a] \in CallStates
  BY DEF CallStates
<1>4. [q EXCEPT !.held = co] \in CallStates
  BY DEF CallStates
<1>5. [q EXCEPT !.shared = shared] \in CallStates
  BY DEF CallStates
<1> QED
  BY <1>1, <1>2, <1>3, <1>4, <1>5

LEMMA CallRows ==
    ASSUME NEW q \in CallStates
    PROVE  [q EXCEPT !.rows = <<>>] \in CallStates
<1>1. <<>> \in Seq(Professionals)
  OBVIOUS
<1>2. \A rows \in Seq(Professionals) : [q EXCEPT !.rows = rows] \in CallStates
  BY DEF CallStates
<1> QED
  BY <1>1, <1>2

LEMMA ToldIsACall ==
    ASSUME NEW q \in CallStates, NEW w \in {"absent", "present"}
    PROVE  [q EXCEPT !.at = "told", !.was = w] \in CallStates
<1>1. [q EXCEPT !.at = "told"] \in CallStates
  BY CallFields
<1>2. [[q EXCEPT !.at = "told"] EXCEPT !.was = w] \in CallStates
  BY <1>1, CallFields
<1>3. [[q EXCEPT !.at = "told"] EXCEPT !.was = w] = [q EXCEPT !.at = "told", !.was = w]
  BY DEF CallStates
<1> QED
  BY <1>2, <1>3

LEMMA RejectedIsACall ==
    ASSUME NEW q \in CallStates
    PROVE  [q EXCEPT !.at = "reason", !.value = "rejected"] \in CallStates
<1>1. [q EXCEPT !.at = "reason"] \in CallStates
  BY CallFields
<1>2. \A p \in CallStates : [p EXCEPT !.value = "rejected"] \in CallStates
  BY DEF CallStates, Decisions
<1>3. [[q EXCEPT !.at = "reason"] EXCEPT !.value = "rejected"] \in CallStates
  BY <1>1, <1>2
<1>4. [[q EXCEPT !.at = "reason"] EXCEPT !.value = "rejected"]
         = [q EXCEPT !.at = "reason", !.value = "rejected"]
  BY DEF CallStates
<1> QED
  BY <1>3, <1>4

LEMMA OwnerIsACall ==
    ASSUME NEW q \in CallStates, NEW w \in AccountStatuses
    PROVE  [q EXCEPT !.at = "write", !.owned = q.who, !.was = w] \in CallStates
<1>1. [q EXCEPT !.at = "write"] \in CallStates
  BY CallFields
<1>2. q.who \in Accounts \cup {Nobody}
  BY DEF CallStates
<1>3. [[q EXCEPT !.at = "write"] EXCEPT !.owned = q.who] \in CallStates
  BY <1>1, <1>2, CallFields, ZenonT(40)
<1>4. [[[q EXCEPT !.at = "write"] EXCEPT !.owned = q.who] EXCEPT !.was = w] \in CallStates
  BY <1>3, CallFields
<1>5. [[[q EXCEPT !.at = "write"] EXCEPT !.owned = q.who] EXCEPT !.was = w]
         = [q EXCEPT !.at = "write", !.owned = q.who, !.was = w]
  BY DEF CallStates
<1> QED
  BY <1>4, <1>5

LEMMA HolderIsACall ==
    ASSUME NEW q \in CallStates, NEW w \in {"absent", "present"}
    PROVE  /\ [q EXCEPT !.at = "write", !.held = q.co] \in CallStates
           /\ [q EXCEPT !.at = "write", !.held = q.co, !.was = w] \in CallStates
<1>1. [q EXCEPT !.at = "write"] \in CallStates
  BY CallFields
<1>2. q.co \in Companies \cup {Nobody}
  BY DEF CallStates
<1>3. [[q EXCEPT !.at = "write"] EXCEPT !.held = q.co] \in CallStates
  BY <1>1, <1>2, CallFields, ZenonT(40)
<1>4. [[[q EXCEPT !.at = "write"] EXCEPT !.held = q.co] EXCEPT !.was = w] \in CallStates
  BY <1>3, CallFields
<1>5. [[q EXCEPT !.at = "write"] EXCEPT !.held = q.co] = [q EXCEPT !.at = "write", !.held = q.co]
  BY DEF CallStates
<1>6. [[[q EXCEPT !.at = "write"] EXCEPT !.held = q.co] EXCEPT !.was = w]
         = [q EXCEPT !.at = "write", !.held = q.co, !.was = w]
  BY DEF CallStates
<1> QED
  BY <1>3, <1>4, <1>5, <1>6

\* A step of one call leaves the others where they are ...
Moves(c) ==
    /\ call' \in [Callers -> CallStates]
    /\ \A d \in Callers \ {c} : call'[d] = call[d]

\* ... and takes no lock when each it holds afterwards it held before.
TakesNoLock(c) ==
    /\ call'[c].owned \in {Nobody, call[c].owned}
    /\ call'[c].held \in {Nobody, call[c].held}
    /\ call'[c].shared \subseteq call[c].shared

\* A call that begins carries its request; an operation that is "none" is not one.
LEMMA BeginMoves ==
    ASSUME ContactTypeOK, NEW c \in Callers, NEW q \in CallStates, Begin(c, q)
    PROVE  Moves(c) /\ call'[c] = q /\ begun' \in Nat
BY DEF ContactTypeOK, Begin, Moves

\* A call that takes no lock stays apart from every other one.
LEMMA StaysApart ==
    ASSUME CallsInv, NEW c \in Callers, Moves(c), TakesNoLock(c), NEW d \in Callers \ {c}
    PROVE  Apart(c, d)' /\ Apart(d, c)'
<1>1. Apart(c, d) /\ Apart(d, c)
  BY DEF CallsInv
<1>2. call'[d] = call[d]
  BY DEF Moves
<1> QED
  BY <1>1, <1>2 DEF Apart, TakesNoLock

\* The history of a listing is a set of professionals.
LEMMA TrackTypes ==
    ASSUME Track
    PROVE  known' \in [Callers -> SUBSET Professionals]
<1>1. \A c \in Callers : Presentable(call[c].job)' \subseteq Professionals
  BY DEF Presentable
<1>2. \A c \in Callers :
        (IF ~ Lists(c)' THEN {}
         ELSE IF Lists(c) THEN known[c] \cap Presentable(call[c].job)'
         ELSE Presentable(call[c].job)') \in SUBSET Professionals
  BY <1>1
<1> QED
  BY <1>2 DEF Track

\* What a step establishes about its own call is enough, when it writes nothing.
LEMMA ReadingKeeps ==
    ASSUME CallsInv, NEW c \in Callers, Moves(c), Track, begun' \in Nat,
           UNCHANGED <<account, decisions, events, notices, contacts, applied, resume>>,
           Shape(c)', Locks(c)', Reads(c)',
           \A d \in Callers \ {c} : Apart(c, d)' /\ Apart(d, c)'
    PROVE  CallsInv'
<1>1. ContactTypeOK'
  BY TrackTypes DEF CallsInv, ContactTypeOK, decisions, Moves
<1>2. \A d \in Callers : Shape(d)' /\ Locks(d)' /\ Reads(d)'
  <2> TAKE d \in Callers
  <2>1. CASE d = c
    BY <2>1
  <2>2. CASE d # c
    <3>1. call'[d] = call[d]
      BY <2>2 DEF Moves
    <3>2. Shape(d) /\ Locks(d) /\ Reads(d)
      BY DEF CallsInv
    <3> QED
      BY <3>1, <3>2 DEF Shape, Locks, Reads, IsApprovedCompany, IsActive, decisions
  <2> QED
    BY <2>1, <2>2
<1>3. \A d, e \in Callers : d # e => Apart(d, e)'
  <2> SUFFICES ASSUME NEW d \in Callers, NEW e \in Callers, d # e
               PROVE  Apart(d, e)'
    OBVIOUS
  <2>1. CASE d = c \/ e = c
    BY <2>1
  <2>2. CASE d # c /\ e # c
    <3>1. call'[d] = call[d] /\ call'[e] = call[e] /\ Apart(d, e)
      BY <2>2 DEF Moves, CallsInv
    <3> QED
      BY <3>1 DEF Apart
  <2> QED
    BY <2>1, <2>2
<1>4. DecidedOnce'
  <2>1. RejectionIsExplained' /\ (\A co \in Companies : standing[co] = "approved" => CnaeIsAllowed(co))'
    BY DEF CallsInv, DecidedOnce, RejectionIsExplained, RejectionNotices, CnaeIsAllowed, decisions
  <2>2. StatusIsExplained'
    BY <1>2 DEF StatusIsExplained, Reads
  <2> QED
    BY <2>1, <2>2 DEF DecidedOnce
<1>5. AddressesAreOwned'
  BY DEF CallsInv, AddressesAreOwned, decisions
<1> QED
  BY <1>1, <1>2, <1>3, <1>4, <1>5 DEF CallsInv

-----------------------------------------------------------------------------
\* The requests.

\* A request is a call that has read nothing and locked nothing.
LEMMA AskBegins ==
    ASSUME NEW c \in Callers,
           \/ AskList(c) \/ AskContact(c) \/ AskReview(c) \/ AskStatus(c)
           \/ AskProfile(c) \/ AskChange(c)
    PROVE  \E q \in CallStates :
            /\ Begin(c, q)
            /\ q.owned = Nobody /\ q.held = Nobody /\ q.shared = {} /\ q.was = "none"
            /\ q.matches = {}
            /\ \/ q.op = "list" /\ q.at = "applicants" /\ q.co \in Companies /\ q.job \in Jobs
               \/ /\ q.op = "contact" /\ q.at = "company" /\ q.co \in Companies /\ q.job \in Jobs
                  /\ q.who \in Professionals
               \/ q.op = "review" /\ q.at = "lock" /\ q.co \in Companies /\ q.value \in Decisions
               \/ q.op = "status" /\ q.at = "company" /\ q.co \in Companies /\ q.value = "none"
               \/ q.op = "profile" /\ q.at = "lock" /\ q.co \in Companies
               \/ q.op = "change" /\ q.at = "lock" /\ q.who \in Accounts /\ q.value \in AccountStatuses
<1> USE NobodyIsNobody, IdleIsACall
<1>1. CASE AskList(c)
  <2>1. PICK co \in Companies, j \in Jobs : Begin(c, [Idle EXCEPT !.op = "list", !.at = "applicants", !.co = co, !.job = j])
    BY <1>1 DEF AskList
  <2>2. [Idle EXCEPT !.op = "list", !.at = "applicants", !.co = co, !.job = j] \in CallStates
    BY DEF Idle, CallStates
  <2> QED
    BY <2>1, <2>2 DEF Idle
<1>2. CASE AskContact(c)
  <2>1. PICK co \in Companies, j \in Jobs, p \in Professionals : Begin(c, [Idle EXCEPT !.op = "contact", !.at = "company", !.co = co,
                                           !.job = j, !.who = p])
    BY <1>2 DEF AskContact
  <2>2. [Idle EXCEPT !.op = "contact", !.at = "company", !.co = co,
                                           !.job = j, !.who = p] \in CallStates
    BY DEF Idle, CallStates, Accounts
  <2> QED
    BY <2>1, <2>2 DEF Idle
<1>3. CASE AskReview(c)
  <2>1. PICK co \in Companies, d \in Decisions : Begin(c, [Idle EXCEPT !.op = "review", !.at = "lock", !.co = co, !.value = d])
    BY <1>3 DEF AskReview
  <2>2. [Idle EXCEPT !.op = "review", !.at = "lock", !.co = co, !.value = d] \in CallStates
    BY DEF Idle, CallStates
  <2> QED
    BY <2>1, <2>2 DEF Idle
<1>4. CASE AskStatus(c)
  <2>1. PICK co \in Companies : Begin(c, [Idle EXCEPT !.op = "status", !.at = "company", !.co = co])
    BY <1>4 DEF AskStatus
  <2>2. [Idle EXCEPT !.op = "status", !.at = "company", !.co = co] \in CallStates
    BY DEF Idle, CallStates
  <2> QED
    BY <2>1, <2>2 DEF Idle
<1>5. CASE AskProfile(c)
  <2>1. PICK co \in Companies : Begin(c, [Idle EXCEPT !.op = "profile", !.at = "lock", !.co = co])
    BY <1>5 DEF AskProfile
  <2>2. [Idle EXCEPT !.op = "profile", !.at = "lock", !.co = co] \in CallStates
    BY DEF Idle, CallStates
  <2> QED
    BY <2>1, <2>2 DEF Idle
<1>6. CASE AskChange(c)
  <2>1. PICK a \in Accounts, s \in AccountStatuses : Begin(c, [Idle EXCEPT !.op = "change", !.at = "lock", !.who = a, !.value = s])
    BY <1>6 DEF AskChange
  <2>2. [Idle EXCEPT !.op = "change", !.at = "lock", !.who = a, !.value = s] \in CallStates
    BY DEF Idle, CallStates
  <2> QED
    BY <2>1, <2>2 DEF Idle
<1> QED
  BY <1>1, <1>2, <1>3, <1>4, <1>5, <1>6

LEMMA AskKeeps ==
    ASSUME CallsInv, Track, NEW c \in Callers,
           \/ AskList(c) \/ AskContact(c) \/ AskReview(c) \/ AskStatus(c)
           \/ AskProfile(c) \/ AskChange(c)
    PROVE  CallsInv'
<1> USE NobodyIsNobody
<1>0. ContactTypeOK
  BY DEF CallsInv
<1>1. PICK q \in CallStates :
        /\ Begin(c, q)
        /\ q.owned = Nobody /\ q.held = Nobody /\ q.shared = {} /\ q.was = "none"
        /\ \/ q.op = "list" /\ q.at = "applicants" /\ q.co \in Companies /\ q.job \in Jobs
           \/ /\ q.op = "contact" /\ q.at = "company" /\ q.co \in Companies /\ q.job \in Jobs
              /\ q.who \in Professionals
           \/ q.op = "review" /\ q.at = "lock" /\ q.co \in Companies /\ q.value \in Decisions
           \/ q.op = "status" /\ q.at = "company" /\ q.co \in Companies /\ q.value = "none"
           \/ q.op = "profile" /\ q.at = "lock" /\ q.co \in Companies
           \/ q.op = "change" /\ q.at = "lock" /\ q.who \in Accounts /\ q.value \in AccountStatuses
  BY AskBegins
<1>2. Moves(c) /\ call'[c] = q /\ begun' \in Nat
  BY <1>0, <1>1, BeginMoves
<1>3. Shape(c)' /\ Locks(c)' /\ Reads(c)'
  BY <1>1, <1>2 DEF Shape, Locks, Reads
<1>4. TakesNoLock(c)
  BY <1>1, <1>2 DEF TakesNoLock
<1>5. UNCHANGED <<account, decisions, events, notices, contacts, applied, resume>>
  BY <1>1 DEF Begin
<1> QED
  BY <1>2, <1>3, <1>4, <1>5, StaysApart, ReadingKeeps

-----------------------------------------------------------------------------
\* The statements that read, and the locks they take.

\* What holds of any call that is idle.
LEMMA IdleCall ==
    ASSUME NEW c \in Callers, call'[c] = Idle
    PROVE  Shape(c)' /\ Locks(c)' /\ Reads(c)' /\ (ContactTypeOK => TakesNoLock(c))
BY DEF Idle, Shape, Locks, Reads, TakesNoLock

LEMMA ReturnMoves ==
    ASSUME ContactTypeOK, NEW c \in Callers, Return(c)
    PROVE  Moves(c) /\ call'[c] = Idle
BY IdleIsACall DEF ContactTypeOK, Return, Moves

\* An error, or an answer that wrote nothing.
LEMMA ReturnKeeps ==
    ASSUME CallsInv, Track, NEW c \in Callers, Return(c), ReadOnly
    PROVE  CallsInv'
<1>1. ContactTypeOK
  BY DEF CallsInv
<1>2. Moves(c) /\ call'[c] = Idle
  BY <1>1, ReturnMoves
<1>3. begun' \in Nat
  BY <1>1 DEF ReadOnly, ContactTypeOK
<1> QED
  BY <1>1, <1>2, <1>3, IdleCall, StaysApart, ReadingKeeps DEF ReadOnly

\* A statement that locks nothing and writes nothing, with what it must establish.
LEMMA PlainReadKeeps ==
    ASSUME CallsInv, Track, NEW c \in Callers, NEW q \in CallStates,
           call' = [call EXCEPT ![c] = q], ReadOnly,
           q.owned = call[c].owned, q.held = call[c].held, q.shared = call[c].shared,
           Shape(c)', Locks(c)', Reads(c)'
    PROVE  CallsInv'
<1>1. ContactTypeOK
  BY DEF CallsInv
<1>2. Moves(c) /\ call'[c] = q
  BY <1>1 DEF ContactTypeOK, Moves
<1>3. TakesNoLock(c)
  BY <1>1, <1>2 DEF TakesNoLock
<1>4. begun' \in Nat
  BY <1>1 DEF ReadOnly, ContactTypeOK
<1> QED
  BY <1>2, <1>3, <1>4, StaysApart, ReadingKeeps DEF ReadOnly

LEMMA ReadApplicantsKeeps ==
    ASSUME CallsInv, Track, NEW c \in Callers, ReadApplicants(c)
    PROVE  CallsInv'
<1>1. ContactTypeOK /\ Shape(c) /\ Locks(c) /\ Reads(c) /\ call[c] \in CallStates
  BY DEF CallsInv, ContactTypeOK
<1>2. CASE Owner[call[c].job] # call[c].co
  BY <1>2, ReturnKeeps DEF ReadApplicants
<1>3. CASE Owner[call[c].job] = call[c].co
  <2> DEFINE at == IF Required[call[c].job] = {} THEN "listed" ELSE "matches"
             q == [call[c] EXCEPT !.rows = applied[call[c].job], !.at = at]
  <2>1. call[c].op \in {"contact", "list"} /\ call[c].at = "applicants"
    BY <1>1 DEF ReadApplicants, Shape, CallStates
  <2>2. applied[call[c].job] \in Seq(Professionals)
    BY <1>1, <2>1 DEF Shape, ContactTypeOK
  <2>3. q \in CallStates
    <3>1. at \in {"matches", "listed"}
      OBVIOUS
    <3> HIDE DEF at
    <3> QED
      BY <1>1, <2>2, <3>1, ZenonT(40) DEF CallStates
  <2>4. call' = [call EXCEPT ![c] = q] /\ ReadOnly
    BY <1>1, <1>3 DEF ReadApplicants, ContactTypeOK
  <2>5. call'[c] = q
    BY <1>1, <2>4 DEF ContactTypeOK
  <2>6. Shape(c)' /\ Locks(c)' /\ Reads(c)'
    BY <1>1, <1>3, <2>1, <2>5, <2>4 DEF Shape, Locks, Reads, CallStates, IsApprovedCompany, IsActive,
       ReadOnly, decisions
  <2> QED
    BY <2>3, <2>4, <2>6, PlainReadKeeps, ZenonT(40) DEF CallStates
<1> QED
  BY <1>2, <1>3

LEMMA ReadMatchesKeeps ==
    ASSUME CallsInv, Track, NEW c \in Callers, ReadMatches(c)
    PROVE  CallsInv'
<1> DEFINE q == [call[c] EXCEPT !.matches = AutomaticMatchCandidates(call[c].job), !.at = "skills"]
<1>1. ContactTypeOK /\ Shape(c) /\ Locks(c) /\ Reads(c) /\ call[c] \in CallStates
  BY DEF CallsInv, ContactTypeOK
<1>2. call[c].op \in {"contact", "list"} /\ call[c].at = "matches"
  BY <1>1 DEF ReadMatches, Shape, CallStates
<1>3. AutomaticMatchCandidates(call[c].job) \subseteq Professionals
  BY DEF AutomaticMatchCandidates
<1>4. q \in CallStates
  BY <1>1, <1>3, ZenonT(40) DEF CallStates
<1>5. call' = [call EXCEPT ![c] = q] /\ ReadOnly
  BY <1>1 DEF ReadMatches, ContactTypeOK
<1>6. call'[c] = q
  BY <1>1, <1>5 DEF ContactTypeOK
<1>7. /\ call'[c].op = call[c].op /\ call'[c].co = call[c].co /\ call'[c].who = call[c].who
      /\ call'[c].job = call[c].job /\ call'[c].owned = call[c].owned
      /\ call'[c].held = call[c].held /\ call'[c].shared = call[c].shared
      /\ call'[c].at = "skills"
  BY <1>1, <1>6 DEF CallStates
<1>8. Shape(c)' /\ Locks(c)' /\ Reads(c)'
  BY <1>1, <1>2, <1>5, <1>7 DEF Shape, Locks, Reads, IsApprovedCompany, IsActive, ReadOnly,
     decisions
<1> QED
  BY <1>4, <1>5, <1>8, PlainReadKeeps DEF CallStates

LEMMA ReadResumeSkillsKeeps ==
    ASSUME CallsInv, Track, NEW c \in Callers, ReadResumeSkills(c)
    PROVE  CallsInv'
<1> DEFINE skills == [p \in Professionals |->
                         IF p \in Applicants(c) \cup call[c].matches THEN resume[p].skills ELSE {}]
           q == [call[c] EXCEPT !.at = "listed", !.skills = skills]
<1>1. ContactTypeOK /\ Shape(c) /\ Locks(c) /\ Reads(c) /\ call[c] \in CallStates
  BY DEF CallsInv, ContactTypeOK
<1>2. call[c].op \in {"contact", "list"} /\ call[c].at = "skills"
  BY <1>1 DEF ReadResumeSkills, Shape, CallStates
<1>3. skills \in [Professionals -> SUBSET Skills]
  BY <1>1 DEF ContactTypeOK
<1>4. call' = [call EXCEPT ![c] = q] /\ ReadOnly
  BY <1>1 DEF ReadResumeSkills, ContactTypeOK
<1> HIDE DEF skills
<1>5. q \in CallStates
  BY <1>1, <1>3, ZenonT(40) DEF CallStates
<1>6. call'[c] = q
  BY <1>1, <1>4 DEF ContactTypeOK
<1>7. /\ call'[c].op = call[c].op /\ call'[c].co = call[c].co /\ call'[c].who = call[c].who
      /\ call'[c].job = call[c].job /\ call'[c].owned = call[c].owned
      /\ call'[c].held = call[c].held /\ call'[c].shared = call[c].shared
      /\ call'[c].at = "listed"
  BY <1>1, <1>6 DEF CallStates
<1>8. Shape(c)' /\ Locks(c)' /\ Reads(c)'
  BY <1>1, <1>2, <1>4, <1>7 DEF Shape, Locks, Reads, IsApprovedCompany, IsActive, ReadOnly,
     decisions
<1> QED
  BY <1>4, <1>5, <1>8, PlainReadKeeps DEF CallStates

LEMMA ReadCompanyStatusKeeps ==
    ASSUME CallsInv, Track, NEW c \in Callers, ReadCompanyStatus(c)
    PROVE  CallsInv'
<1>1. ContactTypeOK /\ Shape(c) /\ Locks(c) /\ Reads(c) /\ call[c] \in CallStates
  BY DEF CallsInv, ContactTypeOK
<1>2. PICK q \in CallStates :
        /\ call' = [call EXCEPT ![c] = q]
        /\ q.op = "status" /\ q.co = call[c].co
        /\ q.owned = call[c].owned /\ q.held = call[c].held /\ q.shared = call[c].shared
        /\ \/ q.at = "reason" /\ q.value = "rejected" /\ standing[q.co] = "rejected"
           \/ /\ q.at = "told" /\ q.value = call[c].value
              /\ call[c].at = "company" /\ standing[q.co] # "rejected"
           \/ /\ q.at = "told" /\ q.value = call[c].value /\ call[c].at = "reason"
              /\ q.was = IF RejectionNotices(call[c].co) = {} THEN "absent" ELSE "present"
  <2>1. CASE call[c].at = "company" /\ standing[call[c].co] = "rejected"
    <3> DEFINE q == [call[c] EXCEPT !.at = "reason", !.value = "rejected"]
    <3>1. q \in CallStates
      BY <1>1, RejectedIsACall
    <3>2. call' = [call EXCEPT ![c] = q]
      BY <1>1, <2>1 DEF ReadCompanyStatus, ContactTypeOK
    <3> QED
      BY <1>1, <2>1, <3>1, <3>2 DEF CallStates, ReadCompanyStatus
  <2>2. CASE call[c].at = "company" /\ standing[call[c].co] # "rejected"
    <3> DEFINE q == [call[c] EXCEPT !.at = "told"]
    <3>1. q \in CallStates
      BY <1>1 DEF CallStates
    <3>2. call' = [call EXCEPT ![c] = q]
      BY <1>1, <2>2 DEF ReadCompanyStatus, ContactTypeOK
    <3> QED
      BY <1>1, <2>2, <3>1, <3>2 DEF CallStates, ReadCompanyStatus
  <2>3. CASE call[c].at = "reason" /\ RejectionNotices(call[c].co) = {}
    <3> DEFINE q == [call[c] EXCEPT !.at = "told", !.was = "absent"]
    <3>1. q \in CallStates
      BY <1>1, ToldIsACall
    <3>2. call' = [call EXCEPT ![c] = q]
      BY <1>1, <2>3 DEF ReadCompanyStatus, ContactTypeOK
    <3> QED
      BY <1>1, <2>3, <3>1, <3>2, ZenonT(40) DEF CallStates, ReadCompanyStatus
  <2>4. CASE call[c].at = "reason" /\ RejectionNotices(call[c].co) # {}
    <3> DEFINE q == [call[c] EXCEPT !.at = "told", !.was = "present"]
    <3>1. q \in CallStates
      BY <1>1, ToldIsACall
    <3>2. call' = [call EXCEPT ![c] = q]
      BY <1>1, <2>4 DEF ReadCompanyStatus, ContactTypeOK
    <3> QED
      BY <1>1, <2>4, <3>1, <3>2, ZenonT(40) DEF CallStates, ReadCompanyStatus
  <2> QED
    BY <2>1, <2>2, <2>3, <2>4 DEF ReadCompanyStatus
<1>3. ReadOnly /\ call[c].op = "status" /\ call'[c] = q
  BY <1>1, <1>2 DEF ReadCompanyStatus, ContactTypeOK
<1>4. standing[call[c].co] = "rejected" => RejectionNotices(call[c].co) # {}
  <2>1. call[c].co \in Companies
    BY <1>1, <1>3 DEF Shape
  <2>2. Cardinality({}) = 0
    BY FS_EmptySet
  <2> QED
    BY <2>1, <2>2 DEF CallsInv, DecidedOnce, RejectionIsExplained
<1>5. Shape(c)' /\ Locks(c)' /\ Reads(c)'
  BY <1>1, <1>2, <1>3, <1>4 DEF Shape, Locks, Reads, ReadOnly, decisions
<1> QED
  BY <1>2, <1>3, <1>5, PlainReadKeeps

\* A statement that locks a row: nobody else has it locked in a way that excludes
\* this one.
LEMMA LockingReadKeeps ==
    ASSUME CallsInv, Track, NEW c \in Callers, NEW q \in CallStates,
           call' = [call EXCEPT ![c] = q], ReadOnly,
           \A d \in Callers \ {c} :
               /\ q.owned # Nobody => call[d].owned # q.owned /\ q.owned \notin call[d].shared
               /\ call[d].owned # Nobody => call[d].owned \notin q.shared
               /\ q.held # Nobody => call[d].held # q.held,
           Shape(c)', Locks(c)', Reads(c)'
    PROVE  CallsInv'
<1>1. ContactTypeOK
  BY DEF CallsInv
<1>2. Moves(c) /\ call'[c] = q
  BY <1>1 DEF ContactTypeOK, Moves
<1>3. \A d \in Callers \ {c} : Apart(c, d)' /\ Apart(d, c)'
  BY <1>2 DEF Apart, Moves
<1>4. begun' \in Nat
  BY <1>1 DEF ReadOnly, ContactTypeOK
<1> QED
  BY <1>2, <1>3, <1>4, ReadingKeeps DEF ReadOnly

LEMMA FinishKeeps ==
    ASSUME CallsInv, Track, NEW c \in Callers, Finish(c)
    PROVE  CallsInv'
BY ReturnKeeps DEF Finish

LEMMA LockAvailableCompanyKeeps ==
    ASSUME CallsInv, Track, NEW c \in Callers, LockAvailableCompany(c)
    PROVE  CallsInv'
<1> USE NobodyIsNobody
<1> DEFINE co == call[c].co
           q == [call[c] EXCEPT !.at = "applicants", !.shared = {co}]
<1>1. ContactTypeOK /\ Shape(c) /\ Locks(c) /\ Reads(c) /\ call[c] \in CallStates
  BY DEF CallsInv, ContactTypeOK
<1>2. CASE ~ IsApprovedCompany(co)
  BY <1>2, ReturnKeeps DEF LockAvailableCompany
<1>3. CASE IsApprovedCompany(co)
  <2>1. call[c].op = "contact" /\ call[c].at = "company" /\ co \in Companies /\ FreeToShare(c, co)
        /\ ReadOnly
    BY <1>1 DEF LockAvailableCompany, Shape
  <2>2. [call[c] EXCEPT !.at = "applicants"] \in CallStates /\ {co} \subseteq Accounts
    BY <1>1, <2>1, CallFields DEF Accounts
  <2>3. [[call[c] EXCEPT !.at = "applicants"] EXCEPT !.shared = {co}] \in CallStates
    BY <2>2, CallFields, ZenonT(40)
  <2>4. q = [[call[c] EXCEPT !.at = "applicants"] EXCEPT !.shared = {co}]
    BY <1>1 DEF CallStates
  <2>5. call' = [call EXCEPT ![c] = q] /\ call'[c] = q
    BY <1>1, <1>3 DEF LockAvailableCompany, ContactTypeOK
  <2>6. /\ q.op = "contact" /\ q.at = "applicants" /\ q.co = co /\ q.who = call[c].who
        /\ q.job = call[c].job /\ q.shared = {co} /\ q.owned = Nobody /\ q.held = Nobody
    BY <1>1, <2>1 DEF CallStates, Locks
  <2>7. Shape(c)' /\ Locks(c)' /\ Reads(c)'
    BY <1>1, <1>3, <2>1, <2>5, <2>6 DEF Shape, Locks, Reads, IsApprovedCompany, IsActive,
       ReadOnly, decisions
  <2>8. \A d \in Callers \ {c} : call[d].owned # co
    BY <2>1 DEF FreeToShare, FreeToRefer
  <2> HIDE DEF q
  <2> QED
    BY <2>1, <2>3, <2>4, <2>5, <2>6, <2>7, <2>8, LockingReadKeeps
<1> QED
  BY <1>2, <1>3

LEMMA LockAvailableProfessionalKeeps ==
    ASSUME CallsInv, Track, NEW c \in Callers, LockAvailableProfessional(c)
    PROVE  CallsInv'
<1> USE NobodyIsNobody
<1> DEFINE p == call[c].who
           empty == [x \in Professionals |-> {}]
           q == [call[c] EXCEPT !.at = "send", !.shared = @ \cup {p},
                                !.rows = <<>>, !.matches = {}, !.skills = Idle.skills]
<1>1. ContactTypeOK /\ Shape(c) /\ Locks(c) /\ Reads(c) /\ call[c] \in CallStates
  BY DEF CallsInv, ContactTypeOK
<1>2. CASE ~ IsActive(p)
  BY <1>2, ReturnKeeps DEF LockAvailableProfessional
<1>3. CASE IsActive(p)
  <2>1. call[c].op = "contact" /\ call[c].at = "listed" /\ p \in Professionals /\ FreeToShare(c, p)
        /\ ReadOnly /\ call[c].co \in Companies
    BY <1>1 DEF LockAvailableProfessional, Shape
  <2>2. Idle.skills \in [Professionals -> SUBSET Skills]
    BY DEF Idle
  <2> DEFINE r == [[[call[c] EXCEPT !.rows = <<>>] EXCEPT !.matches = {}] EXCEPT !.skills = Idle.skills]
  <2>3. [call[c] EXCEPT !.rows = <<>>] \in CallStates
    BY <1>1, CallRows
  <2>4. [[call[c] EXCEPT !.rows = <<>>] EXCEPT !.matches = {}] \in CallStates
    BY <2>3 DEF CallStates
  <2>5. r \in CallStates
    BY <2>2, <2>4 DEF CallStates
  <2>6. call[c].shared \cup {p} \in SUBSET Accounts
    BY <1>1, <2>1 DEF CallStates, Accounts
  <2>7. [[r EXCEPT !.at = "send"] EXCEPT !.shared = call[c].shared \cup {p}] \in CallStates
    <3> HIDE DEF r
    <3>1. [r EXCEPT !.at = "send"] \in CallStates
      BY <2>5, CallFields
    <3> QED
      BY <2>6, <3>1, CallFields, ZenonT(40)
  <2>8. q = [[r EXCEPT !.at = "send"] EXCEPT !.shared = call[c].shared \cup {p}]
    BY <1>1 DEF CallStates
  <2>9. call' = [call EXCEPT ![c] = q] /\ call'[c] = q
    BY <1>1, <1>3 DEF LockAvailableProfessional, ContactTypeOK
  <2>10. /\ q.op = "contact" /\ q.at = "send" /\ q.co = call[c].co /\ q.who = p
         /\ q.job = call[c].job /\ q.shared = {call[c].co, p} /\ q.owned = Nobody /\ q.held = Nobody
    <3>1. call[c].shared = {call[c].co} /\ call[c].owned = Nobody /\ call[c].held = Nobody
      BY <1>1, <2>1 DEF Locks
    <3>2. /\ q.op = "contact" /\ q.at = "send" /\ q.co = call[c].co /\ q.who = p
          /\ q.job = call[c].job /\ q.shared = call[c].shared \cup {p}
          /\ q.owned = call[c].owned /\ q.held = call[c].held
      BY <1>1, <2>1 DEF CallStates
    <3> QED
      BY <3>1, <3>2
  <2> HIDE DEF q
  <2>11. Shape(c)' /\ Locks(c)' /\ Reads(c)'
    BY <1>1, <1>3, <2>1, <2>9, <2>10 DEF Shape, Locks, Reads, IsApprovedCompany, IsActive,
       ReadOnly, decisions
  <2>12. \A d \in Callers \ {c} : call[d].owned # p /\ (call[d].owned # Nobody => call[d].owned # call[c].co)
    <3>1. call[c].co \in call[c].shared
      BY <1>1, <2>1 DEF Locks
    <3> QED
      BY <2>1, <3>1 DEF FreeToShare, FreeToRefer, CallsInv, Apart
  <2> QED
    BY <2>1, <2>7, <2>8, <2>9, <2>10, <2>11, <2>12, LockingReadKeeps
<1> QED
  BY <1>2, <1>3

LEMMA LockCompanyForReviewKeeps ==
    ASSUME CallsInv, Track, NEW c \in Callers, LockCompanyForReview(c)
    PROVE  CallsInv'
<1> USE NobodyIsNobody
<1> DEFINE co == call[c].co
           q == [call[c] EXCEPT !.at = "write", !.held = call[c].co]
           may == standing[co] = "pending" /\ (call[c].value = "approved" => CnaeIsAllowed(co))
<1>1. ContactTypeOK /\ Shape(c) /\ Locks(c) /\ Reads(c) /\ call[c] \in CallStates
  BY DEF CallsInv, ContactTypeOK
<1>2. CASE ~ may
  BY <1>2, ReturnKeeps DEF LockCompanyForReview
<1>3. CASE may
  <2>1. /\ call[c].op = "review" /\ call[c].at = "lock" /\ co \in Companies
        /\ call[c].value \in Decisions /\ CompanyFree(c, co) /\ ReadOnly
    BY <1>1 DEF LockCompanyForReview, Shape
  <2>2. q \in CallStates
    BY <1>1, HolderIsACall
  <2>3. call' = [call EXCEPT ![c] = q] /\ call'[c] = q
    BY <1>1, <1>3 DEF LockCompanyForReview, ContactTypeOK
  <2>4. /\ q.op = "review" /\ q.at = "write" /\ q.co = co /\ q.held = co
        /\ q.value = call[c].value /\ q.owned = Nobody /\ q.shared = {}
    BY <1>1, <2>1 DEF CallStates, Locks
  <2> HIDE DEF q
  <2>5. Shape(c)' /\ Locks(c)' /\ Reads(c)'
    BY <1>3, <2>1, <2>3, <2>4 DEF Shape, Locks, Reads, ReadOnly, decisions, CnaeIsAllowed
  <2>6. \A d \in Callers \ {c} : call[d].held # co
    BY <2>1 DEF CompanyFree
  <2> QED
    BY <2>1, <2>2, <2>3, <2>4, <2>5, <2>6, LockingReadKeeps
<1> QED
  BY <1>2, <1>3

LEMMA FindCompanyForUpdateKeeps ==
    ASSUME CallsInv, Track, NEW c \in Callers, FindCompanyForUpdate(c)
    PROVE  CallsInv'
<1> USE NobodyIsNobody
<1> DEFINE co == call[c].co
           was == IF addresses[co] = 0 THEN "absent" ELSE "present"
           q == [call[c] EXCEPT !.at = "write", !.held = call[c].co, !.was = was]
<1>1. ContactTypeOK /\ Shape(c) /\ Locks(c) /\ Reads(c) /\ call[c] \in CallStates
  BY DEF CallsInv, ContactTypeOK
<1>2. /\ call[c].op = "profile" /\ call[c].at = "lock" /\ co \in Companies
      /\ CompanyFree(c, co) /\ ReadOnly
  BY <1>1 DEF FindCompanyForUpdate, Shape
<1>3. was \in {"absent", "present"} /\ (was = "absent" <=> addresses[co] = 0)
  OBVIOUS
<1>4. call' = [call EXCEPT ![c] = q] /\ call'[c] = q
  BY <1>1 DEF FindCompanyForUpdate, ContactTypeOK
<1> HIDE DEF was
<1>5. q \in CallStates
  BY <1>1, <1>3, HolderIsACall
<1>6. /\ q.op = "profile" /\ q.at = "write" /\ q.co = co /\ q.held = co /\ q.was = was
      /\ q.owned = Nobody /\ q.shared = {}
  BY <1>1, <1>2 DEF CallStates, Locks
<1> HIDE DEF q
<1>7. Shape(c)' /\ Locks(c)' /\ Reads(c)'
  BY <1>2, <1>3, <1>4, <1>6 DEF Shape, Locks, Reads, ReadOnly, decisions
<1>8. \A d \in Callers \ {c} : call[d].held # co
  BY <1>2 DEF CompanyFree
<1> QED
  BY <1>2, <1>4, <1>5, <1>6, <1>7, <1>8, LockingReadKeeps

LEMMA LockAccountKeeps ==
    ASSUME CallsInv, Track, NEW c \in Callers, LockAccount(c)
    PROVE  CallsInv'
<1> USE NobodyIsNobody
<1> DEFINE a == call[c].who
           q == [call[c] EXCEPT !.at = "write", !.owned = call[c].who, !.was = account[call[c].who]]
<1>1. ContactTypeOK /\ Shape(c) /\ Locks(c) /\ Reads(c) /\ call[c] \in CallStates
  BY DEF CallsInv, ContactTypeOK
<1>2. CASE account[a] = call[c].value
  BY <1>2, ReturnKeeps DEF LockAccount
<1>3. CASE account[a] # call[c].value
  <2>1. /\ call[c].op = "change" /\ call[c].at = "lock" /\ a \in Accounts
        /\ call[c].value \in AccountStatuses /\ FreeToUpdate(c, a) /\ ReadOnly
    BY <1>1 DEF LockAccount, Shape
  <2>2. q \in CallStates
    <3>1. account[a] \in AccountStatuses
      BY <1>1, <2>1 DEF ContactTypeOK
    <3> QED
      BY <1>1, <3>1, OwnerIsACall
  <2>3. call' = [call EXCEPT ![c] = q] /\ call'[c] = q
    BY <1>1, <1>3 DEF LockAccount, ContactTypeOK
  <2>4. /\ q.op = "change" /\ q.at = "write" /\ q.who = a /\ q.owned = a /\ q.was = account[a]
        /\ q.value = call[c].value /\ q.held = Nobody /\ q.shared = {}
    BY <1>1, <2>1 DEF CallStates, Locks
  <2> HIDE DEF q
  <2>5. Shape(c)' /\ Locks(c)' /\ Reads(c)'
    BY <2>1, <2>3, <2>4 DEF Shape, Locks, Reads, ReadOnly, decisions
  <2>6. \A d \in Callers \ {c} : call[d].owned # a /\ a \notin call[d].shared
    BY <2>1 DEF FreeToUpdate
  <2> QED
    BY <2>1, <2>2, <2>3, <2>4, <2>5, <2>6, LockingReadKeeps
<1> QED
  BY <1>2, <1>3

-----------------------------------------------------------------------------
\* The statements that write, each with what it writes.

LEMMA WritingKeeps ==
    ASSUME CallsInv, NEW c \in Callers, Return(c), ContactTypeOK',
           \A d \in Callers \ {c} : Reads(d)',
           RejectionIsExplained', AddressesAreOwned',
           \A co \in Companies : standing'[co] = "approved" => CnaeIsAllowed(co)
    PROVE  CallsInv'
<1>1. ContactTypeOK
  BY DEF CallsInv
<1>2. Moves(c) /\ call'[c] = Idle
  BY <1>1, ReturnMoves
<1>3. Shape(c)' /\ Locks(c)' /\ Reads(c)' /\ TakesNoLock(c)
  BY <1>1, <1>2, IdleCall
<1>4. \A d \in Callers : Shape(d)' /\ Locks(d)' /\ Reads(d)'
  <2> TAKE d \in Callers
  <2>1. CASE d = c
    BY <1>3, <2>1
  <2>2. CASE d # c
    <3>1. call'[d] = call[d] /\ Shape(d) /\ Locks(d)
      BY <1>2, <2>2 DEF Moves, CallsInv
    <3> QED
      BY <2>2, <3>1 DEF Shape, Locks
  <2> QED
    BY <2>1, <2>2
<1>5. \A d, e \in Callers : d # e => Apart(d, e)'
  <2> SUFFICES ASSUME NEW d \in Callers, NEW e \in Callers, d # e
               PROVE  Apart(d, e)'
    OBVIOUS
  <2>1. CASE d = c \/ e = c
    BY <1>2, <1>3, <2>1, StaysApart
  <2>2. CASE d # c /\ e # c
    <3>1. call'[d] = call[d] /\ call'[e] = call[e] /\ Apart(d, e)
      BY <1>2, <2>2 DEF Moves, CallsInv
    <3> QED
      BY <3>1 DEF Apart
  <2> QED
    BY <2>1, <2>2
<1>6. DecidedOnce'
  <2>1. StatusIsExplained'
    BY <1>4 DEF StatusIsExplained, Reads
  <2> QED
    BY <2>1 DEF DecidedOnce, CnaeIsAllowed
<1> QED
  BY <1>4, <1>5, <1>6 DEF CallsInv

\* The rejections a company was told of, when a notification is added.
LEMMA NoticeAdded ==
    ASSUME ContactTypeOK, NEW n \in [to : Accounts, kind : {"contact", "rejected"}],
           notices' = Append(notices, n), NEW co \in Companies
    PROVE  /\ IsFiniteSet(RejectionNotices(co))
           /\ n # [to |-> co, kind |-> "rejected"] =>
                 RejectionNotices(co)' = RejectionNotices(co)
           /\ n = [to |-> co, kind |-> "rejected"] =>
                 /\ RejectionNotices(co)' = RejectionNotices(co) \cup {Len(notices) + 1}
                 /\ Len(notices) + 1 \notin RejectionNotices(co)
<1>1. /\ Len(notices) \in Nat /\ Len(notices') = Len(notices) + 1
      /\ DOMAIN notices = 1..Len(notices) /\ DOMAIN notices' = 1..(Len(notices) + 1)
      /\ \A i \in 1..Len(notices) : notices'[i] = notices[i]
      /\ notices'[Len(notices) + 1] = n
  BY DEF ContactTypeOK
<1>2. IsFiniteSet(RejectionNotices(co))
  <2>1. IsFiniteSet(1..Len(notices))
    BY <1>1, FS_Interval
  <2>2. RejectionNotices(co) \subseteq 1..Len(notices)
    BY <1>1 DEF RejectionNotices
  <2> QED
    BY <2>1, <2>2, FS_Subset
<1>3. ASSUME n # [to |-> co, kind |-> "rejected"]
      PROVE  RejectionNotices(co)' = RejectionNotices(co)
  BY <1>1, <1>3 DEF RejectionNotices
<1>4. ASSUME n = [to |-> co, kind |-> "rejected"]
      PROVE  /\ RejectionNotices(co)' = RejectionNotices(co) \cup {Len(notices) + 1}
             /\ Len(notices) + 1 \notin RejectionNotices(co)
  BY <1>1, <1>4 DEF RejectionNotices
<1> QED
  BY <1>2, <1>3, <1>4

LEMMA SendContactKeeps ==
    ASSUME CallsInv, Track, NEW c \in Callers, SendContact(c)
    PROVE  CallsInv'
<1> DEFINE sent == [co |-> call[c].co, who |-> call[c].who, job |-> call[c].job]
           notice == [to |-> call[c].who, kind |-> "contact"]
<1>1. ContactTypeOK /\ Shape(c) /\ call[c] \in CallStates
  BY DEF CallsInv, ContactTypeOK
<1>2. call[c].co \in Companies /\ call[c].who \in Professionals /\ call[c].job \in Jobs
  BY <1>1 DEF SendContact, Shape, CallStates
<1>3. sent \in [co : Companies, who : Professionals, job : Jobs]
  BY <1>2
<1>4. notice \in [to : Accounts, kind : {"contact", "rejected"}]
  BY <1>2 DEF Accounts
<1>5. contacts' = Append(contacts, sent) /\ notices' = Append(notices, notice) /\ Return(c)
      /\ UNCHANGED <<account, decisions, events, applied, resume, begun>>
  BY DEF SendContact
<1>6. RejectionIsExplained'
  <2>1. \A co \in Companies : notice # [to |-> co, kind |-> "rejected"]
    OBVIOUS
  <2>2. \A co \in Companies : RejectionNotices(co)' = RejectionNotices(co)
    <3> HIDE DEF notice
    <3> QED
      BY <1>1, <1>4, <1>5, <2>1, NoticeAdded
  <2> QED
    BY <1>5, <2>2 DEF CallsInv, DecidedOnce, RejectionIsExplained, decisions
<1>7. Moves(c)
  BY <1>1, <1>5, ReturnMoves
<1>8. ContactTypeOK'
  <2> HIDE DEF sent, notice
  <2> QED
    BY <1>1, <1>3, <1>4, <1>5, <1>7, TrackTypes DEF ContactTypeOK, decisions, Moves
<1>9. \A d \in Callers \ {c} : Reads(d)'
  <2> TAKE d \in Callers \ {c}
  <2>1. call'[d] = call[d] /\ Reads(d)
    BY <1>7 DEF Moves, CallsInv
  <2> QED
    BY <1>5, <2>1 DEF Reads, IsApprovedCompany, IsActive, decisions
<1>10. AddressesAreOwned' /\ \A co \in Companies : standing'[co] = "approved" => CnaeIsAllowed(co)
  BY <1>5 DEF CallsInv, AddressesAreOwned, DecidedOnce, decisions
<1> QED
  BY <1>5, <1>6, <1>8, <1>9, <1>10, WritingKeeps

LEMMA ReviewCompanyKeeps ==
    ASSUME CallsInv, Track, NEW c \in Callers, ReviewCompany(c)
    PROVE  CallsInv'
<1> USE NobodyIsNobody
<1> DEFINE co == call[c].co
           notice == [to |-> co, kind |-> "rejected"]
<1>1. ContactTypeOK /\ Shape(c) /\ Locks(c) /\ Reads(c) /\ call[c] \in CallStates
  BY DEF CallsInv, ContactTypeOK
<1>2. /\ co \in Companies /\ call[c].value \in Decisions /\ call[c].held = co
      /\ standing[co] = "pending" /\ (call[c].value = "approved" => CnaeIsAllowed(co))
  BY <1>1 DEF ReviewCompany, Shape, Locks, Reads
<1>3. /\ standing' = [standing EXCEPT ![co] = call[c].value] /\ Return(c)
      /\ UNCHANGED <<account, addresses, events, contacts, applied, resume, begun>>
      /\ IF call[c].value = "rejected" THEN notices' = Append(notices, notice)
         ELSE notices' = notices
  BY DEF ReviewCompany
<1>4. notice \in [to : Accounts, kind : {"contact", "rejected"}]
  BY <1>2 DEF Accounts
<1>5. Moves(c)
  BY <1>1, <1>3, ReturnMoves
<1>6. standing \in [Companies -> {"pending"} \cup Decisions]
  BY <1>1 DEF ContactTypeOK
<1>7. RejectionIsExplained'
  <2> SUFFICES ASSUME NEW k \in Companies
               PROVE  Cardinality(RejectionNotices(k)') = IF standing'[k] = "rejected" THEN 1 ELSE 0
    BY DEF RejectionIsExplained
  <2>1. Cardinality(RejectionNotices(k)) = IF standing[k] = "rejected" THEN 1 ELSE 0
    BY DEF CallsInv, DecidedOnce, RejectionIsExplained
  <2>2. CASE call[c].value # "rejected"
    <3>1. RejectionNotices(k)' = RejectionNotices(k)
      BY <1>3, <2>2 DEF RejectionNotices
    <3>2. standing'[k] = "rejected" <=> standing[k] = "rejected"
      BY <1>2, <1>3, <1>6, <2>2
    <3> QED
      BY <2>1, <3>1, <3>2
  <2>3. CASE call[c].value = "rejected" /\ k # co
    <3>1. notice # [to |-> k, kind |-> "rejected"]
      BY <2>3
    <3>2. RejectionNotices(k)' = RejectionNotices(k)
      <4> HIDE DEF notice
      <4> QED
        BY <1>1, <1>3, <1>4, <2>3, <3>1, NoticeAdded
    <3>3. standing'[k] = standing[k]
      BY <1>2, <1>3, <1>6, <2>3
    <3> QED
      BY <2>1, <3>2, <3>3
  <2>4. CASE call[c].value = "rejected" /\ k = co
    <3>1. /\ IsFiniteSet(RejectionNotices(k))
          /\ RejectionNotices(k)' = RejectionNotices(k) \cup {Len(notices) + 1}
          /\ Len(notices) + 1 \notin RejectionNotices(k)
      <4>1. notice = [to |-> k, kind |-> "rejected"]
        BY <2>4
      <4> HIDE DEF notice
      <4> QED
        BY <1>1, <1>3, <1>4, <2>4, <4>1, NoticeAdded
    <3>2. Cardinality(RejectionNotices(k)') = Cardinality(RejectionNotices(k)) + 1
      BY <3>1, FS_AddElement
    <3>3. standing[k] # "rejected" /\ standing'[k] = "rejected"
      BY <1>2, <1>3, <1>6, <2>4
    <3> QED
      BY <2>1, <3>2, <3>3
  <2> QED
    BY <2>2, <2>3, <2>4
<1>8. ContactTypeOK'
  <2>1. notices' \in Seq([to : Accounts, kind : {"contact", "rejected"}])
    <3> HIDE DEF notice
    <3>1. notices \in Seq([to : Accounts, kind : {"contact", "rejected"}])
      BY <1>1 DEF ContactTypeOK
    <3>2. CASE notices' = notices
      BY <3>1, <3>2
    <3>3. CASE notices' = Append(notices, notice)
      BY <1>4, <3>1, <3>3
    <3> QED
      BY <1>3, <3>2, <3>3
  <2>2. standing' \in [Companies -> {"pending"} \cup Decisions]
    BY <1>2, <1>3, <1>6
  <2> QED
    BY <1>1, <1>3, <1>5, <2>1, <2>2, TrackTypes DEF ContactTypeOK, Moves
<1>9. \A d \in Callers \ {c} : Reads(d)'
  <2> TAKE d \in Callers \ {c}
  <2>1. call'[d] = call[d] /\ Reads(d) /\ Locks(d) /\ Shape(d) /\ Apart(c, d)
    BY <1>5 DEF Moves, CallsInv
  <2>2. \A k \in Companies \ {co} : standing'[k] = standing[k]
    BY <1>2, <1>3, <1>6
  <2>3. call[d].op = "contact" /\ call[d].at # "company" => standing'[call[d].co] = standing[call[d].co]
    BY <1>2, <2>1, <2>2 DEF Reads, Shape, IsApprovedCompany
  <2>4. call[d].op = "review" /\ call[d].at = "write" => standing'[call[d].co] = standing[call[d].co]
    BY <1>2, <2>1, <2>2 DEF Shape, Locks, Apart
  <2>5. call[d].op = "status" /\ call[d].value = "rejected" => standing'[call[d].co] = standing[call[d].co]
    BY <1>2, <2>1, <2>2 DEF Reads, Shape
  <2> QED
    BY <1>3, <2>1, <2>3, <2>4, <2>5 DEF Reads, IsApprovedCompany, IsActive, CnaeIsAllowed
<1>10. AddressesAreOwned' /\ \A k \in Companies : standing'[k] = "approved" => CnaeIsAllowed(k)
  BY <1>2, <1>3, <1>6 DEF CallsInv, AddressesAreOwned, DecidedOnce
<1> QED
  BY <1>3, <1>7, <1>8, <1>9, <1>10, WritingKeeps

LEMMA UpdateCompanyProfileKeeps ==
    ASSUME CallsInv, Track, NEW c \in Callers, UpdateCompanyProfile(c)
    PROVE  CallsInv'
<1> USE NobodyIsNobody
<1> DEFINE co == call[c].co
<1>1. ContactTypeOK /\ Shape(c) /\ Locks(c) /\ Reads(c) /\ call[c] \in CallStates
  BY DEF CallsInv, ContactTypeOK
<1>2. /\ co \in Companies /\ call[c].held = co
      /\ call[c].was = "absent" <=> addresses[co] = 0
  BY <1>1 DEF UpdateCompanyProfile, Shape, Locks, Reads
<1>3. /\ addresses' = [addresses EXCEPT ![co] = IF call[c].was = "absent" THEN @ + 1 ELSE @]
      /\ Return(c)
      /\ UNCHANGED <<account, standing, events, notices, contacts, applied, resume, begun>>
  BY DEF UpdateCompanyProfile
<1>4. Moves(c)
  BY <1>1, <1>3, ReturnMoves
<1>5. addresses \in [Companies -> Nat] /\ addresses' \in [Companies -> Nat]
  BY <1>1, <1>2, <1>3 DEF ContactTypeOK
<1>6. ContactTypeOK'
  BY <1>1, <1>3, <1>4, <1>5, TrackTypes DEF ContactTypeOK, Moves
<1>7. \A d \in Callers \ {c} : Reads(d)'
  <2> TAKE d \in Callers \ {c}
  <2>1. call'[d] = call[d] /\ Reads(d) /\ Locks(d) /\ Shape(d) /\ Apart(c, d)
    BY <1>4 DEF Moves, CallsInv
  <2>2. call[d].op = "profile" /\ call[d].at = "write" => addresses'[call[d].co] = addresses[call[d].co]
    BY <1>2, <1>3, <1>5, <2>1 DEF Shape, Locks, Apart
  <2> QED
    BY <1>3, <2>1, <2>2 DEF Reads, IsApprovedCompany, IsActive
<1>8. AddressesAreOwned'
  BY <1>2, <1>3, <1>5 DEF CallsInv, AddressesAreOwned
<1>9. RejectionIsExplained' /\ \A k \in Companies : standing'[k] = "approved" => CnaeIsAllowed(k)
  BY <1>3 DEF CallsInv, DecidedOnce, RejectionIsExplained, RejectionNotices
<1> QED
  BY <1>3, <1>6, <1>7, <1>8, <1>9, WritingKeeps

LEMMA ChangeAccountStatusKeeps ==
    ASSUME CallsInv, Track, NEW c \in Callers, ChangeAccountStatus(c)
    PROVE  CallsInv'
<1> USE NobodyIsNobody
<1> DEFINE a == call[c].who
           event == [target |-> a, from |-> call[c].was, to |-> call[c].value]
<1>1. ContactTypeOK /\ Shape(c) /\ Locks(c) /\ Reads(c) /\ call[c] \in CallStates
  BY DEF CallsInv, ContactTypeOK
<1>2. a \in Accounts /\ call[c].value \in AccountStatuses /\ call[c].owned = a /\ call[c].was = account[a]
  BY <1>1 DEF ChangeAccountStatus, Shape, Locks, Reads
<1>3. /\ account' = [account EXCEPT ![a] = call[c].value] /\ events' = Append(events, event)
      /\ Return(c) /\ UNCHANGED <<decisions, notices, contacts, applied, resume, begun>>
  BY DEF ChangeAccountStatus
<1>4. Moves(c)
  BY <1>1, <1>3, ReturnMoves
<1>5. account \in [Accounts -> AccountStatuses] /\ account' \in [Accounts -> AccountStatuses]
  BY <1>1, <1>2, <1>3 DEF ContactTypeOK
<1>6. event \in [target : Accounts, from : AccountStatuses, to : AccountStatuses]
  BY <1>2, <1>5
<1>7. ContactTypeOK'
  <2> HIDE DEF event
  <2> QED
    BY <1>1, <1>3, <1>4, <1>5, <1>6, TrackTypes DEF ContactTypeOK, Moves, decisions
<1>8. \A d \in Callers \ {c} : Reads(d)'
  <2> TAKE d \in Callers \ {c}
  <2>1. call'[d] = call[d] /\ Reads(d) /\ Locks(d) /\ Shape(d) /\ Apart(c, d)
    BY <1>4 DEF Moves, CallsInv
  <2>2. \A b \in Accounts \ {a} : account'[b] = account[b]
    BY <1>2, <1>3, <1>5
  <2>3. a # call[d].owned /\ a \notin call[d].shared
    BY <1>2, <2>1 DEF Apart
  <2>4. call[d].op = "change" /\ call[d].at = "write" => account'[call[d].who] = account[call[d].who]
    BY <2>1, <2>2, <2>3 DEF Shape, Locks
  <2>5. call[d].op = "contact" /\ call[d].at # "company" => account'[call[d].co] = account[call[d].co]
    BY <2>1, <2>2, <2>3 DEF Shape, Locks, Accounts
  <2>6. call[d].at = "send" => account'[call[d].who] = account[call[d].who]
    <3>1. call[d].at = "send" => call[d].op = "contact"
      <4>1. call[d] \in CallStates
        BY <1>1 DEF ContactTypeOK
      <4> QED
        BY <2>1, <4>1 DEF Shape, CallStates
    <3> QED
      BY <2>1, <2>2, <2>3, <3>1 DEF Shape, Locks, Accounts
  <2> QED
    BY <1>3, <2>1, <2>4, <2>5, <2>6 DEF Reads, IsApprovedCompany, IsActive, CnaeIsAllowed, decisions
<1>9. /\ RejectionIsExplained' /\ AddressesAreOwned'
      /\ \A k \in Companies : standing'[k] = "approved" => CnaeIsAllowed(k)
  BY <1>3 DEF CallsInv, DecidedOnce, RejectionIsExplained, RejectionNotices, AddressesAreOwned, decisions
<1> QED
  BY <1>3, <1>7, <1>8, <1>9, WritingKeeps

\* What professionals commit touches no call and no decision.
LEMMA ProfessionalsKeep ==
    ASSUME CallsInv, Track, ContactTypeOK',
           UNCHANGED <<account, decisions, notices, call>>
    PROVE  CallsInv'
<1>1. \A d \in Callers : Shape(d)' /\ Locks(d)' /\ Reads(d)'
  <2> TAKE d \in Callers
  <2>1. Shape(d) /\ Locks(d) /\ Reads(d)
    BY DEF CallsInv
  <2> QED
    BY <2>1 DEF Shape, Locks, Reads, IsApprovedCompany, IsActive, CnaeIsAllowed, decisions
<1>2. \A d, e \in Callers : d # e => Apart(d, e)'
  BY DEF CallsInv, Apart
<1>3. DecidedOnce' /\ AddressesAreOwned'
  BY DEF CallsInv, DecidedOnce, RejectionIsExplained, RejectionNotices, StatusIsExplained,
     AddressesAreOwned, decisions, CnaeIsAllowed
<1> QED
  BY <1>1, <1>2, <1>3 DEF CallsInv

LEMMA ApplyKeeps ==
    ASSUME CallsInv, Track, NEW p \in Professionals, NEW j \in Jobs, Apply(p, j)
    PROVE  CallsInv'
<1>1. applied \in [Jobs -> Seq(Professionals)]
  BY DEF CallsInv, ContactTypeOK
<1>2. applied' \in [Jobs -> Seq(Professionals)]
  BY <1>1 DEF Apply
<1>3. ContactTypeOK'
  BY <1>2, TrackTypes DEF CallsInv, ContactTypeOK, Apply, decisions
<1> QED
  BY <1>3, ProfessionalsKeep DEF Apply

LEMMA EditResumeKeeps ==
    ASSUME CallsInv, Track, NEW p \in Professionals, EditResume(p)
    PROVE  CallsInv'
<1>1. resume \in [Professionals -> [skills : SUBSET Skills, available : BOOLEAN]]
  BY DEF CallsInv, ContactTypeOK
<1>2. resume' \in [Professionals -> [skills : SUBSET Skills, available : BOOLEAN]]
  <2>1. CASE \E skills \in Portfolios : resume' = [resume EXCEPT ![p].skills = skills]
    <3>1. Portfolios \subseteq SUBSET Skills
      BY ContactsAssumption DEF ContactsAssumption
    <3> QED
      BY <1>1, <2>1, <3>1
  <2>2. CASE \E available \in BOOLEAN : resume' = [resume EXCEPT ![p].available = available]
    BY <1>1, <2>2
  <2> QED
    BY <2>1, <2>2 DEF EditResume
<1>3. ContactTypeOK'
  BY <1>2, TrackTypes DEF CallsInv, ContactTypeOK, EditResume, decisions
<1> QED
  BY <1>3, ProfessionalsKeep DEF EditResume

LEMMA CallsEndedKeeps ==
    ASSUME CallsInv, Track, CallsEnded
    PROVE  CallsInv'
<1>1. ContactTypeOK'
  BY TrackTypes DEF CallsInv, ContactTypeOK, CallsEnded, ReadOnly, decisions
<1> QED
  BY <1>1, ProfessionalsKeep DEF CallsEnded, ReadOnly

-----------------------------------------------------------------------------
\* The invariant.

LEMMA CallStepKeeps ==
    ASSUME CallsInv, Track, NEW c \in Callers, CallStep(c)
    PROVE  CallsInv'
<1>1. CASE AskList(c) \/ AskContact(c) \/ AskReview(c) \/ AskStatus(c) \/ AskProfile(c) \/ AskChange(c)
  BY <1>1, AskKeeps
<1>2. CASE LockAvailableCompany(c)
  BY <1>2, LockAvailableCompanyKeeps
<1>3. CASE ReadApplicants(c)
  BY <1>3, ReadApplicantsKeeps
<1>4. CASE ReadMatches(c)
  BY <1>4, ReadMatchesKeeps
<1>5. CASE ReadResumeSkills(c)
  BY <1>5, ReadResumeSkillsKeeps
<1>6. CASE LockAvailableProfessional(c)
  BY <1>6, LockAvailableProfessionalKeeps
<1>7. CASE SendContact(c)
  BY <1>7, SendContactKeeps
<1>8. CASE LockCompanyForReview(c)
  BY <1>8, LockCompanyForReviewKeeps
<1>9. CASE ReviewCompany(c)
  BY <1>9, ReviewCompanyKeeps
<1>10. CASE ReadCompanyStatus(c)
  BY <1>10, ReadCompanyStatusKeeps
<1>11. CASE FindCompanyForUpdate(c)
  BY <1>11, FindCompanyForUpdateKeeps
<1>12. CASE UpdateCompanyProfile(c)
  BY <1>12, UpdateCompanyProfileKeeps
<1>13. CASE LockAccount(c)
  BY <1>13, LockAccountKeeps
<1>14. CASE ChangeAccountStatus(c)
  BY <1>14, ChangeAccountStatusKeeps
<1>15. CASE Finish(c)
  BY <1>15, FinishKeeps
<1> QED
  BY <1>1, <1>2, <1>3, <1>4, <1>5, <1>6, <1>7, <1>8, <1>9, <1>10, <1>11, <1>12, <1>13, <1>14, <1>15
     DEF CallStep

LEMMA CallsInvNext ==
    ASSUME CallsInv, [ContactNext]_contactVars
    PROVE  CallsInv'
<1>1. CASE ContactNext
  <2>1. Track
    BY <1>1 DEF ContactNext
  <2>2. CASE \E c \in Callers : CallStep(c)
    BY <2>1, <2>2, CallStepKeeps
  <2>3. CASE \E p \in Professionals, j \in Jobs : Apply(p, j)
    BY <2>1, <2>3, ApplyKeeps
  <2>4. CASE \E p \in Professionals : EditResume(p)
    BY <2>1, <2>4, EditResumeKeeps
  <2>5. CASE CallsEnded
    BY <2>1, <2>5, CallsEndedKeeps
  <2> QED
    BY <1>1, <2>2, <2>3, <2>4, <2>5 DEF ContactNext
<1>2. CASE UNCHANGED contactVars
  <2>1. ContactTypeOK'
    BY <1>2 DEF CallsInv, ContactTypeOK, contactVars, decisions
  <2>2. \A d \in Callers : Shape(d)' /\ Locks(d)' /\ Reads(d)'
    BY <1>2, SMTT(30) DEF CallsInv, Shape, Locks, Reads, IsApprovedCompany, IsActive, contactVars, decisions
  <2>3. \A d, e \in Callers : d # e => Apart(d, e)'
    BY <1>2 DEF CallsInv, Apart, contactVars
  <2>4. DecidedOnce' /\ AddressesAreOwned'
    BY <1>2 DEF CallsInv, DecidedOnce, RejectionIsExplained, RejectionNotices, StatusIsExplained,
       AddressesAreOwned, contactVars, decisions, CnaeIsAllowed
  <2> QED
    BY <2>1, <2>2, <2>3, <2>4 DEF CallsInv
<1> QED
  BY <1>1, <1>2

LEMMA CallsInvInit ==
    ASSUME ContactInit
    PROVE  CallsInv
<1> USE NobodyIsNobody
<1>1. ContactTypeOK
  <2>1. /\ <<>> \in Seq([target : Accounts, from : AccountStatuses, to : AccountStatuses])
        /\ <<>> \in Seq([to : Accounts, kind : {"contact", "rejected"}])
        /\ <<>> \in Seq([co : Companies, who : Professionals, job : Jobs])
        /\ <<>> \in Seq(Professionals)
    OBVIOUS
  <2>2. account \in [Accounts -> AccountStatuses] /\ standing \in [Companies -> {"pending"} \cup Decisions]
        /\ addresses \in [Companies -> Nat] /\ begun \in Nat
    BY DEF ContactInit, AccountStatuses, Decisions
  <2>3. call \in [Callers -> CallStates] /\ known \in [Callers -> SUBSET Professionals]
    BY IdleIsACall DEF ContactInit
  <2>4. resume \in [Professionals -> [skills : SUBSET Skills, available : BOOLEAN]]
    BY DEF ContactInit
  <2>5. events = <<>> /\ notices = <<>> /\ contacts = <<>> /\ applied = [j \in Jobs |-> <<>>]
    BY DEF ContactInit
  <2> QED
    BY <2>1, <2>2, <2>3, <2>4, <2>5 DEF ContactTypeOK
<1>2. \A c \in Callers : Shape(c) /\ Locks(c) /\ Reads(c)
  BY DEF ContactInit, Idle, Shape, Locks, Reads
<1>3. \A c, d \in Callers : c # d => Apart(c, d)
  BY DEF ContactInit, Idle, Apart
<1>4. DecidedOnce
  <2>1. \A co \in Companies : RejectionNotices(co) = {}
    BY DEF ContactInit, RejectionNotices
  <2>2. RejectionIsExplained
    BY <2>1, FS_EmptySet DEF ContactInit, RejectionIsExplained
  <2> QED
    BY <2>2 DEF ContactInit, DecidedOnce, StatusIsExplained, Idle
<1>5. AddressesAreOwned
  BY DEF ContactInit, AddressesAreOwned
<1> QED
  BY <1>1, <1>2, <1>3, <1>4, <1>5 DEF CallsInv

LEMMA CallsInvHolds == ContactSpec => []CallsInv
BY CallsInvInit, CallsInvNext, PTL DEF ContactSpec

\* Every variable of the calls keeps its type, for any number of callers, whatever
\* is left of a transaction when another one commits.
THEOREM ContactsAreTyped == ContactSpec => []ContactTypeOK
<1>1. CallsInv => ContactTypeOK
  BY DEF CallsInv
<1> QED
  BY <1>1, CallsInvHolds, PTL

\* Decisions on a company and edits of its profile take their turns: one decision,
\* told once and with its reason, and one address, whoever runs at the same time.
THEOREM CompaniesChangeSerially == ContactSpec => []CompanyChangesAreSerial
<1>1. CallsInv => CompanyChangesAreSerial
  BY DEF CallsInv, CompanyChangesAreSerial
<1> QED
  BY <1>1, CallsInvHolds, PTL

\* No contact commits while an account is blocked or the company is not
\* approved, and none is about another company's job.
THEOREM ContactsAreBetweenAvailableAccounts == ContactSpec => OnlyAvailableAccountsMeet
<1> DEFINE Fair == contacts' # contacts =>
                       LET sent == contacts'[Len(contacts')] IN
                       /\ account[sent.co] = "active" /\ account[sent.who] = "active"
                       /\ standing[sent.co] = "approved"
                       /\ Owner[sent.job] = sent.co
<1>1. ASSUME CallsInv, [ContactNext]_contactVars
      PROVE  [Fair]_contactVars
  <2> SUFFICES ASSUME contacts' # contacts
               PROVE  Fair
    OBVIOUS
  <2>1. ContactNext
    BY <1>1 DEF contactVars
  <2>2. PICK c \in Callers : SendContact(c)
    <3>1. ~ CallsEnded /\ ~ (\E p \in Professionals, j \in Jobs : Apply(p, j))
          /\ ~ (\E p \in Professionals : EditResume(p))
      BY DEF CallsEnded, ReadOnly, Apply, EditResume
    <3>2. PICK c \in Callers : CallStep(c)
      BY <2>1, <3>1 DEF ContactNext
    <3> QED
      BY <3>2 DEF CallStep, AskList, AskContact, AskReview, AskStatus, AskProfile, AskChange, Begin,
         LockAvailableCompany, ReadApplicants, ReadMatches, ReadResumeSkills,
         LockAvailableProfessional, LockCompanyForReview, ReviewCompany, ReadCompanyStatus,
         FindCompanyForUpdate, UpdateCompanyProfile, LockAccount, ChangeAccountStatus, Finish, ReadOnly
  <2> DEFINE sent == [co |-> call[c].co, who |-> call[c].who, job |-> call[c].job]
  <2>3. contacts \in Seq([co : Companies, who : Professionals, job : Jobs])
    BY <1>1 DEF CallsInv, ContactTypeOK
  <2>4. contacts' = Append(contacts, sent)
    BY <2>2 DEF SendContact
  <2>5. contacts'[Len(contacts')] = sent
    <3> HIDE DEF sent
    <3> QED
      BY <2>3, <2>4
  <2>6. call[c].at = "send" /\ Shape(c) /\ Reads(c) /\ call[c] \in CallStates
    BY <1>1, <2>2 DEF SendContact, CallsInv, ContactTypeOK
  <2>7. call[c].op = "contact"
    BY <2>6 DEF Shape, CallStates
  <2>8. /\ account[call[c].co] = "active" /\ account[call[c].who] = "active"
        /\ standing[call[c].co] = "approved" /\ Owner[call[c].job] = call[c].co
    BY <2>6, <2>7 DEF Reads, IsApprovedCompany, IsActive
  <2> QED
    BY <2>5, <2>8
<1> QED
  BY <1>1, CallsInvHolds, PTL DEF ContactSpec, OnlyAvailableAccountsMeet

-----------------------------------------------------------------------------
\* The audit log: the call that changes an account wrote down what it had read
\* under the lock it still holds.

LEMMA ChangeIsLogged ==
    ASSUME CallsInv, AuditLogIsTrue, NEW c \in Callers, ChangeAccountStatus(c)
    PROVE  AuditLogIsTrue'
<1> DEFINE a == call[c].who
           n == Len(events)
           event == [target |-> a, from |-> call[c].was, to |-> call[c].value]
<1>1. /\ a \in Accounts /\ call[c].was = account[a]
      /\ account \in [Accounts -> AccountStatuses]
      /\ events \in Seq([target : Accounts, from : AccountStatuses, to : AccountStatuses])
  BY DEF CallsInv, ContactTypeOK, ChangeAccountStatus, Shape, Reads
<1>2. account' = [account EXCEPT ![a] = call[c].value] /\ events' = Append(events, event)
  BY DEF ChangeAccountStatus
<1>3. event.target = a /\ event.from = account[a] /\ event.to = call[c].value
  BY <1>1
<1>4. /\ n \in Nat /\ DOMAIN events = 1..n /\ DOMAIN events' = 1..(n + 1)
      /\ \A i \in 1..n : events'[i] = events[i]
      /\ events'[n + 1] = event
  <2> HIDE DEF event
  <2> QED
    BY <1>1, <1>2
<1> HIDE DEF event, n
<1>5. ASSUME NEW b \in Accounts
      PROVE  IF LastEvents(b)' = {} THEN account'[b] = "active"
             ELSE \A i \in LastEvents(b)' : account'[b] = events'[i].to
  <2>1. CASE b = a
    <3>1. \A i \in LastEvents(b)' : i = n + 1
      BY <1>3, <1>4, <2>1 DEF LastEvents
    <3>2. n + 1 \in LastEvents(b)'
      BY <1>3, <1>4, <2>1 DEF LastEvents
    <3>3. account'[b] = events'[n + 1].to
      BY <1>1, <1>2, <1>3, <1>4, <2>1
    <3> QED
      BY <3>1, <3>2, <3>3
  <2>2. CASE b # a
    <3>1. LastEvents(b)' = LastEvents(b)
      BY <1>3, <1>4, <2>2 DEF LastEvents
    <3>2. account'[b] = account[b]
      BY <1>1, <1>2, <2>2
    <3>3. \A i \in LastEvents(b) : events'[i] = events[i]
      BY <1>4 DEF LastEvents
    <3> QED
      BY <3>1, <3>2, <3>3 DEF AuditLogIsTrue
  <2> QED
    BY <2>1, <2>2
<1>6. ASSUME NEW i \in DOMAIN events', NEW j \in DOMAIN events',
             i < j, events'[i].target = events'[j].target,
             \A k \in (i + 1)..(j - 1) : events'[k].target # events'[i].target
      PROVE  events'[i].to = events'[j].from
  <2>1. i \in 1..n /\ i \in DOMAIN events /\ events'[i] = events[i]
    BY <1>4, <1>6
  <2>2. CASE j \in 1..n
    <3>1. \A k \in (i + 1)..(j - 1) : events[k].target # events[i].target
      BY <1>4, <1>6, <2>1, <2>2
    <3>2. events'[j] = events[j]
      BY <1>4, <2>2
    <3> QED
      BY <1>4, <1>6, <2>1, <2>2, <3>1, <3>2 DEF AuditLogIsTrue
  <2>3. CASE j = n + 1
    <3>1. events[i].target = a
      BY <1>3, <1>4, <1>6, <2>1, <2>3
    <3>2. \A k \in DOMAIN events : events[k].target = a => k <= i
      <4> SUFFICES ASSUME NEW k \in 1..n, events[k].target = a, ~ (k <= i)
                   PROVE  FALSE
        BY <1>4
      <4>1. k \in (i + 1)..(j - 1)
        BY <1>4, <2>1, <2>3
      <4>2. events'[k].target # events'[i].target
        BY <1>6, <4>1
      <4> QED
        BY <1>4, <2>1, <3>1, <4>2
    <3>3. i \in LastEvents(a)
      BY <2>1, <3>1, <3>2 DEF LastEvents
    <3>4. account[a] = events[i].to
      BY <1>1, <3>3 DEF AuditLogIsTrue
    <3> QED
      BY <1>3, <1>4, <2>1, <2>3, <3>4
  <2> QED
    BY <1>4, <2>2, <2>3
<1> QED
  BY <1>5, <1>6 DEF AuditLogIsTrue

LEMMA OthersLogNothing ==
    ASSUME ContactNext, ~ (\E c \in Callers : ChangeAccountStatus(c))
    PROVE  UNCHANGED <<account, events>>
<1>1. CASE \E c \in Callers : CallStep(c)
  <2>1. PICK c \in Callers : CallStep(c) /\ ~ ChangeAccountStatus(c)
    BY <1>1
  <2> QED
    BY <2>1 DEF CallStep, AskList, AskContact, AskReview, AskStatus, AskProfile, AskChange, Begin,
       LockAvailableCompany, ReadApplicants, ReadMatches, ReadResumeSkills, SendContact,
       LockAvailableProfessional, LockCompanyForReview, ReviewCompany, ReadCompanyStatus,
       FindCompanyForUpdate, UpdateCompanyProfile, LockAccount, Finish, ReadOnly
<1>2. CASE ~ (\E c \in Callers : CallStep(c))
  BY <1>2 DEF ContactNext, CallsEnded, ReadOnly, Apply, EditResume
<1> QED
  BY <1>1, <1>2

\* The status of every account is what its last event says, and its events follow
\* on from one another, however many administrators change it at once.
THEOREM AuditLogHolds == ContactSpec => []AuditLogIsTrue
<1>1. ContactInit => AuditLogIsTrue
  BY DEF ContactInit, AuditLogIsTrue, LastEvents
<1>2. ASSUME CallsInv, AuditLogIsTrue, [ContactNext]_contactVars
      PROVE  AuditLogIsTrue'
  <2>1. CASE \E c \in Callers : ChangeAccountStatus(c)
    BY <1>2, <2>1, ChangeIsLogged
  <2>2. CASE ~ (\E c \in Callers : ChangeAccountStatus(c))
    <3>1. UNCHANGED <<account, events>>
      BY <1>2, <2>2, OthersLogNothing DEF contactVars
    <3> QED
      BY <1>2, <3>1 DEF AuditLogIsTrue, LastEvents
  <2> QED
    BY <2>1, <2>2
<1> QED
  BY <1>1, <1>2, CallsInvHolds, PTL DEF ContactSpec

-----------------------------------------------------------------------------
\* The list of a job's applicants and matches, which is sorted and then filtered.

\* The percentage grows with the skills matched, although it is rounded: with at
\* most MostSkills required, one more adds more than the rounding takes away.
LEMMA QuotientGrows ==
    ASSUME NEW a \in Nat, NEW b \in Nat, NEW d \in Nat \ {0}, b >= a + d
    PROVE  /\ a \div d \in Nat /\ b \div d \in Nat
           /\ b \div d > a \div d
OBVIOUS

LEMMA ShareGrows ==
    ASSUME NEW n \in 1..MostSkills, NEW k \in 0..n, NEW m \in 0..n
    PROVE  /\ RoundedShare(k, n) \in Nat
           /\ k < m => RoundedShare(k, n) < RoundedShare(m, n)
<1>1. 20000 * k + n \in Nat /\ 20000 * m + n \in Nat /\ 2 * n \in Nat \ {0}
  BY DEF MostSkills
<1>2. k < m => 20000 * m + n >= (20000 * k + n) + 2 * n
  BY DEF MostSkills
<1>3. (20000 * k + n) \div (2 * n) \in Nat
  BY <1>1
<1> QED
  BY <1>1, <1>2, <1>3, QuotientGrows DEF RoundedShare

\* What is matched and what is missing are all that is required.
LEMMA ScoreCounts ==
    ASSUME NEW required, IsFiniteSet(required), NEW skills
    PROVE  /\ MatchedCount(Score(required, skills)) \in 0..Cardinality(required)
           /\ RequiredCount(Score(required, skills)) = Cardinality(required)
           /\ Cardinality(required) \in Nat
<1> DEFINE matched == required \cap skills
           missing == required \ skills
<1>1. IsFiniteSet(matched) /\ IsFiniteSet(missing) /\ matched \cap missing = {}
      /\ required = matched \cup missing
  BY FS_Subset
<1>2. /\ Cardinality(matched) \in Nat /\ Cardinality(missing) \in Nat
      /\ Cardinality(required) \in Nat
  BY <1>1, FS_CardinalityType
<1>3. Cardinality(required) = Cardinality(matched) + Cardinality(missing)
  <2>1. matched \cap missing = {}
    BY <1>1
  <2>2. Cardinality(matched \cap missing) = 0
    BY <2>1, FS_EmptySet
  <2> HIDE DEF matched, missing
  <2>3. Cardinality(matched \cup missing)
           = Cardinality(matched) + Cardinality(missing) - Cardinality(matched \cap missing)
    BY <1>1, FS_Union
  <2> QED
    BY <1>1, <1>2, <2>2, <2>3
<1> QED
  BY <1>2, <1>3 DEF MatchedCount, RequiredCount, Score

\* The percentage a company reads orders professionals exactly as the number of
\* required skills they have: the rounding to two places never makes two different
\* counts equal, nor swaps them, while a job requires at most 100 skills.
THEOREM PercentageGrows ==
    ASSUME NEW required, IsFiniteSet(required), required # {}, Cardinality(required) <= MostSkills,
           NEW a, NEW b
    PROVE  LET share(s) == Cardinality(required \cap s) IN
           /\ share(a) \in Nat /\ share(b) \in Nat
           /\ Percentage(Score(required, a)) \in Nat
           /\ share(a) < share(b) =>
                 Percentage(Score(required, a)) < Percentage(Score(required, b))
           /\ share(a) = share(b) =>
                 Percentage(Score(required, a)) = Percentage(Score(required, b))
<1> DEFINE n == Cardinality(required)
           k == MatchedCount(Score(required, a))
           m == MatchedCount(Score(required, b))
<1>1. n \in 1..MostSkills
  <2>1. n \in Nat /\ n # 0
    BY FS_CardinalityType, FS_EmptySet
  <2> QED
    BY <2>1 DEF MostSkills
<1>2. /\ k \in 0..n /\ m \in 0..n
      /\ RequiredCount(Score(required, a)) = n /\ RequiredCount(Score(required, b)) = n
  BY ScoreCounts
<1>3. k = Cardinality(required \cap a) /\ m = Cardinality(required \cap b)
  BY DEF MatchedCount, Score
<1> HIDE DEF n, k, m
<1>4. /\ RoundedShare(k, n) \in Nat
      /\ k < m => RoundedShare(k, n) < RoundedShare(m, n)
  BY <1>1, <1>2, ShareGrows
<1>5. Percentage(Score(required, a)) = RoundedShare(k, n)
      /\ Percentage(Score(required, b)) = RoundedShare(m, n)
  BY <1>2 DEF Percentage, k, m
<1>6. k \in Nat /\ m \in Nat
  BY <1>1, <1>2
<1> QED
  BY <1>3, <1>4, <1>5, <1>6

\* A ranking is a permutation: larger shares first, equal ones as they came.
Arranges(order, given, ranked, required, skillsOf) ==
    LET n == Len(given)
        share(k) == Cardinality(required \cap skillsOf[given[k]])
    IN  /\ order \in [1..n -> 1..n]
        /\ \A k \in 1..n : ranked[k] = given[order[k]]
        /\ \A x \in 1..n : \E k \in 1..n : order[k] = x
        /\ \A i, j \in 1..n : i < j =>
              /\ order[i] # order[j]
              /\ share(order[i]) >= share(order[j])
              /\ share(order[i]) = share(order[j]) => order[i] < order[j]

LEMMA RankArranges ==
    ASSUME NEW T, NEW given \in Seq(T), NEW skillsOf,
           NEW required, IsFiniteSet(required), required # {}, Cardinality(required) <= MostSkills
    PROVE  /\ Rank(given, required, skillsOf) \in Seq(T)
           /\ Len(Rank(given, required, skillsOf)) = Len(given)
           /\ \E order : Arranges(order, given, Rank(given, required, skillsOf),
                                 required, skillsOf)
<1> DEFINE n == Len(given)
           S == 1..n
           share(k) == Cardinality(required \cap skillsOf[given[k]])
           percentage(k) == Percentage(Score(required, skillsOf[given[k]]))
           before == RankedBefore(given, required, skillsOf)
           order == InOrder(S, before)
<1>1. n \in Nat /\ S = DOMAIN given
  OBVIOUS
<1>2. before = {p \in S \X S : \/ percentage(p[1]) > percentage(p[2])
                               \/ percentage(p[1]) = percentage(p[2]) /\ p[1] < p[2]}
  BY <1>1 DEF RankedBefore
<1>3. \A i, j \in S : /\ share(i) \in Nat /\ share(j) \in Nat
                      /\ percentage(i) \in Nat
                      /\ share(i) < share(j) => percentage(i) < percentage(j)
                      /\ share(i) = share(j) => percentage(i) = percentage(j)
  BY PercentageGrows
<1> HIDE DEF share, percentage
<1>4. \A i, j \in S : <<i, j>> \in before <=>
          \/ percentage(i) > percentage(j)
          \/ percentage(i) = percentage(j) /\ i < j
  BY <1>2
<1> HIDE DEF before
<1>5. IsStrictOrder(before, S)
  <2>1. \A i \in S : i \in Nat /\ <<i, i>> \notin before
    BY <1>1, <1>3, <1>4
  <2>2. \A i, j \in S : i # j => <<i, j>> \in before \/ <<j, i>> \in before
    BY <1>3, <1>4, <2>1
  <2>3. \A i, j, k \in S : <<i, j>> \in before /\ <<j, k>> \in before => <<i, k>> \in before
    BY <1>3, <1>4, <2>1
  <2> HIDE DEF S
  <2> QED
    BY <2>1, <2>2, <2>3 DEF IsStrictOrder
<1>6. IsFiniteSet(S) /\ Cardinality(S) = n
  <2>1. n = 0 \/ n >= 1
    BY <1>1
  <2> QED
    BY <1>1, <2>1, FS_Interval, SMTT(30)
<1> HIDE DEF S
<1>7. /\ order \in [1..n -> S]
      /\ \A x \in S : \E k \in 1..n : order[k] = x
      /\ \A i, j \in 1..n : i < j => <<order[i], order[j]>> \in before
  BY <1>5, <1>6, InOrderLists
<1>8. Rank(given, required, skillsOf) = [k \in S |-> given[order[k]]]
  BY <1>1 DEF Rank, before, order
<1> HIDE DEF order
<1>9. /\ Rank(given, required, skillsOf) \in Seq(T)
      /\ Len(Rank(given, required, skillsOf)) = n
      /\ \A k \in 1..n : Rank(given, required, skillsOf)[k] = given[order[k]]
  <2>1. \A k \in 1..n : given[order[k]] \in T
    BY <1>1, <1>7
  <2> QED
    BY <1>1, <1>8, <2>1 DEF S
<1>10. ASSUME NEW i \in 1..n, NEW j \in 1..n, i < j
       PROVE  /\ order[i] # order[j]
              /\ share(order[i]) >= share(order[j])
              /\ share(order[i]) = share(order[j]) => order[i] < order[j]
  <2>1. order[i] \in S /\ order[j] \in S /\ <<order[i], order[j]>> \in before
    BY <1>7, <1>10
  <2>2. order[i] # order[j]
    BY <1>5, <2>1 DEF IsStrictOrder
  <2>3. \/ percentage(order[i]) > percentage(order[j])
        \/ percentage(order[i]) = percentage(order[j]) /\ order[i] < order[j]
    BY <1>4, <2>1
  <2>4. /\ share(order[i]) \in Nat /\ share(order[j]) \in Nat
        /\ percentage(order[i]) \in Nat /\ percentage(order[j]) \in Nat
        /\ share(order[i]) < share(order[j]) => percentage(order[i]) < percentage(order[j])
        /\ share(order[i]) = share(order[j]) => percentage(order[i]) = percentage(order[j])
    BY <1>3, <2>1
  <2> QED
    BY <2>2, <2>3, <2>4
<1>11. order \in [1..n -> 1..n] /\ \A x \in 1..n : \E k \in 1..n : order[k] = x
  BY <1>7 DEF S
<1>12. Arranges(order, given, Rank(given, required, skillsOf), required, skillsOf)
  BY <1>9, <1>10, <1>11 DEF share, Arranges
<1> QED
  BY <1>9, <1>12

NoRepeats(s) == \A i, j \in DOMAIN s : i < j => s[i] # s[j]

\* Applicants and matches, one after the other: nobody twice, and an earlier
\* place is an earlier application, or an application, or a smaller identifier.
LEMMA GivenPlaces ==
    ASSUME NEW rows \in Seq(Professionals), NoRepeats(rows),
           NEW matches \in SUBSET Professionals, IsFiniteSet(matches),
           \A i \in DOMAIN rows : rows[i] \notin matches
    PROVE  LET given == rows \o InOrder(matches, Ascending) IN
           /\ given \in Seq(Professionals)
           /\ \A x : (\E i \in DOMAIN given : given[i] = x)
                       <=> (\E i \in DOMAIN rows : rows[i] = x) \/ x \in matches
           /\ \A i, j \in DOMAIN given : i # j => given[i] # given[j]
           /\ \A i, j \in DOMAIN given : i < j =>
                 IF j \in DOMAIN rows
                 THEN i \in DOMAIN rows /\ given[i] = rows[i] /\ given[j] = rows[j]
                 ELSE /\ given[j] \in matches
                      /\ \/ i \in DOMAIN rows /\ given[i] = rows[i]
                         \/ given[i] < given[j]
<1> DEFINE s == InOrder(matches, Ascending)
           n == Cardinality(matches)
           given == rows \o s
           m == Len(rows)
<1>1. matches \in SUBSET Int /\ \A x \in matches : x \in Int
  BY ContactsAssumption DEF ContactsAssumption
<1>2. /\ n \in Nat /\ s \in [1..n -> matches]
      /\ \A x \in matches : \E k \in 1..n : s[k] = x
      /\ \A i, j \in 1..n : i < j => <<s[i], s[j]>> \in Ascending
  BY <1>1, AscendingIsAnOrder, InOrderLists
<1> HIDE DEF n, s
<1>3. \A i, j \in 1..n : i < j => s[i] < s[j]
  BY <1>2 DEF Ascending
<1>4. s \in Seq(matches) /\ s \in Seq(Professionals) /\ Len(s) = n
  BY <1>2
<1>5. /\ given \in Seq(Professionals) /\ DOMAIN given = 1..(m + n)
      /\ m \in Nat /\ DOMAIN rows = 1..m
      /\ \A i \in 1..m : given[i] = rows[i]
      /\ \A i \in (m + 1)..(m + n) : i - m \in 1..n /\ given[i] = s[i - m]
      /\ \A k \in 1..n : m + k \in (m + 1)..(m + n) /\ given[m + k] = s[k]
  BY <1>2, <1>4
<1> HIDE DEF given, m
<1>6. \A i \in 1..(m + n) : i \in 1..m \/ i \in (m + 1)..(m + n)
  BY <1>2, <1>5
<1>7. \A i \in (m + 1)..(m + n) : given[i] \in matches
  BY <1>2, <1>5
<1>8. ASSUME NEW x
      PROVE  (\E i \in DOMAIN given : given[i] = x)
               <=> (\E i \in DOMAIN rows : rows[i] = x) \/ x \in matches
  <2>1. ASSUME NEW i \in DOMAIN given, given[i] = x
        PROVE  (\E j \in DOMAIN rows : rows[j] = x) \/ x \in matches
    BY <1>5, <1>6, <1>7, <2>1
  <2>2. ASSUME NEW i \in DOMAIN rows, rows[i] = x
        PROVE  \E j \in DOMAIN given : given[j] = x
    <3>1. i \in DOMAIN given
      BY <1>2, <1>5
    <3> QED
      BY <1>5, <2>2, <3>1
  <2>3. ASSUME x \in matches
        PROVE  \E j \in DOMAIN given : given[j] = x
    <3>1. PICK k \in 1..n : s[k] = x
      BY <1>2, <2>3
    <3>2. m + k \in DOMAIN given /\ given[m + k] = x
      BY <1>2, <1>5, <3>1
    <3> QED
      BY <3>2
  <2> QED
    BY <2>1, <2>2, <2>3
<1>9. ASSUME NEW i \in DOMAIN given, NEW j \in DOMAIN given, i < j
      PROVE  /\ given[i] # given[j]
             /\ IF j \in DOMAIN rows
                THEN i \in DOMAIN rows /\ given[i] = rows[i] /\ given[j] = rows[j]
                ELSE /\ given[j] \in matches
                     /\ \/ i \in DOMAIN rows /\ given[i] = rows[i]
                        \/ given[i] < given[j]
  <2>1. CASE j \in 1..m
    <3>1. i \in 1..m
      BY <1>5, <1>9, <2>1
    <3> QED
      BY <1>5, <1>9, <2>1, <3>1 DEF NoRepeats
  <2>2. CASE j \notin 1..m
    <3>1. j \in (m + 1)..(m + n) /\ given[j] \in matches
      BY <1>5, <1>6, <1>7, <2>2
    <3>2. CASE i \in 1..m
      BY <1>5, <2>2, <3>1, <3>2
    <3>3. CASE i \notin 1..m
      <4>1. i \in (m + 1)..(m + n)
        BY <1>5, <1>6, <3>3
      <4>2. i - m \in 1..n /\ j - m \in 1..n /\ given[i] = s[i - m] /\ given[j] = s[j - m]
        BY <1>5, <3>1, <4>1
      <4>3. i - m < j - m
        BY <1>2, <1>5, <1>9, <3>1, <4>1
      <4>4. given[i] < given[j]
        BY <1>3, <4>2, <4>3
      <4>5. given[i] \in Int /\ given[j] \in Int
        BY <1>1, <1>7, <3>1, <4>1
      <4> QED
        BY <1>5, <2>2, <3>1, <4>4, <4>5
    <3> QED
      BY <3>2, <3>3
  <2> QED
    BY <2>1, <2>2
<1>10. ASSUME NEW i \in DOMAIN given, NEW j \in DOMAIN given, i # j
       PROVE  given[i] # given[j]
  <2>1. i < j \/ j < i
    BY <1>2, <1>5, <1>10
  <2> QED
    BY <1>9, <2>1
<1> QED
  BY <1>5, <1>8, <1>9, <1>10 DEF given, s

\* What a list of applicants and matches ought to be, ties included.
IsTheList(list, rows, matches, skills, required) ==
    LET share(p) == Cardinality(required \cap skills[p]) IN
    /\ \A x : (\E i \in DOMAIN list : list[i] = x)
                <=> \/ \E i \in DOMAIN rows : rows[i] = x
                    \/ x \in matches /\ IsAutomaticMatch(Score(required, skills[x]))
    /\ \A i, j \in DOMAIN list : i < j =>
          /\ list[i] # list[j]
          /\ share(list[i]) >= share(list[j])
          /\ share(list[i]) = share(list[j]) =>
                IF list[j] \in matches
                THEN (\E k \in DOMAIN rows : rows[k] = list[i]) \/ list[i] < list[j]
                ELSE \E k, l \in DOMAIN rows :
                        k < l /\ rows[k] = list[i] /\ rows[l] = list[j]

\* The list of a job that requires skills.
THEOREM RankedListHolds ==
    ASSUME NEW rows \in Seq(Professionals), NoRepeats(rows),
           NEW matches \in SUBSET Professionals, IsFiniteSet(matches),
           \A i \in DOMAIN rows : rows[i] \notin matches,
           NEW required, IsFiniteSet(required), required # {}, Cardinality(required) <= MostSkills,
           NEW skills
    PROVE  IsTheList(RankedList(rows, matches, skills, required), rows, matches, skills, required)
<1> DEFINE given == rows \o InOrder(matches, Ascending)
           ranked == Rank(given, required, skills)
           n == Len(given)
           share(p) == Cardinality(required \cap skills[p])
           kept == {rows[i] : i \in DOMAIN rows}
                     \cup {p \in matches : IsAutomaticMatch(Score(required, skills[p]))}
           list == Filter(ranked, kept)
<1>1. /\ given \in Seq(Professionals)
      /\ \A x : (\E i \in DOMAIN given : given[i] = x)
                  <=> (\E i \in DOMAIN rows : rows[i] = x) \/ x \in matches
      /\ \A i, j \in DOMAIN given : i # j => given[i] # given[j]
      /\ \A i, j \in DOMAIN given : i < j =>
            IF j \in DOMAIN rows
            THEN i \in DOMAIN rows /\ given[i] = rows[i] /\ given[j] = rows[j]
            ELSE /\ given[j] \in matches
                 /\ \/ i \in DOMAIN rows /\ given[i] = rows[i]
                    \/ given[i] < given[j]
  BY GivenPlaces
<1> HIDE DEF given
<1>2. n \in Nat /\ DOMAIN given = 1..n
  BY <1>1
<1>3. /\ ranked \in Seq(Professionals) /\ Len(ranked) = n
      /\ \E order : Arranges(order, given, ranked, required, skills)
  BY <1>1, RankArranges
<1> HIDE DEF ranked
<1>4. PICK order \in [1..n -> 1..n] :
            /\ \A k \in 1..n : ranked[k] = given[order[k]]
            /\ \A x \in 1..n : \E k \in 1..n : order[k] = x
            /\ \A i, j \in 1..n : i < j =>
                  /\ order[i] # order[j]
                  /\ share(given[order[i]]) >= share(given[order[j]])
                  /\ share(given[order[i]]) = share(given[order[j]]) => order[i] < order[j]
  BY <1>3 DEF Arranges
<1> HIDE DEF n, share
<1>5. DOMAIN ranked = 1..n
  BY <1>3
<1>6. /\ list \in Seq(Professionals)
      /\ \A x : (\E i \in DOMAIN list : list[i] = x)
                  <=> x \in kept /\ \E i \in DOMAIN ranked : ranked[i] = x
      /\ \A i, j \in DOMAIN list : i < j =>
            \E k, l \in DOMAIN ranked : k < l /\ list[i] = ranked[k] /\ list[j] = ranked[l]
  <2> HIDE DEF kept
  <2>1. ranked \in Seq(Professionals)
    BY <1>3
  <2> QED
    BY <2>1, FilterKeeps, SMTT(30)
<1>7. \A x : x \in kept <=> \/ \E i \in DOMAIN rows : rows[i] = x
                            \/ x \in matches /\ IsAutomaticMatch(Score(required, skills[x]))
  OBVIOUS
<1>8. RankedList(rows, matches, skills, required) = list
  BY DEF RankedList, given, ranked
<1> HIDE DEF list, kept
<1>9. \A x : (\E i \in DOMAIN ranked : ranked[i] = x)
               <=> (\E i \in DOMAIN rows : rows[i] = x) \/ x \in matches
  <2>1. ASSUME NEW x, NEW i \in DOMAIN ranked, ranked[i] = x
        PROVE  \E k \in DOMAIN given : given[k] = x
    BY <1>2, <1>4, <1>5, <2>1
  <2>2. ASSUME NEW x, NEW i \in DOMAIN given, given[i] = x
        PROVE  \E k \in DOMAIN ranked : ranked[k] = x
    BY <1>2, <1>4, <1>5, <2>2
  <2> QED
    BY <1>1, <2>1, <2>2
<1>10. \A x : (\E i \in DOMAIN list : list[i] = x)
                <=> \/ \E i \in DOMAIN rows : rows[i] = x
                    \/ x \in matches /\ IsAutomaticMatch(Score(required, skills[x]))
  BY <1>6, <1>7, <1>9
<1>11. ASSUME NEW i \in DOMAIN list, NEW j \in DOMAIN list, i < j
       PROVE  /\ list[i] # list[j]
              /\ share(list[i]) >= share(list[j])
              /\ share(list[i]) = share(list[j]) =>
                    IF list[j] \in matches
                    THEN (\E k \in DOMAIN rows : rows[k] = list[i]) \/ list[i] < list[j]
                    ELSE \E k, l \in DOMAIN rows :
                            k < l /\ rows[k] = list[i] /\ rows[l] = list[j]
  <2>1. PICK k \in 1..n, l \in 1..n : k < l /\ list[i] = ranked[k] /\ list[j] = ranked[l]
    BY <1>5, <1>6, <1>11
  <2> DEFINE a == order[k]
             b == order[l]
  <2>2. /\ a \in 1..n /\ b \in 1..n /\ a # b
        /\ list[i] = given[a] /\ list[j] = given[b]
        /\ share(given[a]) >= share(given[b])
        /\ share(given[a]) = share(given[b]) => a < b
    BY <1>4, <2>1
  <2> HIDE DEF a, b
  <2>3. list[i] # list[j]
    BY <1>1, <1>2, <2>2
  <2>4. ASSUME share(list[i]) = share(list[j])
        PROVE  IF list[j] \in matches
               THEN (\E x \in DOMAIN rows : rows[x] = list[i]) \/ list[i] < list[j]
               ELSE \E x, y \in DOMAIN rows :
                       x < y /\ rows[x] = list[i] /\ rows[y] = list[j]
    <3>1. a < b /\ a \in DOMAIN given /\ b \in DOMAIN given
      BY <1>2, <2>2, <2>4
    <3>2. CASE b \in DOMAIN rows
      BY <1>1, <2>2, <3>1, <3>2
    <3>3. CASE b \notin DOMAIN rows
      BY <1>1, <2>2, <3>1, <3>3
    <3> QED
      BY <3>2, <3>3
  <2> QED
    BY <2>2, <2>3, <2>4
<1> QED
  BY <1>8, <1>10, <1>11 DEF share, IsTheList

-----------------------------------------------------------------------------
\* What a listing has read and is still true, whoever applies or edits a résumé.
Listing(c) ==
    LET q == call[c]
        hasApplied(p) == HasApplied(p, q.job)
    IN  /\ q.at \in {"company", "applicants", "matches"} => q.matches = {}
        /\ q.at \in {"matches", "skills", "listed"} =>
              NoRepeats(q.rows) /\ \A i \in DOMAIN q.rows : hasApplied(q.rows[i])
        /\ q.at \in {"skills", "listed"} =>
              /\ IsFiniteSet(q.matches)
              /\ \A i \in DOMAIN q.rows : q.rows[i] \notin q.matches
              /\ Required[q.job] = {} => q.matches = {}
        /\ q.at = "skills" => \A p \in known[c] : hasApplied(p) \/ p \in q.matches
        /\ q.at = "listed" /\ Required[q.job] # {} =>
              \A p \in known[c] :
                  \/ hasApplied(p)
                  \/ /\ p \in q.matches
                     /\ IsAutomaticMatch(Score(Required[q.job], q.skills[p]))

\* Only those who edited a résumé have skills: finitely many, in any state.
Skilled == {p \in Professionals : resume[p].skills # {}}

ListInv ==
    /\ \A j \in Jobs : NoRepeats(applied[j])
    /\ IsFiniteSet(Skilled)
    /\ \A c \in Callers : Lists(c) => Listing(c)

\* A set of presentable professionals only shrinks while it is listed.
LEMMA TrackShrinks ==
    ASSUME Track, NEW c \in Callers, Lists(c)'
    PROVE  /\ Lists(c) => known'[c] \subseteq known[c]
           /\ \A p \in known'[c] :
                 \/ HasApplied(p, call[c].job)'
                 \/ /\ p \in AutomaticMatchCandidates(call[c].job)'
                    /\ IsAutomaticMatch(Score(Required[call'[c].job], resume'[p].skills))
<1>1. known'[c] = IF Lists(c) THEN known[c] \cap Presentable(call[c].job)'
                  ELSE Presentable(call[c].job)'
  BY DEF Track
<1> QED
  BY <1>1 DEF Presentable

\* Who has applied stays an applicant.
AppliedGrows == \A j \in Jobs, p \in Professionals : HasApplied(p, j) => HasApplied(p, j)'

\* A call that does not move goes on knowing what it knew.
LEMMA ListingLasts ==
    ASSUME ContactTypeOK, Track, AppliedGrows, NEW c \in Callers,
           Lists(c), Listing(c), Shape(c), call'[c] = call[c]
    PROVE  Listing(c)'
<1>1. Lists(c)' /\ call[c] \in CallStates /\ call[c].job \in Jobs
  BY DEF Lists, Shape, ContactTypeOK
<1>2. known'[c] \subseteq known[c] /\ known[c] \subseteq Professionals
  BY <1>1, TrackShrinks DEF ContactTypeOK
<1>3. call[c].rows \in Seq(Professionals)
  BY <1>1 DEF CallStates
<1>4. \A i \in DOMAIN call[c].rows : call[c].rows[i] \in Professionals
  BY <1>3
<1>5. \A p \in Professionals : HasApplied(p, call[c].job) => HasApplied(p, call[c].job)'
  BY <1>1 DEF AppliedGrows
<1> HIDE DEF HasApplied
<1> QED
  BY <1>1, <1>2, <1>4, <1>5 DEF Listing

\* An application goes to the end, and only of who has not applied.
LEMMA ApplyGrows ==
    ASSUME ContactTypeOK, \A j \in Jobs : NoRepeats(applied[j]),
           NEW p \in Professionals, NEW k \in Jobs, Apply(p, k)
    PROVE  AppliedGrows /\ \A j \in Jobs : NoRepeats(applied'[j])
<1>1. /\ applied \in [Jobs -> Seq(Professionals)]
      /\ applied' = [applied EXCEPT ![k] = Append(applied[k], p)]
      /\ ~ HasApplied(p, k)
  BY DEF ContactTypeOK, Apply
<1>2. /\ applied[k] \in Seq(Professionals) /\ applied'[k] = Append(applied[k], p)
      /\ \A j \in Jobs : j # k => applied'[j] = applied[j]
  BY <1>1
<1> DEFINE n == Len(applied[k])
<1>3. /\ n \in Nat /\ DOMAIN applied[k] = 1..n /\ DOMAIN applied'[k] = 1..(n + 1)
      /\ \A i \in 1..n : applied'[k][i] = applied[k][i]
      /\ applied'[k][n + 1] = p
  BY <1>2
<1> HIDE DEF n
<1>4. NoRepeats(applied'[k])
  BY <1>1, <1>3, SMTT(30) DEF NoRepeats, HasApplied
<1>5. \A j \in Jobs : NoRepeats(applied'[j])
  BY <1>2, <1>4
<1>6. \A x \in Professionals : HasApplied(x, k) => HasApplied(x, k)'
  BY <1>3 DEF HasApplied
<1>7. \A j \in Jobs : j # k => \A x \in Professionals : HasApplied(x, j) => HasApplied(x, j)'
  BY <1>2 DEF HasApplied
<1> QED
  BY <1>5, <1>6, <1>7 DEF AppliedGrows

LEMMA EditSkills ==
    ASSUME ContactTypeOK, IsFiniteSet(Skilled), NEW p \in Professionals, EditResume(p)
    PROVE  IsFiniteSet(Skilled')
<1>1. resume \in [Professionals -> [skills : SUBSET Skills, available : BOOLEAN]]
  BY DEF ContactTypeOK
<1>2. \A x \in Professionals : x # p => resume'[x] = resume[x]
  BY <1>1 DEF EditResume
<1>3. Skilled' \subseteq Skilled \cup {p}
  BY <1>2 DEF Skilled
<1>4. IsFiniteSet(Skilled \cup {p})
  BY FS_AddElement
<1> QED
  BY <1>3, <1>4, FS_Subset

\* A job's matches all have a skill.
LEMMA MatchesAreFinite ==
    ASSUME IsFiniteSet(Skilled), NEW j
    PROVE  /\ IsFiniteSet(AutomaticMatchCandidates(j))
           /\ Required[j] = {} => AutomaticMatchCandidates(j) = {}
           /\ AutomaticMatchCandidates(j) \subseteq Professionals
           /\ \A p \in AutomaticMatchCandidates(j) : ~ HasApplied(p, j)
<1>1. AutomaticMatchCandidates(j) \subseteq Skilled
  BY DEF AutomaticMatchCandidates, Skilled
<1> QED
  BY <1>1, FS_Subset DEF AutomaticMatchCandidates

\* A step of a call leaves what it has read, or replaces it by what is true now.
LEMMA AskListing ==
    ASSUME ContactTypeOK, NEW c \in Callers,
           \/ AskList(c) \/ AskContact(c) \/ AskReview(c) \/ AskStatus(c)
           \/ AskProfile(c) \/ AskChange(c)
    PROVE  Lists(c)' => call'[c].at \in {"company", "applicants"} /\ call'[c].matches = {}
<1>1. PICK q \in CallStates :
        /\ Begin(c, q) /\ q.matches = {}
        /\ q.op \in {"list", "contact"} => q.at \in {"company", "applicants"}
  BY AskBegins, ZenonT(40)
<1>2. call'[c] = q
  BY <1>1 DEF Begin, ContactTypeOK
<1> QED
  BY <1>1, <1>2 DEF Lists

LEMMA ReturnLists ==
    ASSUME ContactTypeOK, NEW c \in Callers, Return(c)
    PROVE  ~ Lists(c)'
BY ReturnMoves DEF Lists, Idle

LEMMA LockListing ==
    ASSUME ContactTypeOK, NEW c \in Callers, Lists(c) => Listing(c), LockAvailableCompany(c)
    PROVE  Lists(c)' => call'[c].at = "applicants" /\ call'[c].matches = {}
<1>1. CASE Return(c)
  BY <1>1, ReturnLists
<1>2. CASE ~ Return(c)
  <2>1. call[c] \in CallStates /\ call[c].op = "contact" /\ call[c].at = "company"
    BY DEF LockAvailableCompany, ContactTypeOK
  <2>2. call[c].matches = {}
    BY <2>1 DEF Lists, Listing
  <2>3. call' = [call EXCEPT ![c].at = "applicants", ![c].shared = {call[c].co}]
    BY <1>2 DEF LockAvailableCompany
  <2>4. call'[c].at = "applicants" /\ call'[c].matches = call[c].matches
    BY <2>1, <2>3 DEF ContactTypeOK, CallStates
  <2> QED
    BY <2>2, <2>4
<1> QED
  BY <1>1, <1>2

LEMMA ReadApplicantsListing ==
    ASSUME ContactTypeOK, Track, NEW c \in Callers, Shape(c), Lists(c) => Listing(c),
           \A j \in Jobs : NoRepeats(applied[j]), ReadApplicants(c)
    PROVE  Lists(c)' => Listing(c)'
<1>1. CASE Return(c)
  BY <1>1, ReturnLists
<1>2. CASE ~ Return(c)
  <2> DEFINE j == call[c].job
             at == IF Required[j] = {} THEN "listed" ELSE "matches"
  <2>1. call[c] \in CallStates /\ call[c].at = "applicants" /\ Lists(c) /\ j \in Jobs
    BY DEF ReadApplicants, ContactTypeOK, Shape, Lists, CallStates
  <2>2. call[c].matches = {}
    BY <2>1 DEF Listing
  <2>3. call' = [call EXCEPT ![c].rows = applied[j], ![c].at = at] /\ applied' = applied
    BY <1>2 DEF ReadApplicants, ReadOnly
  <2>4. /\ call'[c].at = at /\ call'[c].matches = {} /\ call'[c].rows = applied[j]
        /\ call'[c].job = j
    BY <2>1, <2>2, <2>3 DEF ContactTypeOK, CallStates
  <2>5. NoRepeats(applied[j]) /\ \A i \in DOMAIN applied[j] : HasApplied(applied[j][i], j)
    BY <2>1 DEF HasApplied
  <2>8. \A p : HasApplied(p, call[c].job)' <=> HasApplied(p, j)
    BY <2>3, <2>4 DEF HasApplied
  <2>6. IsFiniteSet({})
    BY FS_EmptySet
  <2>7. at \in {"listed", "matches"} /\ (at = "listed" => Required[j] = {})
    OBVIOUS
  <2> HIDE DEF at, j, HasApplied
  <2> QED
    BY <2>4, <2>5, <2>6, <2>7, <2>8 DEF Listing
<1> QED
  BY <1>1, <1>2

LEMMA ReadMatchesListing ==
    ASSUME ContactTypeOK, Track, NEW c \in Callers, Shape(c), Lists(c) => Listing(c),
           IsFiniteSet(Skilled), ReadMatches(c)
    PROVE  Lists(c)' => Listing(c)'
<1> DEFINE j == call[c].job
           found == AutomaticMatchCandidates(j)
<1>1. call[c] \in CallStates /\ call[c].at = "matches" /\ Lists(c) /\ j \in Jobs
  BY DEF ReadMatches, ContactTypeOK, Shape, Lists, CallStates
<1>2. /\ call' = [call EXCEPT ![c].matches = found, ![c].at = "skills"]
      /\ UNCHANGED <<applied, resume, account>>
  BY DEF ReadMatches, ReadOnly
<1>3. /\ call'[c].at = "skills" /\ call'[c].matches = found /\ call'[c].rows = call[c].rows
      /\ call'[c].job = j
  BY <1>1, <1>2 DEF ContactTypeOK, CallStates
<1>4. NoRepeats(call[c].rows) /\ \A i \in DOMAIN call[c].rows : HasApplied(call[c].rows[i], j)
  BY <1>1 DEF Listing
<1>5. /\ IsFiniteSet(found) /\ (Required[j] = {} => found = {})
      /\ \A p \in found : ~ HasApplied(p, j)
  BY MatchesAreFinite
<1>6. \A p : HasApplied(p, call[c].job)' <=> HasApplied(p, j)
  BY <1>2, <1>3 DEF HasApplied
<1>7. \A p : p \in AutomaticMatchCandidates(call[c].job)' => p \in found
  BY <1>2, <1>3, <1>6 DEF AutomaticMatchCandidates, IsActive
<1>8. Lists(c)' => \A p \in known'[c] : HasApplied(p, j) \/ p \in found
  BY <1>3, <1>6, <1>7, TrackShrinks
<1> HIDE DEF j, found, HasApplied
<1> QED
  BY <1>3, <1>4, <1>5, <1>6, <1>8 DEF Listing

LEMMA ReadResumeSkillsListing ==
    ASSUME ContactTypeOK, Track, NEW c \in Callers, Shape(c), Lists(c) => Listing(c),
           ReadResumeSkills(c)
    PROVE  Lists(c)' => Listing(c)'
<1> DEFINE j == call[c].job
           found == call[c].matches
           read == [p \in Professionals |->
                       IF p \in Applicants(c) \cup found THEN resume[p].skills ELSE {}]
<1>1. call[c] \in CallStates /\ call[c].at = "skills" /\ Lists(c) /\ j \in Jobs
  BY DEF ReadResumeSkills, ContactTypeOK, Shape, Lists, CallStates
<1>2. /\ call' = [call EXCEPT ![c].at = "listed", ![c].skills = read]
      /\ UNCHANGED <<applied, resume, account>>
  BY DEF ReadResumeSkills, ReadOnly
<1>3. \A p \in found : p \in Professionals /\ read[p] = resume[p].skills
  BY <1>1 DEF CallStates
<1> HIDE DEF read
<1>4. /\ call'[c].at = "listed" /\ call'[c].matches = found /\ call'[c].rows = call[c].rows
      /\ call'[c].job = j /\ call'[c].skills = read
  BY <1>1, <1>2 DEF ContactTypeOK, CallStates
<1>5. /\ NoRepeats(call[c].rows) /\ \A i \in DOMAIN call[c].rows : HasApplied(call[c].rows[i], j)
      /\ IsFiniteSet(found) /\ \A i \in DOMAIN call[c].rows : call[c].rows[i] \notin found
      /\ Required[j] = {} => found = {}
      /\ \A p \in known[c] : HasApplied(p, j) \/ p \in found
  BY <1>1 DEF Listing
<1>6. \A p : HasApplied(p, call[c].job)' <=> HasApplied(p, j)
  BY <1>2, <1>4 DEF HasApplied
<1>7. Lists(c)' => \A p \in known'[c] :
          /\ p \in known[c]
          /\ \/ HasApplied(p, j)
             \/ IsAutomaticMatch(Score(Required[j], resume[p].skills))
  BY <1>1, <1>2, <1>4, <1>6, TrackShrinks
<1>8. Lists(c)' => \A p \in known'[c] :
          \/ HasApplied(p, j)
          \/ p \in found /\ IsAutomaticMatch(Score(Required[j], read[p]))
  BY <1>3, <1>5, <1>7
<1> HIDE DEF j, found, HasApplied, IsAutomaticMatch, Score
<1> QED
  BY <1>4, <1>5, <1>6, <1>8 DEF Listing

\* The other statements end the listing, or are no part of one.
LEMMA OtherListing ==
    ASSUME ContactTypeOK, NEW c \in Callers, Shape(c),
           \/ LockAvailableProfessional(c) \/ SendContact(c)
           \/ LockCompanyForReview(c) \/ ReviewCompany(c) \/ ReadCompanyStatus(c)
           \/ FindCompanyForUpdate(c) \/ UpdateCompanyProfile(c)
           \/ LockAccount(c) \/ ChangeAccountStatus(c) \/ Finish(c)
    PROVE  Lists(c)' => call'[c].at = "send"
<1>1. CASE Return(c)
  BY <1>1, ReturnLists
<1>2. CASE ~ Return(c)
  <2>1. call[c] \in CallStates /\ c \in DOMAIN call
    BY DEF ContactTypeOK
  <2>2. CASE LockAvailableProfessional(c)
    <3>1. call' = [call EXCEPT ![c].at = "send", ![c].shared = @ \cup {call[c].who},
                        ![c].rows = <<>>, ![c].matches = {}, ![c].skills = Idle.skills]
      BY <1>2, <2>2 DEF LockAvailableProfessional
    <3>2. call'[c].at = "send"
      BY <2>1, <3>1 DEF ContactTypeOK, CallStates
    <3> QED
      BY <3>2
  <2>3. CASE LockCompanyForReview(c) \/ LockAccount(c)
    <3>1. call'[c].op = call[c].op /\ call[c].op \in {"review", "change"}
      BY <1>2, <2>1, <2>3 DEF LockCompanyForReview, LockAccount, ContactTypeOK, CallStates
    <3> QED
      BY <3>1 DEF Lists
  <2>4. CASE ReadCompanyStatus(c)
    <3>1. call'[c].op = call[c].op /\ call[c].op = "status"
      BY <2>1, <2>4 DEF ReadCompanyStatus, ContactTypeOK, CallStates
    <3> QED
      BY <3>1 DEF Lists
  <2>5. CASE FindCompanyForUpdate(c)
    <3>1. call'[c].op = call[c].op /\ call[c].op = "profile"
      BY <2>1, <2>5 DEF FindCompanyForUpdate, ContactTypeOK, CallStates
    <3> QED
      BY <3>1 DEF Lists
  <2> QED
    BY <1>2, <2>2, <2>3, <2>4, <2>5
       DEF SendContact, ReviewCompany, UpdateCompanyProfile, ChangeAccountStatus, Finish
<1> QED
  BY <1>1, <1>2

LEMMA CallStepLists ==
    ASSUME CallsInv, ListInv, Track, NEW c \in Callers, CallStep(c)
    PROVE  Lists(c)' => Listing(c)'
<1>1. ContactTypeOK /\ Shape(c) /\ (Lists(c) => Listing(c)) /\ IsFiniteSet(Skilled)
      /\ \A j \in Jobs : NoRepeats(applied[j])
  BY DEF CallsInv, ListInv
<1>2. ASSUME Lists(c)' => call'[c].at \in {"company", "applicants"} /\ call'[c].matches = {}
      PROVE  Lists(c)' => Listing(c)'
  BY <1>2 DEF Listing
<1>3. ASSUME Lists(c)' => call'[c].at = "send"
      PROVE  Lists(c)' => Listing(c)'
  BY <1>3 DEF Listing
<1>4. CASE AskList(c) \/ AskContact(c) \/ AskReview(c) \/ AskStatus(c) \/ AskProfile(c) \/ AskChange(c)
  BY <1>1, <1>2, <1>4, AskListing
<1>5. CASE LockAvailableCompany(c)
  BY <1>1, <1>2, <1>5, LockListing
<1>6. CASE ReadApplicants(c)
  BY <1>1, <1>6, ReadApplicantsListing
<1>7. CASE ReadMatches(c)
  BY <1>1, <1>7, ReadMatchesListing
<1>8. CASE ReadResumeSkills(c)
  BY <1>1, <1>8, ReadResumeSkillsListing
<1>9. CASE \/ LockAvailableProfessional(c) \/ SendContact(c)
           \/ LockCompanyForReview(c) \/ ReviewCompany(c) \/ ReadCompanyStatus(c)
           \/ FindCompanyForUpdate(c) \/ UpdateCompanyProfile(c)
           \/ LockAccount(c) \/ ChangeAccountStatus(c) \/ Finish(c)
  BY <1>1, <1>3, <1>9, OtherListing
<1> QED
  BY <1>4, <1>5, <1>6, <1>7, <1>8, <1>9 DEF CallStep

\* A step of a call is of that call only, and writes no application and no résumé.
LEMMA CallStepMoves ==
    ASSUME ContactTypeOK, NEW c \in Callers, CallStep(c)
    PROVE  /\ UNCHANGED <<applied, resume>>
           /\ \A d \in Callers \ {c} : call'[d] = call[d]
<1>1. \A f : call' = [call EXCEPT ![c] = f] => \A d \in Callers \ {c} : call'[d] = call[d]
  BY DEF ContactTypeOK
<1>2. CASE AskList(c) \/ AskContact(c) \/ AskReview(c) \/ AskStatus(c) \/ AskProfile(c) \/ AskChange(c)
  BY <1>1, <1>2 DEF AskList, AskContact, AskReview, AskStatus, AskProfile, AskChange, Begin
<1>3. CASE LockAvailableCompany(c)
  BY <1>3 DEF LockAvailableCompany, Return, ReadOnly, ContactTypeOK
<1>4. CASE ReadApplicants(c)
  BY <1>4 DEF ReadApplicants, Return, ReadOnly, ContactTypeOK
<1>5. CASE ReadMatches(c)
  BY <1>5 DEF ReadMatches, ReadOnly, ContactTypeOK
<1>6. CASE ReadResumeSkills(c)
  BY <1>6 DEF ReadResumeSkills, ReadOnly, ContactTypeOK
<1>7. CASE LockAvailableProfessional(c)
  BY <1>7 DEF LockAvailableProfessional, Return, ReadOnly, ContactTypeOK
<1>8. CASE SendContact(c) \/ ReviewCompany(c) \/ UpdateCompanyProfile(c) \/ ChangeAccountStatus(c)
           \/ Finish(c)
  BY <1>1, <1>8 DEF SendContact, ReviewCompany, UpdateCompanyProfile, ChangeAccountStatus, Finish,
     Return, ReadOnly
<1>9. CASE LockCompanyForReview(c) \/ LockAccount(c) \/ FindCompanyForUpdate(c)
  BY <1>9 DEF LockCompanyForReview, LockAccount, FindCompanyForUpdate, Return, ReadOnly, ContactTypeOK
<1>10. CASE ReadCompanyStatus(c)
  BY <1>10 DEF ReadCompanyStatus, ReadOnly, ContactTypeOK
<1> QED
  BY <1>2, <1>3, <1>4, <1>5, <1>6, <1>7, <1>8, <1>9, <1>10 DEF CallStep

\* What a call that stays knows lasts when applications are only added.
LEMMA OthersList ==
    ASSUME CallsInv, ListInv, Track, AppliedGrows, NEW d \in Callers, call'[d] = call[d]
    PROVE  Lists(d)' => Listing(d)'
<1>1. ContactTypeOK /\ Shape(d) /\ (Lists(d) => Listing(d)) /\ (Lists(d)' <=> Lists(d))
  BY DEF CallsInv, ListInv, Lists
<1> QED
  BY <1>1, ListingLasts

LEMMA ListInvNext ==
    ASSUME CallsInv, ListInv, [ContactNext]_contactVars
    PROVE  ListInv'
<1>1. ContactTypeOK /\ IsFiniteSet(Skilled) /\ \A j \in Jobs : NoRepeats(applied[j])
  BY DEF CallsInv, ListInv
<1>2. ASSUME applied' = applied
      PROVE  AppliedGrows /\ \A j \in Jobs : NoRepeats(applied'[j])
  BY <1>1, <1>2 DEF AppliedGrows, HasApplied
<1>3. ASSUME resume' = resume
      PROVE  IsFiniteSet(Skilled')
  BY <1>1, <1>3 DEF Skilled
<1>4. ASSUME ContactNext
      PROVE  ListInv'
  <2>1. Track
    BY <1>4 DEF ContactNext
  <2>2. ASSUME NEW c \in Callers, CallStep(c)
        PROVE  ListInv'
    <3>1. UNCHANGED <<applied, resume>> /\ \A d \in Callers \ {c} : call'[d] = call[d]
      BY <1>1, <2>2, CallStepMoves
    <3>2. \A d \in Callers \ {c} : Lists(d)' => Listing(d)'
      BY <1>2, <2>1, <3>1, OthersList
    <3>3. Lists(c)' => Listing(c)'
      BY <2>1, <2>2, CallStepLists
    <3> QED
      BY <1>2, <1>3, <3>1, <3>2, <3>3 DEF ListInv
  <2>3. ASSUME NEW p \in Professionals, NEW j \in Jobs, Apply(p, j)
        PROVE  ListInv'
    <3>1. AppliedGrows /\ \A k \in Jobs : NoRepeats(applied'[k])
      BY <1>1, <2>3, ApplyGrows
    <3>2. UNCHANGED <<resume, call>>
      BY <2>3 DEF Apply
    <3>3. \A d \in Callers : Lists(d)' => Listing(d)'
      BY <2>1, <3>1, <3>2, OthersList
    <3> QED
      BY <1>3, <3>1, <3>2, <3>3 DEF ListInv
  <2>4. ASSUME NEW p \in Professionals, EditResume(p)
        PROVE  ListInv'
    <3>1. IsFiniteSet(Skilled')
      BY <1>1, <2>4, EditSkills
    <3>2. UNCHANGED <<applied, call>>
      BY <2>4 DEF EditResume
    <3>3. \A d \in Callers : Lists(d)' => Listing(d)'
      BY <1>2, <2>1, <3>2, OthersList
    <3> QED
      BY <1>2, <3>1, <3>2, <3>3 DEF ListInv
  <2>5. CASE CallsEnded
    <3>1. UNCHANGED <<applied, resume, call>>
      BY <2>5 DEF CallsEnded, ReadOnly
    <3>2. \A d \in Callers : Lists(d)' => Listing(d)'
      BY <1>2, <2>1, <3>1, OthersList
    <3> QED
      BY <1>2, <1>3, <3>1, <3>2 DEF ListInv
  <2> QED
    BY <1>4, <2>2, <2>3, <2>4, <2>5 DEF ContactNext
<1>5. CASE UNCHANGED contactVars
  <2>1. UNCHANGED <<applied, resume, call, known>>
    BY <1>5 DEF contactVars
  <2>2. \A d \in Callers : Lists(d)' => Listing(d)'
    BY <2>1 DEF ListInv, Lists, Listing, HasApplied
  <2> QED
    BY <1>2, <1>3, <2>1, <2>2 DEF ListInv
<1> QED
  BY <1>4, <1>5

LEMMA ListInvInit ==
    ASSUME ContactInit
    PROVE  ListInv
<1>1. Skilled = {}
  BY DEF Skilled, ContactInit
<1>2. \A c \in Callers : ~ Lists(c)
  BY DEF ContactInit, Lists, Idle
<1>3. \A j \in Jobs : NoRepeats(applied[j])
  BY DEF ContactInit, NoRepeats
<1> QED
  BY <1>1, <1>2, <1>3, FS_EmptySet DEF ListInv

\* The list is what the calls have read, put in order.
LEMMA ListInvGives ==
    ASSUME CallsInv, ListInv
    PROVE  ListsEveryProfessionalOnce
<1> SUFFICES ASSUME NEW c \in Callers, Lists(c), call[c].at = "listed"
             PROVE  LET list == ListedApplicants(c)
                        required == Required[call[c].job]
                    IN  /\ \A i, j \in DOMAIN list : i < j =>
                              /\ list[i] # list[j]
                              /\ Cardinality(required \cap call[c].skills[list[i]])
                                     >= Cardinality(required \cap call[c].skills[list[j]])
                              /\ InListOrder(c, list[i], list[j])
                        /\ \A p \in Professionals :
                              IsListed(c, p) <=> \E i \in DOMAIN list : list[i] = p
                        /\ required # {} => \A p \in known[c] \ Applicants(c) :
                              IsListed(c, p) \/ HasApplied(p, call[c].job)
  BY DEF ListsEveryProfessionalOnce
<1> DEFINE list == ListedApplicants(c)
           required == Required[call[c].job]
           rows == call[c].rows
           matches == call[c].matches
           skills == call[c].skills
           share(p) == Cardinality(required \cap skills[p])
           position(p) == CHOOSE i \in DOMAIN rows : rows[i] = p
<1>1. /\ call[c] \in CallStates /\ call[c].job \in Jobs
      /\ rows \in Seq(Professionals) /\ matches \in SUBSET Professionals
  BY DEF CallsInv, ContactTypeOK, Shape, CallStates, Lists
<1>2. IsFiniteSet(required) /\ Cardinality(required) <= MostSkills
  BY <1>1, ContactsAssumption DEF ContactsAssumption
<1>3. /\ NoRepeats(rows) /\ IsFiniteSet(matches)
      /\ \A i \in DOMAIN rows : rows[i] \notin matches
      /\ required = {} => matches = {}
      /\ required # {} => \A p \in known[c] :
            \/ HasApplied(p, call[c].job)
            \/ p \in matches /\ IsAutomaticMatch(Score(required, skills[p]))
  BY DEF ListInv, Listing
<1>4. \A p : IsListed(c, p) <=> \/ \E i \in DOMAIN rows : rows[i] = p
                                \/ p \in matches /\ IsAutomaticMatch(Score(required, skills[p]))
  BY DEF IsListed, Applicants
<1>5. required # {} => \A p \in known[c] \ Applicants(c) :
          IsListed(c, p) \/ HasApplied(p, call[c].job)
  BY <1>3, <1>4
<1>6. \A i \in DOMAIN rows : position(rows[i]) = i
  <2> TAKE i \in DOMAIN rows
  <2>1. position(rows[i]) \in DOMAIN rows /\ rows[position(rows[i])] = rows[i]
    OBVIOUS
  <2>2. \A k \in DOMAIN rows : rows[k] = rows[i] => k = i
    BY <1>1, <1>3 DEF NoRepeats
  <2> QED
    BY <2>1, <2>2
<1>7. \A p, q : InListOrder(c, p, q) <=>
          (share(p) = share(q) =>
              IF \E i \in DOMAIN rows : rows[i] = q
              THEN (\E i \in DOMAIN rows : rows[i] = p) /\ position(p) < position(q)
              ELSE (\E i \in DOMAIN rows : rows[i] = p) \/ p < q)
  BY DEF InListOrder, Applicants
<1> HIDE DEF position, share
<1>8. CASE required = {}
  <2>1. list = rows
    BY <1>8 DEF ListedApplicants
  <2>2. \A p : share(p) = 0
    BY <1>8, FS_EmptySet DEF share
  <2>3. \A i, j \in DOMAIN list : i < j =>
            /\ list[i] # list[j] /\ share(list[i]) >= share(list[j])
            /\ InListOrder(c, list[i], list[j])
    BY <1>3, <1>6, <1>7, <2>1, <2>2 DEF NoRepeats
  <2>4. \A p : IsListed(c, p) <=> \E i \in DOMAIN list : list[i] = p
    BY <1>3, <1>4, <1>8, <2>1
  <2> QED
    BY <1>5, <2>3, <2>4 DEF share
<1>9. CASE required # {}
  <2>1. list = RankedList(rows, matches, skills, required)
    BY <1>9 DEF ListedApplicants
  <2> HIDE DEF required, rows, matches, skills, list
  <2>5. IsTheList(RankedList(rows, matches, skills, required), rows, matches, skills, required)
    BY <1>1, <1>2, <1>3, <1>9, RankedListHolds
  <2>2. /\ \A x : (\E i \in DOMAIN list : list[i] = x)
                    <=> \/ \E i \in DOMAIN rows : rows[i] = x
                        \/ x \in matches /\ IsAutomaticMatch(Score(required, skills[x]))
        /\ \A i, j \in DOMAIN list : i < j =>
              /\ list[i] # list[j]
              /\ share(list[i]) >= share(list[j])
              /\ share(list[i]) = share(list[j]) =>
                    IF list[j] \in matches
                    THEN (\E k \in DOMAIN rows : rows[k] = list[i]) \/ list[i] < list[j]
                    ELSE \E k, l \in DOMAIN rows :
                            k < l /\ rows[k] = list[i] /\ rows[l] = list[j]
    BY <2>1, <2>5, SMTT(30) DEF IsTheList, share
  <2>3. ASSUME NEW i \in DOMAIN list, NEW j \in DOMAIN list, i < j
        PROVE  InListOrder(c, list[i], list[j])
    <3>1. CASE share(list[i]) # share(list[j])
      BY <1>7, <3>1
    <3>2. CASE share(list[i]) = share(list[j]) /\ list[j] \in matches
      BY <1>3, <1>7, <2>2, <2>3, <3>2
    <3>3. CASE share(list[i]) = share(list[j]) /\ list[j] \notin matches
      <4>1. PICK k \in DOMAIN rows, l \in DOMAIN rows :
                k < l /\ rows[k] = list[i] /\ rows[l] = list[j]
        BY <2>2, <2>3, <3>3
      <4>2. position(list[i]) = k /\ position(list[j]) = l
        BY <1>6, <4>1
      <4> QED
        BY <1>7, <4>1, <4>2
    <3> QED
      BY <3>1, <3>2, <3>3
  <2>4. \A p : IsListed(c, p) <=> \E i \in DOMAIN list : list[i] = p
    BY <1>4, <2>2
  <2> QED
    BY <1>5, <2>2, <2>3, <2>4 DEF share, list, required, skills
<1> QED
  BY <1>8, <1>9

\* A list names every professional it should, once and in the order shown, however
\* many apply and edit their résumés between the statements that read it.
THEOREM ListsAreComplete == ContactSpec => []ListsEveryProfessionalOnce
<1>1. ContactInit => CallsInv /\ ListInv
  BY CallsInvInit, ListInvInit
<1>2. CallsInv /\ ListInv /\ [ContactNext]_contactVars => (CallsInv /\ ListInv)'
  BY CallsInvNext, ListInvNext
<1>3. CallsInv /\ ListInv => ListsEveryProfessionalOnce
  BY ListInvGives
<1> QED
  BY <1>1, <1>2, <1>3, PTL DEF ContactSpec
===============================================================================
