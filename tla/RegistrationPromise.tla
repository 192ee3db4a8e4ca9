-------------------------- MODULE RegistrationPromise --------------------------
(***************************************************************************)
(* What registration promises, with no word about transactions, retries or *)
(* failures: an account opens at most once per e-mail address and document *)
(* and only for the person whose password the address's identity has; an   *)
(* identity never changes hands, and nothing is ever taken back.           *)
(***************************************************************************)
CONSTANTS People, Emails, Nobody

VARIABLES accounts,     \* [email, document, by, confirmed]
          owner,        \* whose password the identity of each address has
          confirmed     \* the addresses confirmed with a code

promise == <<accounts, owner, confirmed>>

PInit == /\ accounts = {}
         /\ owner = [e \in Emails |-> Nobody]
         /\ confirmed = {}

Identify(e) == /\ owner[e] = Nobody
               /\ \E p \in People : owner' = [owner EXCEPT ![e] = p]
               /\ UNCHANGED <<accounts, confirmed>>

ConfirmAddress(e) == /\ owner[e] # Nobody
                     /\ confirmed' = confirmed \cup {e}
                     /\ UNCHANGED <<accounts, owner>>

Open(e) == /\ UNCHANGED <<owner, confirmed>>
           /\ \E a \in accounts' :
              /\ accounts' = accounts \cup {a}
              /\ a.email = e /\ a.by = owner[e] /\ a.by # Nobody
              /\ a.confirmed => e \in confirmed
              /\ \A b \in accounts : b.email # e /\ b.document # a.document

PNext == \E e \in Emails : Identify(e) \/ ConfirmAddress(e) \/ Open(e)

PSpec == PInit /\ [][PNext]_promise
===============================================================================
