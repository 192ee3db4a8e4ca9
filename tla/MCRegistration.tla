---------------------------- MODULE MCRegistration ----------------------------
EXTENDS Registration, TLC

CONSTANTS ana, bia, e1, e2, d1, d2

\* Their forms meet in an address or in a document.
FewForms == (ana :> {[email |-> e1, document |-> d1]})
            @@ (bia :> {[email |-> e2, document |-> d1], [email |-> e1, document |-> d2]})
===============================================================================
