--------------------------- MODULE NotificationInbox ---------------------------
(***************************************************************************)
(* The inbox of the notifications.  The transactions of the product write  *)
(* them, dated by the moment the transaction began and visible once it has *)
(* committed; a client pages through its own, newest first, each page      *)
(* starting strictly after the last row of the one before; and users mark  *)
(* them as read, one or all, while pages are being read.                   *)
(***************************************************************************)
EXTENDS Ordering

CONSTANTS Notes,       \* notifications by their identifiers, which are ordered
          NoteUsers,
          NoteOwner,
          Readers,     \* clients
          ReaderUser,
          PageLimit,
          MaxTime

ASSUME InboxAssumption ==
    /\ Notes \subseteq Nat
    /\ NoteOwner \in [Notes -> NoteUsers]
    /\ ReaderUser \in [Readers -> NoteUsers]
    /\ PageLimit \in Nat \ {0}
    /\ MaxTime \in Nat

VARIABLES time,
          note,        \* the rows of the table notification
          walk         \* the pages each client has read since its first one

inboxVars == <<time, note, walk>>

FirstPage == [created |-> MaxTime + 1, id |-> 0]
Cursors == [created : 0..(MaxTime + 1), id : Nat]

Written == [at : {"none", "open", "committed", "undone"}, created : 0..MaxTime, read : BOOLEAN]
Unwritten == [at |-> "none", created |-> 0, read |-> FALSE]

\* "due" is history, read by no action: the rows that were there when the walk
\* began and, in a walk over unread ones, have not been marked as read since.
Walks == [at : {"rest", "page", "count"}, unread : BOOLEAN, cursor : Cursors,
          more : BOOLEAN, served : Seq(Notes), due : SUBSET Notes, count : Nat]
NoWalk == [at |-> "rest", unread |-> FALSE, cursor |-> FirstPage, more |-> FALSE,
           served |-> <<>>, due |-> {}, count |-> 0]

InboxInit ==
    /\ time = 0
    /\ note = [n \in Notes |-> Unwritten]
    /\ walk = [r \in Readers |-> NoWalk]

-----------------------------------------------------------------------------
\* The producers.  created_at is now(), the start of the transaction.

PassTime ==
    /\ time < MaxTime
    /\ time' = time + 1
    /\ UNCHANGED <<note, walk>>

BeginNotice(n) ==
    /\ note[n].at = "none"
    /\ note' = [note EXCEPT ![n] = [at |-> "open", created |-> time, read |-> FALSE]]
    /\ UNCHANGED <<time, walk>>

EndNotice(n) ==
    /\ note[n].at = "open"
    /\ \E outcome \in {"committed", "undone"} : note' = [note EXCEPT ![n].at = outcome]
    /\ UNCHANGED <<time, walk>>

-----------------------------------------------------------------------------
\* A page: two statements, the rows and then the number of unread ones.

Own(u) == {n \in Notes : note[n].at = "committed" /\ NoteOwner[n] = u}
Unread(u) == {n \in Own(u) : ~ note[n].read}
Wanted(r, unread) == IF unread THEN Unread(ReaderUser[r]) ELSE Own(ReaderUser[r])

\* A cursor is the pair of the page's last row, and nothing else of it.
Position(n) == [created |-> note[n].created, id |-> n]
Before(p, q) == p.created < q.created \/ (p.created = q.created /\ p.id < q.id)

Newer == {p \in Notes \X Notes : Before(Position(p[2]), Position(p[1]))}

StartWalk(r) ==
    /\ walk[r].at = "rest"
    /\ \E unread \in BOOLEAN :
          walk' = [walk EXCEPT ![r] =
                     [NoWalk EXCEPT !.at = "page", !.unread = unread,
                                    !.due = Wanted(r, unread)]]
    /\ UNCHANGED <<time, note>>

\* Mutant of ListMyNotifications: the cursor is the row that told of a next page.
ListMyNotificationsSkipping(r) ==
    LET w == walk[r]
        behind == {n \in Wanted(r, w.unread) : Before(Position(n), w.cursor)}
        rows == First(InOrder(behind, Newer), PageLimit + 1)
        page == First(rows, PageLimit)
        more == Len(rows) > PageLimit
    IN  /\ w.at = "page"
        /\ walk' = [walk EXCEPT ![r].at = "count", ![r].served = @ \o page, ![r].more = more,
                        ![r].cursor = IF more THEN Position(rows[Len(rows)]) ELSE FirstPage]
        /\ UNCHANGED <<time, note>>

\* One row more than the page tells whether there is a next one.
ListMyNotifications(r) ==
    LET w == walk[r]
        behind == {n \in Wanted(r, w.unread) : Before(Position(n), w.cursor)}
        rows == First(InOrder(behind, Newer), PageLimit + 1)
        page == First(rows, PageLimit)
        more == Len(rows) > PageLimit
    IN  /\ w.at = "page"
        /\ walk' = [walk EXCEPT ![r].at = "count", ![r].served = @ \o page, ![r].more = more,
                        ![r].cursor = IF more THEN Position(page[Len(page)]) ELSE FirstPage]
        /\ UNCHANGED <<time, note>>

CountUnread(r) ==
    /\ walk[r].at = "count"
    /\ walk' = [walk EXCEPT ![r].count = Cardinality(Unread(ReaderUser[r])),
                            ![r].at = "rest"]
    /\ UNCHANGED <<time, note>>

NextPage(r) ==
    /\ walk[r].at = "rest" /\ walk[r].more
    /\ walk' = [walk EXCEPT ![r].at = "page"]
    /\ UNCHANGED <<time, note>>

-----------------------------------------------------------------------------
\* Marking as read is one UPDATE, filtered by the owner.

Mark(marked) ==
    /\ note' = [n \in Notes |-> IF n \in marked THEN [note[n] EXCEPT !.read = TRUE] ELSE note[n]]
    /\ walk' = [r \in Readers |->
                   IF walk[r].unread THEN [walk[r] EXCEPT !.due = @ \ marked] ELSE walk[r]]
    /\ UNCHANGED time

\* Another user's notification is not found, and stays as it was.
MarkNotificationAsRead(u, n) ==
    /\ n \in Own(u)
    /\ Mark({n})

MarkAllNotificationsAsRead(u) == Mark(Unread(u))

InboxNext ==
    \/ PassTime
    \/ \E n \in Notes : BeginNotice(n) \/ EndNotice(n)
    \/ \E r \in Readers :
          StartWalk(r) \/ ListMyNotifications(r) \/ CountUnread(r) \/ NextPage(r)
    \/ \E u \in NoteUsers, n \in Notes : MarkNotificationAsRead(u, n)
    \/ \E u \in NoteUsers : MarkAllNotificationsAsRead(u)

InboxSpec == InboxInit /\ [][InboxNext]_inboxVars

-----------------------------------------------------------------------------
\* The variables keep their types.
InboxTypeOK ==
    /\ time \in 0..MaxTime
    /\ note \in [Notes -> Written]
    /\ walk \in [Readers -> Walks]

\* Walking from the first page to the last serves nothing twice, only the
\* client's own notifications, newest first, and misses none that was there when
\* the walk began, however many arrive or are marked as read between its pages.
\* What the walk does miss had not committed when it began.
ServedInOrder(w) ==
    \A i, j \in DOMAIN w.served :
        i < j => Before(Position(w.served[j]), Position(w.served[i]))
WalkEnded(w) == w.at # "page" /\ ~ w.more
WalksAreComplete ==
    \A r \in Readers :
        LET served == {walk[r].served[i] : i \in DOMAIN walk[r].served} IN
        /\ ServedInOrder(walk[r])
        /\ \A n \in served : NoteOwner[n] = ReaderUser[r]
        /\ WalkEnded(walk[r]) => walk[r].due \subseteq served

=============================================================================
