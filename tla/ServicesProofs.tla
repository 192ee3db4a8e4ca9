----------------------------- MODULE ServicesProofs -----------------------------
(***************************************************************************)
(* Proofs about the services that are composed in Services: first what     *)
(* each of them promises by itself, then the composition.                  *)
(***************************************************************************)
EXTENDS Services, ContactsProofs, SequenceTheorems

-----------------------------------------------------------------------------
\* The inbox.  What a walk has served lies before its cursor, and what it still
\* owes lies after it; where the walk has ended nothing is owed.

Members(s) == {s[i] : i \in DOMAIN s}
Served(w) == Members(w.served)

WalkIsSound(r, w) ==
    /\ Served(w) \subseteq Own(ReaderUser[r])
    /\ ServedInOrder(w)
    /\ w.due \subseteq Wanted(r, w.unread)
    /\ IF WalkEnded(w)
       THEN w.due \subseteq Served(w)
       ELSE /\ \A n \in Served(w) : ~ Before(Position(n), w.cursor)
            /\ \A n \in w.due : n \in Served(w) \/ Before(Position(n), w.cursor)

WrittenNotes == {n \in Notes : note[n].at # "none"}

InboxInv ==
    /\ InboxTypeOK
    /\ IsFiniteSet(WrittenNotes)
    /\ \A r \in Readers : WalkIsSound(r, walk[r])

LEMMA BeforeIsAnOrder ==
    ASSUME NEW p \in Cursors, NEW q \in Cursors, NEW r \in Cursors
    PROVE  /\ ~ Before(p, p)
           /\ Before(p, q) \/ Before(q, p) \/ p = q
           /\ Before(p, q) /\ Before(q, r) => Before(p, r)
<1>1. /\ p.created \in Int /\ q.created \in Int /\ r.created \in Int
      /\ p.id \in Int /\ q.id \in Int /\ r.id \in Int
  BY InboxAssumption DEF Cursors
<1>2. p.created = q.created /\ p.id = q.id => p = q
  BY DEF Cursors
<1> QED
  BY <1>1, <1>2 DEF Before

LEMMA PositionIsACursor ==
    ASSUME InboxTypeOK, NEW n \in Notes
    PROVE  Position(n) \in Cursors /\ Before(Position(n), FirstPage)
<1>1. note[n].created \in 0..MaxTime /\ n \in Nat /\ MaxTime \in Nat
  BY InboxAssumption DEF InboxTypeOK, Written
<1> QED
  BY <1>1 DEF Position, Cursors, FirstPage, Before

LEMMA FirstPageIsACursor == FirstPage \in Cursors
BY InboxAssumption DEF FirstPage, Cursors

LEMMA NewerIsAnOrder ==
    ASSUME InboxTypeOK, NEW S \in SUBSET Notes
    PROVE  IsStrictOrder(Newer, S)
<1>1. ASSUME NEW x \in S
      PROVE  <<x, x>> \notin Newer
  BY PositionIsACursor, BeforeIsAnOrder DEF Newer
<1>2. ASSUME NEW x \in S, NEW y \in S, x # y
      PROVE  <<x, y>> \in Newer \/ <<y, x>> \in Newer
  <2>1. Position(x) # Position(y)
    BY <1>2 DEF Position
  <2>2. Position(x) \in Cursors /\ Position(y) \in Cursors
    BY PositionIsACursor
  <2> QED
    BY <2>1, <2>2, BeforeIsAnOrder DEF Newer
<1>3. ASSUME NEW x \in S, NEW y \in S, NEW z \in S, <<x, y>> \in Newer, <<y, z>> \in Newer
      PROVE  <<x, z>> \in Newer
  <2>1. Position(x) \in Cursors /\ Position(y) \in Cursors /\ Position(z) \in Cursors
    BY PositionIsACursor
  <2>2. Before(Position(y), Position(x)) /\ Before(Position(z), Position(y))
    BY <1>3 DEF Newer
  <2> QED
    BY <2>1, <2>2, BeforeIsAnOrder DEF Newer
<1> QED
  BY <1>1, <1>2, <1>3 DEF IsStrictOrder

\* The rows of a page are the first ones, and there are more of them or not.
LEMMA FirstTakes ==
    ASSUME NEW T, NEW s \in Seq(T), NEW limit \in Nat
    PROVE  /\ First(s, limit) \in Seq(T)
           /\ Len(First(s, limit)) = IF Len(s) < limit THEN Len(s) ELSE limit
           /\ \A i \in 1..Len(First(s, limit)) : First(s, limit)[i] = s[i]
BY DEF First

\* Other notifications arrive or are undone; the walks stay where they are.
LEMMA ArrivalsKeep ==
    ASSUME InboxInv, InboxTypeOK', IsFiniteSet(WrittenNotes)', UNCHANGED walk,
           \A n \in Notes : note[n].at = "committed" => note'[n] = note[n]
    PROVE  InboxInv'
<1>1. ASSUME NEW r \in Readers
      PROVE  WalkIsSound(r, walk[r])'
  <2> DEFINE w == walk[r]
  <2>1. \A u : Own(u) \subseteq Own(u)' /\ Unread(u) \subseteq Unread(u)'
    BY DEF Own, Unread
  <2>2. \A u : \A n \in Own(u) : Position(n)' = Position(n)
    BY DEF Own, Position
  <2>3. WalkIsSound(r, w) /\ w' = w
    BY DEF InboxInv
  <2>4. w.due \subseteq Own(ReaderUser[r]) /\ w.due \subseteq Wanted(r, w.unread)'
    BY <2>1, <2>3 DEF WalkIsSound, Wanted, Unread
  <2>5. \A n \in Served(w) \cup w.due : Position(n)' = Position(n)
    BY <2>2, <2>3, <2>4 DEF WalkIsSound
  <2>6. ServedInOrder(w)'
    <3>1. \A i \in DOMAIN w.served : Position(w.served[i])' = Position(w.served[i])
      BY <2>5 DEF Served, Members
    <3> QED
      BY <2>3, <3>1 DEF WalkIsSound, ServedInOrder, Before
  <2>7. Served(w)' = Served(w) /\ WalkEnded(w)' = WalkEnded(w)
    BY DEF Served, Members, WalkEnded
  <2> QED
    BY <2>1, <2>3, <2>4, <2>5, <2>6, <2>7 DEF WalkIsSound, Before
<1> QED
  BY <1>1 DEF InboxInv

\* One walk goes on; the others stay where they are.
LEMMA WalkKeeps ==
    ASSUME InboxInv, NEW r \in Readers, NEW w \in Walks, walk' = [walk EXCEPT ![r] = w],
           UNCHANGED <<time, note>>, WalkIsSound(r, w)
    PROVE  InboxInv'
<1>1. InboxTypeOK' /\ IsFiniteSet(WrittenNotes)'
  BY DEF InboxInv, InboxTypeOK, WrittenNotes
<1>2. ASSUME NEW q \in Readers
      PROVE  WalkIsSound(q, walk'[q])
  BY DEF InboxInv, InboxTypeOK
<1>3. ASSUME NEW q \in Readers
      PROVE  WalkIsSound(q, walk[q])'
  BY <1>2 DEF WalkIsSound, Served, Members, Own, Unread, Wanted, ServedInOrder, Before, Position, WalkEnded
<1> QED
  BY <1>1, <1>3 DEF InboxInv

LEMMA PassTimeKeeps ==
    ASSUME InboxInv, PassTime
    PROVE  InboxInv'
<1>1. InboxTypeOK' /\ IsFiniteSet(WrittenNotes)'
  BY InboxAssumption DEF InboxInv, InboxTypeOK, PassTime, WrittenNotes
<1> QED
  BY <1>1, ArrivalsKeep DEF PassTime

LEMMA BeginNoticeKeeps ==
    ASSUME InboxInv, NEW n \in Notes, BeginNotice(n)
    PROVE  InboxInv'
<1>1. InboxTypeOK'
  BY DEF InboxInv, InboxTypeOK, BeginNotice, Written
<1>2. WrittenNotes' = WrittenNotes \cup {n}
  BY DEF InboxInv, InboxTypeOK, BeginNotice, WrittenNotes
<1>3. IsFiniteSet(WrittenNotes)'
  BY <1>2, FS_AddElement DEF InboxInv
<1>4. \A m \in Notes : note[m].at = "committed" => note'[m] = note[m]
  BY DEF InboxInv, InboxTypeOK, BeginNotice
<1> QED
  BY <1>1, <1>3, <1>4, ArrivalsKeep DEF BeginNotice

LEMMA EndNoticeKeeps ==
    ASSUME InboxInv, NEW n \in Notes, EndNotice(n)
    PROVE  InboxInv'
<1>1. PICK outcome \in {"committed", "undone"} : note' = [note EXCEPT ![n].at = outcome]
  BY DEF EndNotice
<1>2. InboxTypeOK'
  <2>1. [note[n] EXCEPT !.at = outcome] \in Written
    BY DEF InboxInv, InboxTypeOK, Written
  <2> QED
    BY <1>1, <2>1 DEF InboxInv, InboxTypeOK, EndNotice
<1>3. WrittenNotes' \subseteq WrittenNotes
  BY <1>1 DEF InboxInv, InboxTypeOK, EndNotice, WrittenNotes
<1>4. IsFiniteSet(WrittenNotes)'
  BY <1>3, FS_Subset DEF InboxInv
<1>5. \A m \in Notes : note[m].at = "committed" => note'[m] = note[m]
  BY <1>1 DEF InboxInv, InboxTypeOK, EndNotice
<1> QED
  BY <1>2, <1>4, <1>5, ArrivalsKeep DEF EndNotice

LEMMA NoWalkIsAWalk == NoWalk \in Walks
BY FirstPageIsACursor DEF NoWalk, Walks

LEMMA StartWalkKeeps ==
    ASSUME InboxInv, NEW r \in Readers, StartWalk(r)
    PROVE  InboxInv'
<1>1. PICK unread \in BOOLEAN :
         walk' = [walk EXCEPT ![r] = [NoWalk EXCEPT !.at = "page", !.unread = unread,
                                                    !.due = Wanted(r, unread)]]
  BY DEF StartWalk
<1> DEFINE w == [NoWalk EXCEPT !.at = "page", !.unread = unread, !.due = Wanted(r, unread)]
<1>2. /\ w.at = "page" /\ w.unread = unread /\ w.due = Wanted(r, unread)
      /\ w.served = <<>> /\ w.cursor = FirstPage /\ ~ w.more
  BY DEF NoWalk
<1>3. Wanted(r, unread) \subseteq Notes
  BY DEF Wanted, Own, Unread
<1>4. w \in Walks
  BY <1>3, NoWalkIsAWalk DEF Walks
<1> HIDE DEF w
<1>5. WalkIsSound(r, w)
  <2>1. Served(w) = {} /\ ServedInOrder(w)
    BY <1>2 DEF Served, Members, ServedInOrder
  <2>2. \A n \in w.due : Before(Position(n), w.cursor)
    BY <1>2, <1>3, PositionIsACursor DEF InboxInv
  <2>3. ~ WalkEnded(w) /\ w.due = Wanted(r, w.unread)
    BY <1>2 DEF WalkEnded
  <2> QED
    BY <2>1, <2>2, <2>3 DEF WalkIsSound
<1> QED
  BY <1>1, <1>4, <1>5, WalkKeeps DEF StartWalk, w

\* A change of a walk that leaves its history and its cursor.
LEMMA SameWalkIsSound ==
    ASSUME InboxInv, NEW r \in Readers, NEW w,
           w.served = walk[r].served, w.due = walk[r].due, w.unread = walk[r].unread,
           w.cursor = walk[r].cursor, WalkEnded(w) <=> WalkEnded(walk[r])
    PROVE  WalkIsSound(r, w)
<1>1. WalkIsSound(r, walk[r])
  BY DEF InboxInv
<1>2. Served(w) = Served(walk[r]) /\ (ServedInOrder(w) <=> ServedInOrder(walk[r]))
  BY DEF Served, Members, ServedInOrder
<1> QED
  BY <1>1, <1>2 DEF WalkIsSound

LEMMA CountUnreadKeeps ==
    ASSUME InboxInv, NEW r \in Readers, CountUnread(r)
    PROVE  InboxInv'
<1> DEFINE w == [walk[r] EXCEPT !.count = Cardinality(Unread(ReaderUser[r])), !.at = "rest"]
<1>1. walk[r] \in Walks /\ walk[r].at = "count"
  BY DEF CountUnread, InboxInv, InboxTypeOK
<1>2. Cardinality(Unread(ReaderUser[r])) \in Nat
  <2>1. Unread(ReaderUser[r]) \subseteq WrittenNotes
    BY DEF Unread, Own, WrittenNotes
  <2> QED
    BY <2>1, FS_Subset, FS_CardinalityType DEF InboxInv
<1>3. w \in Walks
  BY <1>1, <1>2 DEF Walks
<1>4. walk' = [walk EXCEPT ![r] = w] /\ UNCHANGED <<time, note>>
  BY DEF CountUnread, InboxInv, InboxTypeOK
<1>5. /\ w.served = walk[r].served /\ w.due = walk[r].due /\ w.unread = walk[r].unread
      /\ w.cursor = walk[r].cursor /\ w.at = "rest" /\ w.more = walk[r].more
  BY <1>1 DEF Walks
<1> HIDE DEF w
<1>6. WalkIsSound(r, w)
  BY <1>1, <1>5, SameWalkIsSound DEF WalkEnded
<1> QED
  BY <1>3, <1>4, <1>6, WalkKeeps

LEMMA NextPageKeeps ==
    ASSUME InboxInv, NEW r \in Readers, NextPage(r)
    PROVE  InboxInv'
<1> DEFINE w == [walk[r] EXCEPT !.at = "page"]
<1>1. walk[r] \in Walks /\ walk[r].more
  BY DEF NextPage, InboxInv, InboxTypeOK
<1>2. w \in Walks
  BY <1>1 DEF Walks
<1>3. walk' = [walk EXCEPT ![r] = w] /\ UNCHANGED <<time, note>>
  BY DEF NextPage, InboxInv, InboxTypeOK
<1>4. /\ w.served = walk[r].served /\ w.due = walk[r].due /\ w.unread = walk[r].unread
      /\ w.cursor = walk[r].cursor /\ w.more = walk[r].more
  BY <1>1 DEF Walks
<1> HIDE DEF w
<1>5. WalkIsSound(r, w)
  BY <1>1, <1>4, SameWalkIsSound DEF WalkEnded
<1> QED
  BY <1>2, <1>3, <1>5, WalkKeeps

\* Two sequences, one after the other: their members and their order.
LEMMA MembersTogether ==
    ASSUME NEW T, NEW s \in Seq(T), NEW t \in Seq(T)
    PROVE  Members(s \o t) = Members(s) \cup Members(t)
<1>1. ASSUME NEW x \in Members(s \o t)
      PROVE  x \in Members(s) \cup Members(t)
  <2>1. PICK i \in DOMAIN (s \o t) : (s \o t)[i] = x
    BY DEF Members
  <2>2. CASE i \in DOMAIN s
    BY <2>1, <2>2 DEF Members
  <2>3. CASE i \notin DOMAIN s
    <3>1. i - Len(s) \in DOMAIN t /\ t[i - Len(s)] = x
      BY <2>1, <2>3
    <3> QED
      BY <3>1 DEF Members
  <2> QED
    BY <2>2, <2>3
<1>2. ASSUME NEW i \in DOMAIN s
      PROVE  s[i] \in Members(s \o t)
  <2>1. i \in DOMAIN (s \o t) /\ (s \o t)[i] = s[i]
    OBVIOUS
  <2> QED
    BY <2>1 DEF Members
<1>3. ASSUME NEW i \in DOMAIN t
      PROVE  t[i] \in Members(s \o t)
  <2>1. Len(s) + i \in DOMAIN (s \o t) /\ (s \o t)[Len(s) + i] = t[i]
    OBVIOUS
  <2> QED
    BY <2>1 DEF Members
<1>4. Members(s) \subseteq Members(s \o t) /\ Members(t) \subseteq Members(s \o t)
  BY <1>2, <1>3 DEF Members
<1> QED
  BY <1>1, <1>4

LEMMA OrderTogether ==
    ASSUME NEW s \in Seq(Notes), NEW t \in Seq(Notes), NEW v, v.served = s,
           NEW w, w.served = s \o t, ServedInOrder(v),
           \A i, j \in 1..Len(t) : i < j => Before(Position(t[j]), Position(t[i])),
           \A i \in 1..Len(s), j \in 1..Len(t) : Before(Position(t[j]), Position(s[i]))
    PROVE  ServedInOrder(w)
<1>1. DOMAIN w.served = 1..(Len(s) + Len(t)) /\ Len(s) \in Nat /\ Len(t) \in Nat
  OBVIOUS
<1>2. \A i \in 1..Len(s) : w.served[i] = s[i] /\ i \in DOMAIN v.served /\ v.served[i] = s[i]
  OBVIOUS
<1>3. ASSUME NEW i \in DOMAIN w.served, NEW j \in DOMAIN w.served, i < j
      PROVE  Before(Position(w.served[j]), Position(w.served[i]))
  <2>1. \A k \in DOMAIN w.served :
           k \in 1..Len(s) \/ (k - Len(s) \in 1..Len(t) /\ w.served[k] = t[k - Len(s)])
    OBVIOUS
  <2>2. CASE j \in 1..Len(s)
    <3>1. i \in 1..Len(s)
      BY <1>1, <1>3, <2>2
    <3> QED
      BY <1>2, <1>3, <2>2, <3>1 DEF ServedInOrder
  <2>3. CASE j \notin 1..Len(s)
    <3>1. j - Len(s) \in 1..Len(t) /\ w.served[j] = t[j - Len(s)]
      BY <2>1, <2>3
    <3>2. CASE i \in 1..Len(s)
      BY <1>2, <3>1, <3>2
    <3>3. CASE i \notin 1..Len(s)
      <4>1. i - Len(s) \in 1..Len(t) /\ w.served[i] = t[i - Len(s)]
        BY <2>1, <3>3
      <4>2. i - Len(s) < j - Len(s)
        BY <1>1, <1>3
      <4> QED
        BY <3>1, <4>1, <4>2
    <3> QED
      BY <3>2, <3>3
  <2> QED
    BY <2>2, <2>3
<1> QED
  BY <1>3 DEF ServedInOrder

\* A page of what is behind a cursor: newest first, and nothing newer left out.
IsAPage(page, more, behind) ==
    /\ page \in Seq(behind)
    /\ \A i, j \in 1..Len(page) : i < j => Before(Position(page[j]), Position(page[i]))
    /\ IF more
       THEN /\ Len(page) > 0
            /\ \A x \in behind :
                  x \in Members(page) \/ Before(Position(x), Position(page[Len(page)]))
       ELSE behind \subseteq Members(page)

LEMMA PageTakes ==
    ASSUME InboxTypeOK, NEW behind \in SUBSET Notes, IsFiniteSet(behind)
    PROVE  LET rows == First(InOrder(behind, Newer), PageLimit + 1)
           IN  IsAPage(First(rows, PageLimit), Len(rows) > PageLimit, behind)
<1> DEFINE s == InOrder(behind, Newer)
           rows == First(s, PageLimit + 1)
           page == First(rows, PageLimit)
           n == Cardinality(behind)
<1>1. /\ n \in Nat /\ s \in [1..n -> behind]
      /\ \A x \in behind : \E k \in 1..n : s[k] = x
      /\ \A i, j \in 1..n : i < j => <<s[i], s[j]>> \in Newer
  BY NewerIsAnOrder, InOrderLists
<1> HIDE DEF s, n
<1>2. s \in Seq(behind) /\ Len(s) = n
  BY <1>1
<1>3. PageLimit \in Nat /\ PageLimit >= 1 /\ PageLimit + 1 \in Nat
  BY InboxAssumption
<1>4. /\ rows \in Seq(behind) /\ Len(rows) = IF n < PageLimit + 1 THEN n ELSE PageLimit + 1
      /\ \A i \in 1..Len(rows) : rows[i] = s[i]
  BY <1>2, <1>3, FirstTakes
<1> HIDE DEF rows
<1>5. /\ page \in Seq(behind)
      /\ Len(page) = IF Len(rows) < PageLimit THEN Len(rows) ELSE PageLimit
      /\ \A i \in 1..Len(page) : page[i] = rows[i]
  BY <1>3, <1>4, FirstTakes
<1> HIDE DEF page
<1>6. \A i, j \in 1..n : i < j => Before(Position(s[j]), Position(s[i]))
  BY <1>1 DEF Newer
<1>7. /\ Len(page) \in 0..n /\ \A i \in 1..Len(page) : page[i] = s[i] /\ i \in 1..n
      /\ Len(rows) > PageLimit => Len(page) \in 1..n
      /\ ~ (Len(rows) > PageLimit) => Len(page) = n
  BY <1>1, <1>3, <1>4, <1>5
<1>8. \A i, j \in 1..Len(page) : i < j => Before(Position(page[j]), Position(page[i]))
  BY <1>6, <1>7
<1>9. \A i \in 1..Len(page) : page[i] \in Members(page)
  BY <1>5 DEF Members
<1>10. CASE ~ (Len(rows) > PageLimit)
  <2>1. behind \subseteq Members(page)
    BY <1>1, <1>7, <1>9, <1>10
  <2> QED
    BY <1>5, <1>8, <1>10, <2>1 DEF IsAPage, page, rows, s
<1>11. CASE Len(rows) > PageLimit
  <2>1. ASSUME NEW x \in behind
        PROVE  x \in Members(page) \/ Before(Position(x), Position(page[Len(page)]))
    <3>1. PICK k \in 1..n : s[k] = x
      BY <1>1
    <3>2. page[Len(page)] = s[Len(page)] /\ Len(page) \in 1..n
      BY <1>7, <1>11
    <3>3. CASE k <= Len(page)
      BY <1>1, <1>7, <1>9, <3>1, <3>3
    <3>4. CASE ~ (k <= Len(page))
      <4>1. Len(page) < k
        BY <1>1, <3>2, <3>4
      <4> QED
        BY <1>6, <3>1, <3>2, <4>1
    <3> QED
      BY <3>3, <3>4
  <2>2. Len(page) > 0
    BY <1>7, <1>11
  <2> QED
    BY <1>5, <1>8, <1>11, <2>1, <2>2 DEF IsAPage, page, rows, s
<1> QED
  BY <1>10, <1>11

\* A page served: the cursor is at its last row, or nothing is left behind it.
LEMMA PageIsSound ==
    ASSUME InboxTypeOK, NEW r \in Readers, NEW v \in Walks, v.at = "page", WalkIsSound(r, v),
           NEW behind,
           \A x : x \in behind <=> x \in Wanted(r, v.unread) /\ Before(Position(x), v.cursor),
           NEW page, NEW more \in BOOLEAN, IsAPage(page, more, behind),
           NEW w, w.at = "count", w.served = v.served \o page, w.more = more,
           w.cursor = IF more THEN Position(page[Len(page)]) ELSE FirstPage,
           w.due = v.due, w.unread = v.unread
    PROVE  w.served \in Seq(Notes) /\ w.cursor \in Cursors /\ WalkIsSound(r, w)
<1> DEFINE old == Served(v)
           new == Members(page)
           c == w.cursor
<1>1. behind \subseteq Own(ReaderUser[r]) /\ behind \subseteq Notes
  BY DEF Wanted, Unread, Own
<1>2. v.served \in Seq(Notes) /\ page \in Seq(Notes) /\ page \in Seq(behind)
  BY <1>1 DEF Walks, IsAPage
<1>3. Served(w) = old \cup new /\ w.served \in Seq(Notes)
  BY <1>2, MembersTogether DEF Served
<1>4. new = {page[i] : i \in 1..Len(page)} /\ new \subseteq behind
      /\ \A i \in 1..Len(page) : page[i] \in behind
  BY <1>2 DEF Members
<1>5. Len(page) \in Nat /\ (more => Len(page) \in 1..Len(page))
  BY <1>2 DEF IsAPage
<1>6. w.cursor \in Cursors
  BY <1>1, <1>4, <1>5, PositionIsACursor, FirstPageIsACursor
<1>7. /\ old \subseteq Own(ReaderUser[r]) /\ ServedInOrder(v)
      /\ v.due \subseteq Wanted(r, v.unread)
      /\ \A x \in old : ~ Before(Position(x), v.cursor)
      /\ \A x \in v.due : x \in old \/ Before(Position(x), v.cursor)
  BY DEF WalkIsSound, WalkEnded
<1>8. v.cursor \in Cursors /\ \A x \in Notes : Position(x) \in Cursors
  BY PositionIsACursor DEF Walks
<1>9. \A i \in 1..Len(v.served) : v.served[i] \in old
  BY <1>2 DEF Served, Members
<1> HIDE DEF old, new
\* Whatever is behind the cursor is behind all that was served before it.
<1>10. ASSUME NEW x \in old, NEW y \in behind
       PROVE  Before(Position(y), Position(x))
  <2>1. /\ Position(x) \in Cursors /\ Position(y) \in Cursors
        /\ Before(Position(y), v.cursor) /\ ~ Before(Position(x), v.cursor)
    BY <1>1, <1>7, <1>8 DEF Own
  <2> QED
    BY <1>8, <2>1, BeforeIsAnOrder
<1>11. \A i, j \in 1..Len(page) : i < j => Before(Position(page[j]), Position(page[i]))
  BY DEF IsAPage
<1>12. \A i \in 1..Len(v.served), j \in 1..Len(page) :
          Before(Position(page[j]), Position(v.served[i]))
  BY <1>4, <1>9, <1>10
<1>13. ServedInOrder(w)
  BY <1>2, <1>7, <1>11, <1>12, OrderTogether
<1>14. \A x \in v.due : x \in old \/ x \in behind
  BY <1>7
<1>15. Served(w) \subseteq Own(ReaderUser[r])
  BY <1>1, <1>3, <1>4, <1>7
<1>16. w.due \subseteq Wanted(r, w.unread)
  BY <1>7
<1>17. CASE ~ more
  <2>1. behind \subseteq new
    BY <1>17 DEF IsAPage, new
  <2>2. WalkEnded(w) /\ w.due \subseteq Served(w)
    BY <1>3, <1>14, <1>17, <2>1 DEF WalkEnded
  <2> QED
    BY <1>3, <1>6, <1>13, <1>15, <1>16, <2>2 DEF WalkIsSound
<1>18. CASE more
  <2> DEFINE last == page[Len(page)]
  <2>1. /\ c = Position(last) /\ last \in behind /\ c \in Cursors
        /\ \A x \in behind : x \in new \/ Before(Position(x), c)
    BY <1>4, <1>5, <1>6, <1>18 DEF IsAPage, new
  <2>2. ASSUME NEW x \in old
        PROVE  ~ Before(Position(x), c)
    <3>1. Before(c, Position(x)) /\ Position(x) \in Cursors
      BY <1>7, <1>8, <1>10, <2>1 DEF Own
    <3> QED
      BY <2>1, <3>1, BeforeIsAnOrder
  <2>3. ASSUME NEW i \in 1..Len(page)
        PROVE  ~ Before(Position(page[i]), c)
    <3>1. Position(page[i]) \in Cursors
      BY <1>1, <1>4, <1>8
    <3>2. i = Len(page) \/ Before(c, Position(page[i]))
      BY <1>5, <1>11, <1>18, <2>1
    <3> QED
      BY <2>1, <3>1, <3>2, BeforeIsAnOrder
  <2>4. ~ WalkEnded(w)
    BY <1>18 DEF WalkEnded
  <2>5. \A x \in Served(w) : ~ Before(Position(x), w.cursor)
    BY <1>3, <1>4, <2>2, <2>3
  <2>6. \A x \in w.due : x \in Served(w) \/ Before(Position(x), w.cursor)
    BY <1>3, <1>14, <2>1
  <2> QED
    BY <1>3, <1>6, <1>13, <1>15, <1>16, <2>4, <2>5, <2>6 DEF WalkIsSound
<1> QED
  BY <1>17, <1>18

LEMMA ListMyNotificationsKeeps ==
    ASSUME InboxInv, NEW r \in Readers, ListMyNotifications(r)
    PROVE  InboxInv'
<1> DEFINE v == walk[r]
           behind == {x \in Wanted(r, v.unread) : Before(Position(x), v.cursor)}
           s == InOrder(behind, Newer)
           rows == First(s, PageLimit + 1)
           page == First(rows, PageLimit)
           more == Len(rows) > PageLimit
           w == [v EXCEPT !.at = "count", !.served = @ \o page, !.more = more,
                          !.cursor = IF more THEN Position(page[Len(page)]) ELSE FirstPage]
<1>1. v \in Walks /\ v.at = "page" /\ WalkIsSound(r, v) /\ InboxTypeOK
  BY DEF ListMyNotifications, InboxInv, InboxTypeOK
<1>2. walk' = [walk EXCEPT ![r] = w] /\ UNCHANGED <<time, note>>
  BY <1>1 DEF ListMyNotifications
<1>3. behind \subseteq WrittenNotes /\ behind \in SUBSET Notes
  BY DEF Wanted, Unread, Own, WrittenNotes
<1>4. IsFiniteSet(behind)
  BY <1>3, FS_Subset DEF InboxInv
<1>5. \A x : x \in behind <=> x \in Wanted(r, v.unread) /\ Before(Position(x), v.cursor)
  OBVIOUS
<1> HIDE DEF behind
<1>6. IsAPage(page, more, behind)
  BY <1>1, <1>3, <1>4, PageTakes
<1>7. more \in BOOLEAN
  OBVIOUS
<1> DEFINE c == IF more THEN Position(page[Len(page)]) ELSE FirstPage
           t == v.served \o page
<1>8. /\ w.at = "count" /\ w.served = t /\ w.more = more /\ w.cursor = c
      /\ w.due = v.due /\ w.unread = v.unread
  <2> HIDE DEF more, t, c
  <2>1. w = [v EXCEPT !.at = "count", !.served = t, !.more = more, !.cursor = c]
    BY DEF t, c
  <2> QED
    BY <1>1, <2>1 DEF Walks
<1>9. w = [v EXCEPT !.at = "count", !.served = t, !.more = more, !.cursor = c]
  OBVIOUS
<1> HIDE DEF w, page, more, v
<1>10. w.served \in Seq(Notes) /\ w.cursor \in Cursors /\ WalkIsSound(r, w)
  BY <1>1, <1>5, <1>6, <1>7, <1>8, PageIsSound
<1> HIDE DEF t, c
<1>11. w \in Walks
  BY <1>1, <1>7, <1>8, <1>9, <1>10 DEF Walks
<1> QED
  BY <1>2, <1>10, <1>11, WalkKeeps DEF v, w, more, page, c

LEMMA MarkKeeps ==
    ASSUME InboxInv, NEW marked \in SUBSET Notes, Mark(marked)
    PROVE  InboxInv'
<1>1. \A n \in Notes : /\ note'[n].at = note[n].at /\ note'[n].created = note[n].created
                       /\ note'[n].read = (note[n].read \/ n \in marked)
                       /\ note'[n] \in Written
  BY DEF Mark, InboxInv, InboxTypeOK, Written
<1>2. \A r \in Readers : /\ walk'[r] \in Walks
                         /\ walk'[r].at = walk[r].at /\ walk'[r].more = walk[r].more
                         /\ walk'[r].served = walk[r].served /\ walk'[r].cursor = walk[r].cursor
                         /\ walk'[r].unread = walk[r].unread
                         /\ walk'[r].due = IF walk[r].unread THEN walk[r].due \ marked ELSE walk[r].due
  BY DEF Mark, InboxInv, InboxTypeOK, Walks
<1>3. InboxTypeOK'
  BY <1>1, <1>2 DEF Mark, InboxInv, InboxTypeOK
<1>4. WrittenNotes' = WrittenNotes
  BY <1>1 DEF WrittenNotes
<1>5. ASSUME NEW r \in Readers
      PROVE  WalkIsSound(r, walk[r])'
  <2> DEFINE w == walk[r]
             new == walk'[r]
  <2>1. WalkIsSound(r, w)
    BY DEF InboxInv
  <2>2. Own(ReaderUser[r])' = Own(ReaderUser[r])
        /\ Unread(ReaderUser[r])' = Unread(ReaderUser[r]) \ marked
    BY <1>1 DEF Own, Unread
  <2>3. \A n \in Notes : Position(n)' = Position(n)
    BY <1>1 DEF Position
  <2>4. Served(walk[r])' = Served(w) /\ (WalkEnded(walk[r])' <=> WalkEnded(w))
    BY <1>2 DEF Served, Members, WalkEnded
  <2>5. new.due \subseteq w.due /\ w.due \subseteq Notes /\ Served(w) \subseteq Notes
    BY <1>2, <2>1 DEF WalkIsSound, Wanted, Own, Unread
  <2>6. ServedInOrder(walk[r])'
    <3>1. \A i \in DOMAIN w.served : w.served[i] \in Notes
      BY <2>5 DEF Served, Members
    <3>2. \A x, y \in Notes : Before(Position(x), Position(y))' <=> Before(Position(x), Position(y))
      BY <2>3 DEF Before
    <3> QED
      BY <1>2, <2>1, <3>1, <3>2 DEF WalkIsSound, ServedInOrder
  <2>7. new.due \subseteq Wanted(r, walk[r].unread)'
    BY <1>2, <2>1, <2>2 DEF WalkIsSound, Wanted
  <2>8. CASE WalkEnded(w)
    BY <1>2, <2>1, <2>2, <2>4, <2>5, <2>6, <2>7, <2>8 DEF WalkIsSound
  <2>9. CASE ~ WalkEnded(w)
    <3>1. \A n \in Served(w) : ~ Before(Position(n), walk[r].cursor)'
      BY <1>2, <2>1, <2>3, <2>5, <2>9 DEF WalkIsSound, Before
    <3>2. \A n \in new.due : n \in Served(w) \/ Before(Position(n), walk[r].cursor)'
      BY <1>2, <2>1, <2>3, <2>5, <2>9 DEF WalkIsSound, Before
    <3> QED
      BY <1>2, <2>1, <2>2, <2>4, <2>6, <2>7, <2>9, <3>1, <3>2 DEF WalkIsSound
  <2> QED
    BY <2>8, <2>9
<1> QED
  BY <1>3, <1>4, <1>5 DEF InboxInv

LEMMA InboxInvInit == InboxInit => InboxInv
<1> SUFFICES ASSUME InboxInit PROVE InboxInv
  OBVIOUS
<1>1. InboxTypeOK
  BY InboxAssumption, FirstPageIsACursor DEF InboxInit, InboxTypeOK, Unwritten, Written, NoWalk, Walks
<1>2. WrittenNotes = {}
  BY DEF InboxInit, WrittenNotes, Unwritten
<1>3. ASSUME NEW r \in Readers
      PROVE  WalkIsSound(r, walk[r])
  <2>1. walk[r] = NoWalk /\ NoWalk.served = <<>> /\ NoWalk.due = {} /\ WalkEnded(NoWalk)
    BY DEF InboxInit, NoWalk, WalkEnded
  <2>2. Served(NoWalk) = {}
    BY <2>1 DEF Served, Members
  <2>3. ServedInOrder(NoWalk)
    BY <2>1 DEF ServedInOrder
  <2> QED
    BY <2>1, <2>2, <2>3 DEF WalkIsSound
<1> QED
  BY <1>1, <1>2, <1>3, FS_EmptySet DEF InboxInv

LEMMA InboxInvNext == InboxInv /\ [InboxNext]_inboxVars => InboxInv'
<1> SUFFICES ASSUME InboxInv, [InboxNext]_inboxVars PROVE InboxInv'
  OBVIOUS
<1>1. CASE PassTime
  BY <1>1, PassTimeKeeps
<1>2. ASSUME NEW n \in Notes, BeginNotice(n) \/ EndNotice(n) PROVE InboxInv'
  BY <1>2, BeginNoticeKeeps, EndNoticeKeeps
<1>3. ASSUME NEW r \in Readers, StartWalk(r) \/ ListMyNotifications(r) \/ CountUnread(r) \/ NextPage(r)
      PROVE InboxInv'
  BY <1>3, StartWalkKeeps, ListMyNotificationsKeeps, CountUnreadKeeps, NextPageKeeps
<1>4. ASSUME NEW u \in NoteUsers, NEW n \in Notes, MarkNotificationAsRead(u, n) PROVE InboxInv'
  BY <1>4, MarkKeeps DEF MarkNotificationAsRead
<1>5. ASSUME NEW u \in NoteUsers, MarkAllNotificationsAsRead(u) PROVE InboxInv'
  <2>1. Unread(u) \in SUBSET Notes
    BY DEF Unread, Own
  <2> QED
    BY <1>5, <2>1, MarkKeeps DEF MarkAllNotificationsAsRead
<1>6. CASE UNCHANGED inboxVars
  BY <1>6, ArrivalsKeep DEF inboxVars, InboxInv, InboxTypeOK, WrittenNotes
<1> QED
  BY <1>1, <1>2, <1>3, <1>4, <1>5, <1>6 DEF InboxNext

LEMMA InboxInvGives == InboxInv => InboxTypeOK /\ WalksAreComplete
<1> SUFFICES ASSUME InboxInv PROVE WalksAreComplete
  BY DEF InboxInv
<1>1. ASSUME NEW r \in Readers
      PROVE  /\ ServedInOrder(walk[r])
             /\ \A n \in Served(walk[r]) : NoteOwner[n] = ReaderUser[r]
             /\ WalkEnded(walk[r]) => walk[r].due \subseteq Served(walk[r])
  BY DEF InboxInv, WalkIsSound, Own
<1> QED
  BY <1>1 DEF WalksAreComplete, Served, Members

\* No walk through the inbox repeats, misplaces or misses a notification,
\* however many notifications there are and however they arrive and are marked.
THEOREM WalksMissNothing == InboxSpec => []WalksAreComplete
BY InboxInvInit, InboxInvNext, InboxInvGives, PTL DEF InboxSpec



\* A sequence of a given length, whatever it holds.
HasLength(s, n) == s = [i \in 1..n |-> s[i]]

\* One sequence of length m followed by one of length n.
IsJoin(r, s, m, t, n) ==
    /\ HasLength(r, m + n) /\ Len(r) = m + n
    /\ \A i \in 1..m : r[i] = s[i]
    /\ \A i \in 1..n : r[m + i] = t[i]

LEMMA Joined ==
    ASSUME NEW m \in Nat, NEW n \in Nat, NEW s, HasLength(s, m), NEW t, HasLength(t, n)
    PROVE  IsJoin(s \o t, s, m, t, n)
<1> DEFINE S == {s[i] : i \in 1..m} \cup {t[i] : i \in 1..n}
<1>1. s \in [1..m -> S] /\ t \in [1..n -> S]
  BY DEF HasLength
<1> HIDE DEF S
<1>2. s \in Seq(S) /\ t \in Seq(S) /\ Len(s) = m /\ Len(t) = n
  BY <1>1
<1>3. s \o t \in Seq(S) /\ Len(s \o t) = m + n
  BY <1>2
<1>4. DOMAIN (s \o t) = 1..(m + n) /\ s \o t \in [1..(m + n) -> S]
  BY <1>3, LenProperties
<1>5. \A i \in 1..m : (s \o t)[i] = s[i]
  BY <1>2
<1>6. \A i \in 1..n : (s \o t)[m + i] = t[i]
  BY <1>2
<1> QED
  BY <1>3, <1>4, <1>5, <1>6 DEF HasLength, IsJoin

LEMMA SeedRowsAre ==
    /\ DOMAIN SeedRows = 1..21 /\ Len(SeedRows) = 21
    /\ \A i \in 1..13 : SeedRows[i] = CandidateRows[i]
    /\ \A i \in 1..8 : SeedRows[13 + i] = CompanyRows[i]
<1>1. HasLength(CandidateRows, 13)
  BY DEF CandidateRows, HasLength
<1>2. HasLength(CompanyRows, 8)
  BY DEF CompanyRows, HasLength
<1>3. IsJoin(SeedRows, CandidateRows, 13, CompanyRows, 8)
  BY <1>1, <1>2, Joined DEF SeedRows
<1> QED
  BY <1>3 DEF IsJoin, HasLength

SeedNames ==
    <<"address", "skill", "user-candidate", "user-company", "user-administrator",
      "candidate", "resume", "resume-skill", "experience", "education", "certification",
      "language", "attached", "company", "administrator", "job", "job-skill", "application",
      "training", "event", "notification">>

LEMMA SeedNamesAre == \A i \in 1..21 : SeedRows[i].id = SeedNames[i]
<1>1. \A i \in 1..13 : CandidateRows[i].id = SeedNames[i]
  BY DEF CandidateRows, SeedRow, SeedNames
<1>2. \A i \in 1..8 : CompanyRows[i].id = SeedNames[13 + i]
  BY DEF CompanyRows, SeedRow, SeedNames
<1> QED
  BY <1>1, <1>2, SeedRowsAre

\* No two rows of the seed have one identifier, so each is found under its own.
LEMMA SeedRowIsFound ==
    ASSUME NEW k \in 1..21
    PROVE  /\ ReferredBy(SeedNames[k]) = SeedRows[k].refs
           /\ TableOf(SeedNames[k]) = SeedRows[k].table
<1>1. \A i, j \in 1..21 : SeedNames[i] = SeedNames[j] => i = j
  BY DEF SeedNames
<1>2. \A i \in DOMAIN SeedRows : SeedRows[i].id = SeedNames[k] => i = k
  BY <1>1, SeedRowsAre, SeedNamesAre
<1>3. k \in DOMAIN SeedRows /\ SeedRows[k].id = SeedNames[k]
  BY SeedRowsAre, SeedNamesAre
<1>4. (CHOOSE i \in DOMAIN SeedRows : SeedRows[i].id = SeedNames[k]) = k
  BY <1>2, <1>3
<1> QED
  BY <1>4 DEF ReferredBy, TableOf

IsRow(id, table, refs) == ReferredBy(id) = refs /\ TableOf(id) = table

LEMMA SeedTable ==
    /\ IsRow("address", "address", {})
    /\ IsRow("skill", "skill", {})
    /\ IsRow("user-candidate", "app_user", {})
    /\ IsRow("user-company", "app_user", {})
    /\ IsRow("user-administrator", "app_user", {})
    /\ IsRow("candidate", "candidate", {"user-candidate"})
    /\ IsRow("resume", "resume", {"candidate"})
    /\ IsRow("resume-skill", "resume_skill", {"resume", "skill"})
    /\ IsRow("experience", "experience", {"resume"})
    /\ IsRow("education", "education", {"resume"})
    /\ IsRow("certification", "certification", {"resume"})
    /\ IsRow("language", "language", {"resume"})
    /\ IsRow("attached", "attached_certificate", {"certification"})
    /\ IsRow("company", "company", {"user-company", "address"})
    /\ IsRow("administrator", "administrator", {"user-administrator"})
    /\ IsRow("job", "job", {"company"})
    /\ IsRow("job-skill", "job_skill", {"job", "skill"})
    /\ IsRow("application", "application", {"candidate", "job"})
    /\ IsRow("training", "training", {})
    /\ IsRow("event", "event", {"user-candidate"})
    /\ IsRow("notification", "notification", {"user-candidate"})
<1>1. \A k \in 1..21 : \A id, table, refs :
        SeedRows[k] = SeedRow(id, table, refs) => IsRow(id, table, refs)
  <2> TAKE k \in 1..21
  <2> TAKE id, table, refs
  <2> HAVE SeedRows[k] = SeedRow(id, table, refs)
  <2>1. SeedRows[k].id = id /\ SeedRows[k].table = table /\ SeedRows[k].refs = refs
    BY DEF SeedRow
  <2>2. SeedNames[k] = id
    BY <2>1, SeedNamesAre
  <2> QED
    BY <2>1, <2>2, SeedRowIsFound DEF IsRow
<1>2. /\ SeedRows[1] = SeedRow("address", "address", {})
      /\ SeedRows[2] = SeedRow("skill", "skill", {})
      /\ SeedRows[3] = SeedRow("user-candidate", "app_user", {})
      /\ SeedRows[4] = SeedRow("user-company", "app_user", {})
      /\ SeedRows[5] = SeedRow("user-administrator", "app_user", {})
      /\ SeedRows[6] = SeedRow("candidate", "candidate", {"user-candidate"})
      /\ SeedRows[7] = SeedRow("resume", "resume", {"candidate"})
      /\ SeedRows[8] = SeedRow("resume-skill", "resume_skill", {"resume", "skill"})
      /\ SeedRows[9] = SeedRow("experience", "experience", {"resume"})
      /\ SeedRows[10] = SeedRow("education", "education", {"resume"})
      /\ SeedRows[11] = SeedRow("certification", "certification", {"resume"})
      /\ SeedRows[12] = SeedRow("language", "language", {"resume"})
      /\ SeedRows[13] = SeedRow("attached", "attached_certificate", {"certification"})
  <2>1. \A i \in 1..13 : SeedRows[i] = CandidateRows[i]
    BY SeedRowsAre
  <2> HIDE DEF SeedRow
  <2> QED
    BY <2>1 DEF CandidateRows
<1>3. /\ SeedRows[14] = SeedRow("company", "company", {"user-company", "address"})
      /\ SeedRows[15] = SeedRow("administrator", "administrator", {"user-administrator"})
      /\ SeedRows[16] = SeedRow("job", "job", {"company"})
      /\ SeedRows[17] = SeedRow("job-skill", "job_skill", {"job", "skill"})
      /\ SeedRows[18] = SeedRow("application", "application", {"candidate", "job"})
      /\ SeedRows[19] = SeedRow("training", "training", {})
      /\ SeedRows[20] = SeedRow("event", "event", {"user-candidate"})
      /\ SeedRows[21] = SeedRow("notification", "notification", {"user-candidate"})
  <2>1. \A i \in 1..8 : SeedRows[13 + i] = CompanyRows[i]
    BY SeedRowsAre
  <2> HIDE DEF SeedRow
  <2> QED
    BY <2>1 DEF CompanyRows
<1> HIDE DEF IsRow, SeedRow
<1> QED
  BY <1>1, <1>2, <1>3

-----------------------------------------------------------------------------
\* The tables of the migrations, in the order they are created.

Held(s, x) == \E i \in DOMAIN s : s[i] = x

LEMMA JoinedHold ==
    ASSUME NEW m \in Nat, NEW n \in Nat, NEW s, HasLength(s, m), NEW t, HasLength(t, n), NEW x
    PROVE  Held(s \o t, x) <=> Held(s, x) \/ Held(t, x)
<1>1. /\ DOMAIN s = 1..m /\ DOMAIN t = 1..n /\ DOMAIN (s \o t) = 1..(m + n)
      /\ \A i \in 1..m : (s \o t)[i] = s[i]
      /\ \A i \in 1..n : (s \o t)[m + i] = t[i]
  BY Joined DEF IsJoin, HasLength
<1>2. ASSUME NEW i \in 1..(m + n)
      PROVE  i \in 1..m \/ (i - m \in 1..n /\ m + (i - m) = i)
  OBVIOUS
<1>3. \A i \in 1..m : i \in 1..(m + n)
  OBVIOUS
<1>4. \A i \in 1..n : m + i \in 1..(m + n)
  OBVIOUS
<1>5. ASSUME NEW i \in 1..(m + n), (s \o t)[i] = x
      PROVE  Held(s, x) \/ Held(t, x)
  <2>1. CASE i \in 1..m
    BY <1>1, <1>5, <2>1 DEF Held
  <2>2. CASE i - m \in 1..n /\ m + (i - m) = i
    <3>1. t[i - m] = x
      BY <1>1, <1>5, <2>2
    <3> QED
      BY <1>1, <2>2, <3>1 DEF Held
  <2> QED
    BY <1>2, <2>1, <2>2
<1>6. Held(s, x) => Held(s \o t, x)
  BY <1>1, <1>3 DEF Held
<1>7. Held(t, x) => Held(s \o t, x)
  BY <1>1, <1>4 DEF Held
<1> QED
  BY <1>1, <1>5, <1>6, <1>7 DEF Held

LEMMA PartLengths ==
    /\ HasLength(CatalogTables, 4) /\ HasLength(AccountTables, 3) /\ HasLength(ActivityTables, 3)
    /\ HasLength(ResumeTable, 1) /\ HasLength(ApplicationTable, 1) /\ HasLength(RecordTables, 5)
    /\ HasLength(JoinTables, 2) /\ HasLength(GuidanceTable, 1) /\ HasLength(DeliveryTable, 1)
    /\ HasLength(ContactTable, 1)
<1> HIDE DEF Table
<1>1. HasLength(CatalogTables, 4) /\ HasLength(AccountTables, 3) /\ HasLength(ActivityTables, 3)
  BY DEF HasLength, CatalogTables, AccountTables, ActivityTables
<1>2. HasLength(ResumeTable, 1) /\ HasLength(ApplicationTable, 1) /\ HasLength(RecordTables, 5)
  BY DEF HasLength, ResumeTable, ApplicationTable, RecordTables
<1>3. HasLength(JoinTables, 2) /\ HasLength(GuidanceTable, 1) /\ HasLength(DeliveryTable, 1)
      /\ HasLength(ContactTable, 1)
  BY DEF HasLength, JoinTables, GuidanceTable, DeliveryTable, ContactTable
<1> QED
  BY <1>1, <1>2, <1>3

LEMMA InitialTablesAre ==
    /\ HasLength(InitialTables, 17) /\ DOMAIN InitialTables = 1..17
    /\ InitialTables[1] = Table("address", {})
    /\ InitialTables[2] = Table("app_user", {})
    /\ InitialTables[3] = Table("skill", {})
    /\ InitialTables[4] = Table("training", {})
    /\ InitialTables[5] = Table("administrator", {Cascade("app_user")})
    /\ InitialTables[6] = Table("candidate", {Cascade("app_user")})
    /\ InitialTables[7] = Table("company", {SetNull("address"), Cascade("app_user")})
    /\ InitialTables[8] = Table("event", {SetNull("app_user")})
    /\ InitialTables[9] = Table("notification", {Cascade("app_user")})
    /\ InitialTables[10] = Table("job", {Cascade("company")})
    /\ InitialTables[11] = Table("resume", {Cascade("candidate")})
    /\ InitialTables[12] = Table("application", {Cascade("candidate"), Cascade("job")})
    /\ InitialTables[13] = Table("attached_certificate", {Cascade("resume")})
    /\ InitialTables[14] = Table("certification", {Cascade("resume")})
    /\ InitialTables[15] = Table("education", {Cascade("resume")})
    /\ InitialTables[16] = Table("experience", {Cascade("resume")})
    /\ InitialTables[17] = Table("language", {Cascade("resume")})
<1> DEFINE a == CatalogTables \o AccountTables
           b == a \o ActivityTables
           c == b \o ResumeTable
           d == c \o ApplicationTable
           e == d \o RecordTables
<1>0. InitialTables = e
  BY DEF InitialTables
<1>1. /\ HasLength(a, 7)
      /\ \A i \in 1..4 : a[i] = CatalogTables[i]
      /\ \A i \in 1..3 : a[4 + i] = AccountTables[i]
  <2>1. IsJoin(a, CatalogTables, 4, AccountTables, 3)
    BY PartLengths, Joined
  <2> HIDE DEF a
  <2> QED
    BY <2>1 DEF IsJoin
<1> HIDE DEF a
<1>2. /\ HasLength(b, 10)
      /\ \A i \in 1..7 : b[i] = a[i]
      /\ \A i \in 1..3 : b[7 + i] = ActivityTables[i]
  <2>1. IsJoin(b, a, 7, ActivityTables, 3)
    BY <1>1, PartLengths, Joined
  <2> HIDE DEF b
  <2> QED
    BY <2>1 DEF IsJoin
<1> HIDE DEF b
<1>3. /\ HasLength(c, 11)
      /\ \A i \in 1..10 : c[i] = b[i]
      /\ \A i \in 1..1 : c[10 + i] = ResumeTable[i]
  <2>1. IsJoin(c, b, 10, ResumeTable, 1)
    BY <1>2, PartLengths, Joined
  <2> HIDE DEF c
  <2> QED
    BY <2>1 DEF IsJoin
<1> HIDE DEF c
<1>4. /\ HasLength(d, 12)
      /\ \A i \in 1..11 : d[i] = c[i]
      /\ \A i \in 1..1 : d[11 + i] = ApplicationTable[i]
  <2>1. IsJoin(d, c, 11, ApplicationTable, 1)
    BY <1>3, PartLengths, Joined
  <2> HIDE DEF d
  <2> QED
    BY <2>1 DEF IsJoin
<1> HIDE DEF d
<1>5. /\ HasLength(e, 17)
      /\ \A i \in 1..12 : e[i] = d[i]
      /\ \A i \in 1..5 : e[12 + i] = RecordTables[i]
  <2>1. IsJoin(e, d, 12, RecordTables, 5)
    BY <1>4, PartLengths, Joined
  <2> HIDE DEF e
  <2> QED
    BY <2>1 DEF IsJoin
<1> HIDE DEF e
<1>6. DOMAIN e = 1..17
  BY <1>5 DEF HasLength
<1>7. /\ e[1] = Table("address", {})
      /\ e[2] = Table("app_user", {})
      /\ e[3] = Table("skill", {})
      /\ e[4] = Table("training", {})
  <2>1. e[1] = CatalogTables[1] /\ e[2] = CatalogTables[2] /\ e[3] = CatalogTables[3] /\ e[4] = CatalogTables[4]
    BY <1>1, <1>2, <1>3, <1>4, <1>5
  <2> QED
    BY <2>1 DEF CatalogTables
<1>8. /\ e[5] = Table("administrator", {Cascade("app_user")})
      /\ e[6] = Table("candidate", {Cascade("app_user")})
      /\ e[7] = Table("company", {SetNull("address"), Cascade("app_user")})
  <2>1. e[5] = AccountTables[1] /\ e[6] = AccountTables[2] /\ e[7] = AccountTables[3]
    BY <1>1, <1>2, <1>3, <1>4, <1>5
  <2> QED
    BY <2>1 DEF AccountTables
<1>9. /\ e[8] = Table("event", {SetNull("app_user")})
      /\ e[9] = Table("notification", {Cascade("app_user")})
      /\ e[10] = Table("job", {Cascade("company")})
  <2>1. e[8] = ActivityTables[1] /\ e[9] = ActivityTables[2] /\ e[10] = ActivityTables[3]
    BY <1>1, <1>2, <1>3, <1>4, <1>5
  <2> QED
    BY <2>1 DEF ActivityTables
<1>10. /\ e[11] = Table("resume", {Cascade("candidate")})
  <2>1. e[11] = ResumeTable[1]
    BY <1>1, <1>2, <1>3, <1>4, <1>5
  <2> QED
    BY <2>1 DEF ResumeTable
<1>11. /\ e[12] = Table("application", {Cascade("candidate"), Cascade("job")})
  <2>1. e[12] = ApplicationTable[1]
    BY <1>1, <1>2, <1>3, <1>4, <1>5
  <2> QED
    BY <2>1 DEF ApplicationTable
<1>12. /\ e[13] = Table("attached_certificate", {Cascade("resume")})
      /\ e[14] = Table("certification", {Cascade("resume")})
      /\ e[15] = Table("education", {Cascade("resume")})
      /\ e[16] = Table("experience", {Cascade("resume")})
      /\ e[17] = Table("language", {Cascade("resume")})
  <2>1. e[13] = RecordTables[1] /\ e[14] = RecordTables[2] /\ e[15] = RecordTables[3] /\ e[16] = RecordTables[4] /\ e[17] = RecordTables[5]
    BY <1>1, <1>2, <1>3, <1>4, <1>5
  <2> QED
    BY <2>1 DEF RecordTables
<1> QED
  BY <1>0, <1>5, <1>6, <1>7, <1>8, <1>9, <1>10, <1>11, <1>12

LEMMA HeadTablesAre ==
    ASSUME NEW x
    PROVE  x \in HeadTables <=>
              \/ x = ProofTable
              \/ /\ x.name # ProofTable.name
                 /\ \/ Held(InitialTables, x) \/ Held(JoinTables, x) \/ Held(GuidanceTable, x)
                    \/ Held(DeliveryTable, x) \/ Held(ContactTable, x)
<1> DEFINE a == InitialTables \o JoinTables
           b == a \o GuidanceTable
           c == b \o DeliveryTable
           d == c \o ContactTable
<1>1. x \in HeadTables <=> x = ProofTable \/ (Held(d, x) /\ x.name # ProofTable.name)
  <2> HIDE DEF ProofTable
  <2>1. HeadTables = {ProofTable} \cup {d[i] : i \in {j \in DOMAIN d : d[j].name # ProofTable.name}}
    BY DEF HeadTables
  <2> HIDE DEF d
  <2> QED
    BY <2>1 DEF Held
<1>2. HasLength(a, 19) /\ (Held(a, x) <=> Held(InitialTables, x) \/ Held(JoinTables, x))
  <2>1. HasLength(InitialTables, 17) /\ HasLength(JoinTables, 2)
    BY InitialTablesAre, PartLengths
  <2>2. IsJoin(a, InitialTables, 17, JoinTables, 2)
    BY <2>1, Joined
  <2>3. Held(a, x) <=> Held(InitialTables, x) \/ Held(JoinTables, x)
    BY <2>1, JoinedHold
  <2> HIDE DEF a
  <2> QED
    BY <2>2, <2>3 DEF IsJoin
<1> HIDE DEF a
<1>3. HasLength(b, 20) /\ (Held(b, x) <=> Held(a, x) \/ Held(GuidanceTable, x))
  <2>1. IsJoin(b, a, 19, GuidanceTable, 1)
    BY <1>2, PartLengths, Joined
  <2>2. Held(b, x) <=> Held(a, x) \/ Held(GuidanceTable, x)
    BY <1>2, PartLengths, JoinedHold
  <2> HIDE DEF b
  <2> QED
    BY <2>1, <2>2 DEF IsJoin
<1> HIDE DEF b
<1>4. HasLength(c, 21) /\ (Held(c, x) <=> Held(b, x) \/ Held(DeliveryTable, x))
  <2>1. IsJoin(c, b, 20, DeliveryTable, 1)
    BY <1>3, PartLengths, Joined
  <2>2. Held(c, x) <=> Held(b, x) \/ Held(DeliveryTable, x)
    BY <1>3, PartLengths, JoinedHold
  <2> HIDE DEF c
  <2> QED
    BY <2>1, <2>2 DEF IsJoin
<1> HIDE DEF c
<1>5. Held(d, x) <=> Held(c, x) \/ Held(ContactTable, x)
  BY <1>4, PartLengths, JoinedHold
<1> QED
  BY <1>1, <1>2, <1>3, <1>4, <1>5

LEMMA TableParts ==
    ASSUME NEW name, NEW refs, NEW a
    PROVE  /\ Table(name, refs).name = name
           /\ Targets(Table(name, refs)) = {ref.to : ref \in refs}
           /\ Cascade(a).to = a /\ SetNull(a).to = a
BY DEF Targets, Table, Cascade, SetNull

\* The table a row of the seed goes to has the references the row makes.
Fits(id, table) ==
    table.name = TableOf(id) /\ Targets(table) = {TableOf(ref) : ref \in ReferredBy(id)}

LEMMA NoReferenceFits ==
    ASSUME NEW id, NEW name, IsRow(id, name, {})
    PROVE  Fits(id, Table(name, {}))
<1>1. Table(name, {}).name = name /\ Targets(Table(name, {})) = {}
  BY TableParts
<1> QED
  BY <1>1 DEF Fits, IsRow

LEMMA OneReferenceFits ==
    ASSUME NEW id, NEW name, NEW r, IsRow(id, name, {r}),
           NEW table \in {Table(name, {Cascade(TableOf(r))}), Table(name, {SetNull(TableOf(r))})}
    PROVE  Fits(id, table)
<1> DEFINE a == TableOf(r)
<1> HIDE DEF a
<1>1. \A ref \in {Cascade(a), SetNull(a)} : ref.to = a
  BY TableParts
<1>2. \A ref \in {Cascade(a), SetNull(a)} : {x.to : x \in {ref}} = {a}
  BY <1>1
<1>3. PICK ref \in {Cascade(a), SetNull(a)} : table = Table(name, {ref})
  BY DEF a
<1>4. table.name = name /\ Targets(table) = {a}
  BY <1>2, <1>3, TableParts
<1>5. {TableOf(x) : x \in {r}} = {a}
  BY DEF a
<1> QED
  BY <1>4, <1>5 DEF Fits, IsRow

LEMMA TwoReferencesFit ==
    ASSUME NEW id, NEW name, NEW r, NEW q, IsRow(id, name, {r, q}),
           NEW table \in {Table(name, {Cascade(TableOf(r)), Cascade(TableOf(q))}),
                          Table(name, {SetNull(TableOf(q)), Cascade(TableOf(r))})}
    PROVE  Fits(id, table)
<1> DEFINE a == TableOf(r)
           b == TableOf(q)
<1> HIDE DEF a, b
<1>1. Cascade(a).to = a /\ Cascade(b).to = b /\ SetNull(b).to = b
  BY TableParts
<1>2. PICK x, y : table = Table(name, {x, y}) /\ x.to = a /\ y.to = b
  BY <1>1 DEF a, b
<1>3. {ref.to : ref \in {x, y}} = {a, b}
  BY <1>2
<1>4. table.name = name /\ Targets(table) = {a, b}
  BY <1>2, <1>3, TableParts
<1>5. {TableOf(ref) : ref \in {r, q}} = {a, b}
  BY DEF a, b
<1> QED
  BY <1>4, <1>5 DEF Fits, IsRow

LEMMA SeedFits == \A id \in SeedIds : \E table \in HeadTables : Fits(id, table)
<1>1. ASSUME NEW name, NEW refs, name # "attached_certificate",
             Held(InitialTables, Table(name, refs)) \/ Held(JoinTables, Table(name, refs))
      PROVE  Table(name, refs) \in HeadTables
  <2>1. Table(name, refs).name = name /\ ProofTable.name = "attached_certificate"
    BY DEF Table, ProofTable
  <2> QED
    BY <1>1, <2>1, HeadTablesAre
<1>2. ProofTable \in HeadTables /\ ProofTable = Table("attached_certificate", {Cascade("certification")})
  BY HeadTablesAre DEF ProofTable
<1>3. /\ Held(InitialTables, Table("address", {}))
      /\ Held(InitialTables, Table("app_user", {}))
      /\ Held(InitialTables, Table("skill", {}))
      /\ Held(InitialTables, Table("training", {}))
      /\ Held(InitialTables, Table("administrator", {Cascade("app_user")}))
      /\ Held(InitialTables, Table("candidate", {Cascade("app_user")}))
      /\ Held(InitialTables, Table("company", {SetNull("address"), Cascade("app_user")}))
      /\ Held(InitialTables, Table("event", {SetNull("app_user")}))
      /\ Held(InitialTables, Table("notification", {Cascade("app_user")}))
      /\ Held(InitialTables, Table("job", {Cascade("company")}))
      /\ Held(InitialTables, Table("resume", {Cascade("candidate")}))
      /\ Held(InitialTables, Table("application", {Cascade("candidate"), Cascade("job")}))
      /\ Held(InitialTables, Table("certification", {Cascade("resume")}))
      /\ Held(InitialTables, Table("education", {Cascade("resume")}))
      /\ Held(InitialTables, Table("experience", {Cascade("resume")}))
      /\ Held(InitialTables, Table("language", {Cascade("resume")}))
  <2> HIDE DEF Table, Cascade, SetNull
  <2> QED
    BY InitialTablesAre DEF Held
<1>4. /\ Held(JoinTables, Table("resume_skill", {Cascade("resume"), Cascade("skill")}))
      /\ Held(JoinTables, Table("job_skill", {Cascade("job"), Cascade("skill")}))
  <2> HIDE DEF Table, Cascade, SetNull
  <2>1. /\ DOMAIN JoinTables = 1..2
        /\ JoinTables[1] = Table("resume_skill", {Cascade("resume"), Cascade("skill")})
        /\ JoinTables[2] = Table("job_skill", {Cascade("job"), Cascade("skill")})
    BY DEF JoinTables
  <2> QED
    BY <2>1 DEF Held
<1>5. /\ Table("address", {}) \in HeadTables
      /\ Table("app_user", {}) \in HeadTables
      /\ Table("skill", {}) \in HeadTables
      /\ Table("training", {}) \in HeadTables
      /\ Table("administrator", {Cascade("app_user")}) \in HeadTables
      /\ Table("candidate", {Cascade("app_user")}) \in HeadTables
      /\ Table("company", {SetNull("address"), Cascade("app_user")}) \in HeadTables
      /\ Table("event", {SetNull("app_user")}) \in HeadTables
      /\ Table("notification", {Cascade("app_user")}) \in HeadTables
      /\ Table("job", {Cascade("company")}) \in HeadTables
      /\ Table("resume", {Cascade("candidate")}) \in HeadTables
      /\ Table("application", {Cascade("candidate"), Cascade("job")}) \in HeadTables
      /\ Table("attached_certificate", {Cascade("certification")}) \in HeadTables
      /\ Table("certification", {Cascade("resume")}) \in HeadTables
      /\ Table("education", {Cascade("resume")}) \in HeadTables
      /\ Table("experience", {Cascade("resume")}) \in HeadTables
      /\ Table("language", {Cascade("resume")}) \in HeadTables
      /\ Table("resume_skill", {Cascade("resume"), Cascade("skill")}) \in HeadTables
      /\ Table("job_skill", {Cascade("job"), Cascade("skill")}) \in HeadTables
  <2> HIDE DEF Table, Cascade, SetNull
  <2> QED
    BY <1>1, <1>2, <1>3, <1>4
<1> HIDE DEF HeadTables, Cascade, SetNull, Table
<1>6. \A id, name : IsRow(id, name, {}) /\ Table(name, {}) \in HeadTables
           => \E t \in HeadTables : Fits(id, t)
  BY NoReferenceFits
<1>7. \A id, name, r, table : IsRow(id, name, {r}) /\ table \in HeadTables
          /\ table \in {Table(name, {Cascade(TableOf(r))}), Table(name, {SetNull(TableOf(r))})}
          => \E t \in HeadTables : Fits(id, t)
  BY OneReferenceFits
<1>8. \A id, name, r, q, table : IsRow(id, name, {r, q}) /\ table \in HeadTables
          /\ table \in {Table(name, {Cascade(TableOf(r)), Cascade(TableOf(q))}),
                        Table(name, {SetNull(TableOf(q)), Cascade(TableOf(r))})}
          => \E t \in HeadTables : Fits(id, t)
  BY TwoReferencesFit
<1>9. /\ TableOf("address") = "address"
      /\ TableOf("skill") = "skill"
      /\ TableOf("user-candidate") = "app_user"
      /\ TableOf("user-company") = "app_user"
      /\ TableOf("user-administrator") = "app_user"
      /\ TableOf("candidate") = "candidate"
      /\ TableOf("resume") = "resume"
      /\ TableOf("resume-skill") = "resume_skill"
      /\ TableOf("experience") = "experience"
      /\ TableOf("education") = "education"
      /\ TableOf("certification") = "certification"
      /\ TableOf("language") = "language"
      /\ TableOf("attached") = "attached_certificate"
      /\ TableOf("company") = "company"
      /\ TableOf("administrator") = "administrator"
      /\ TableOf("job") = "job"
      /\ TableOf("job-skill") = "job_skill"
      /\ TableOf("application") = "application"
      /\ TableOf("training") = "training"
      /\ TableOf("event") = "event"
      /\ TableOf("notification") = "notification"
  BY SeedTable DEF IsRow
<1> HIDE DEF Fits, IsRow
<1>10. /\ \E t \in HeadTables : Fits("address", t)
       /\ \E t \in HeadTables : Fits("skill", t)
       /\ \E t \in HeadTables : Fits("user-candidate", t)
       /\ \E t \in HeadTables : Fits("user-company", t)
       /\ \E t \in HeadTables : Fits("user-administrator", t)
       /\ \E t \in HeadTables : Fits("training", t)
  BY <1>5, <1>6, <1>9, SeedTable
<1>11. /\ \E t \in HeadTables : Fits("candidate", t)
       /\ \E t \in HeadTables : Fits("resume", t)
       /\ \E t \in HeadTables : Fits("experience", t)
       /\ \E t \in HeadTables : Fits("education", t)
       /\ \E t \in HeadTables : Fits("certification", t)
       /\ \E t \in HeadTables : Fits("language", t)
       /\ \E t \in HeadTables : Fits("attached", t)
       /\ \E t \in HeadTables : Fits("administrator", t)
       /\ \E t \in HeadTables : Fits("job", t)
       /\ \E t \in HeadTables : Fits("event", t)
       /\ \E t \in HeadTables : Fits("notification", t)
  BY <1>5, <1>7, <1>9, SeedTable
<1>12. /\ \E t \in HeadTables : Fits("resume-skill", t)
       /\ \E t \in HeadTables : Fits("company", t)
       /\ \E t \in HeadTables : Fits("job-skill", t)
       /\ \E t \in HeadTables : Fits("application", t)
  BY <1>5, <1>8, <1>9, SeedTable
<1>13. \A id \in SeedIds : \E k \in 1..21 : id = SeedNames[k]
  BY SeedRowsAre, SeedNamesAre DEF SeedIds
<1>14. \A k \in 1..21 : \E t \in HeadTables : Fits(SeedNames[k], t)
  BY <1>10, <1>11, <1>12 DEF SeedNames
<1> QED
  BY <1>13, <1>14


-----------------------------------------------------------------------------
\* The seed.  A row that is there has what it refers to, at any moment: the seed
\* inserts a row after them, and what people remove takes with it what refers to it.

\* What the statements refer to, among the rows that people may change.
LEMMA SeedReferences ==
    ASSUME NEW id \in SeedIds
    PROVE  /\ ReferredBy(id) \subseteq
                  {"address", "skill", "user-candidate", "user-company", "user-administrator",
                   "candidate", "resume", "certification", "company", "job"}
           /\ ReferredBy(id) \subseteq SeedIds
           /\ "certification" \in ReferredBy(id) => id = "attached"
           /\ id \in SeedUsers \cup {"training"} => ReferredBy(id) = {}
           /\ id = "notification" => ReferredBy(id) = {"user-candidate"}
<1>1. PICK k \in 1..21 : id = SeedNames[k]
  BY SeedRowsAre, SeedNamesAre DEF SeedIds
<1>2. \A i \in 1..21 : SeedNames[i] \in SeedIds
  BY SeedRowsAre, SeedNamesAre DEF SeedIds
<1>3. {"address", "skill", "user-candidate", "user-company", "user-administrator",
       "candidate", "resume", "certification", "company", "job"} \subseteq SeedIds
  BY <1>2 DEF SeedNames
<1>4. SeedUsers = {"user-candidate", "user-company", "user-administrator"}
  BY DEF SeedUsers, TestUsers
<1>5. SeedNames[k] \in {"address", "skill", "user-candidate", "user-company", "user-administrator",
      "candidate", "resume", "resume-skill", "experience", "education", "certification",
      "language", "attached", "company", "administrator", "job", "job-skill", "application",
      "training", "event", "notification"}
  BY DEF SeedNames
<1> QED
  BY <1>1, <1>3, <1>4, <1>5, SeedTable DEF IsRow

IsPresent(state) == state \in {"there", "edited"}
Closed(rows) ==
    \A id \in SeedIds : IsPresent(rows[id]) => \A ref \in ReferredBy(id) : IsPresent(rows[ref])
\* People touch neither of these two.
Untouched == {"training", "notification"}

SeedInv ==
    /\ SeedTypeOK
    /\ Closed(row) /\ Closed(seed.before)
    /\ \A id \in Untouched : row[id] \in {"absent", "there"} /\ seed.before[id] \in {"absent", "there"}
    /\ seed.next = 0 => (IsPresent(row["training"]) <=> IsPresent(row["notification"]))
    /\ seed.next # 0 =>
          /\ linking = <<>>
          /\ IsPresent(seed.before["training"]) <=> IsPresent(seed.before["notification"])
          /\ \A id \in SeedIds : seed.before[id] # "absent" => row[id] = seed.before[id]
          /\ \A i \in 1..(seed.next - 1) : row[SeedNames[i]] # "absent"
          /\ \A u \in subject : IsPresent(seed.before[u])
    /\ linking # <<>> =>
          \A u \in SeedUsers : u \in identity \/ \E i \in DOMAIN linking : linking[i] = u
    /\ subject \subseteq identity /\ \A u \in subject : IsPresent(row[u])

LEMMA SeedInvGives ==
    ASSUME SeedInv
    PROVE  SeedTypeOK /\ SeedIsWhole
<1>1. \A id \in SeedIds : \E table \in HeadTables :
          table.name = TableOf(id) /\ Targets(table) = {TableOf(ref) : ref \in ReferredBy(id)}
  BY SeedFits DEF Fits
<1>2. seed.next = Len(SeedRows) + 1 => \A id \in SeedIds : row[id] # "absent"
  BY SeedRowsAre, SeedNamesAre, SMTT(30) DEF SeedInv, SeedIds
<1> QED
  BY <1>1, <1>2 DEF SeedInv, SeedIsWhole, Closed, Present, IsPresent

LEMMA SeedInvInit ==
    ASSUME SeedInit
    PROVE  SeedInv
<1>1. SeedTypeOK
  <2>1. <<>> \in Seq(SeedUsers)
    OBVIOUS
  <2>2. 0 \in 0..(Len(SeedRows) + 1)
    BY SeedRowsAre
  <2>3. row \in [SeedIds -> RowStates]
    BY DEF SeedInit, RowStates
  <2> QED
    BY <2>1, <2>2, <2>3 DEF SeedInit, SeedTypeOK
<1>2. Untouched \subseteq SeedIds
  <2>1. SeedNames[19] = "training" /\ SeedNames[21] = "notification"
    BY DEF SeedNames
  <2> QED
    BY <2>1, SeedRowsAre, SeedNamesAre DEF SeedIds, Untouched
<1>3. \A id \in SeedIds : row[id] = "absent" /\ seed.before[id] = "absent"
  BY DEF SeedInit
<1>4. seed.next = 0 /\ linking = <<>> /\ subject = {}
  BY DEF SeedInit
<1> QED
  BY <1>1, <1>2, <1>3, <1>4 DEF SeedInv, Closed, IsPresent, Untouched


LEMMA SeedConstants ==
    /\ Untouched \subseteq SeedIds /\ SeedUsers \subseteq SeedIds /\ Len(SeedRows) = 21
    /\ Removable \subseteq SeedIds /\ Replaceable \subseteq SeedIds
    /\ Claimable \subseteq SeedIds /\ Editable \subseteq SeedIds
    /\ \A id \in Removable \cup Replaceable \cup Claimable \cup Editable : id \notin Untouched
    /\ \A id \in Replaceable : \A r \in SeedIds : id \notin ReferredBy(r)
    /\ \A i \in 1..21 : SeedNames[i] \in SeedIds /\ SeedRows[i].id = SeedNames[i]
<1>1. \A i \in 1..21 : SeedNames[i] \in SeedIds /\ SeedRows[i].id = SeedNames[i]
  BY SeedRowsAre, SeedNamesAre DEF SeedIds
<1>2. /\ SeedNames[2] = "skill" /\ SeedNames[3] = "user-candidate" /\ SeedNames[4] = "user-company"
      /\ SeedNames[5] = "user-administrator" /\ SeedNames[7] = "resume"
      /\ SeedNames[8] = "resume-skill" /\ SeedNames[9] = "experience"
      /\ SeedNames[10] = "education" /\ SeedNames[11] = "certification"
      /\ SeedNames[13] = "attached" /\ SeedNames[17] = "job-skill"
      /\ SeedNames[19] = "training" /\ SeedNames[21] = "notification"
  BY DEF SeedNames
<1>3. {"skill", "user-candidate", "user-company", "user-administrator", "resume", "resume-skill",
       "experience", "education", "certification", "attached", "job-skill", "training",
       "notification"} \subseteq SeedIds
  BY <1>1, <1>2
<1>4. SeedUsers = {"user-candidate", "user-company", "user-administrator"}
  BY DEF SeedUsers, TestUsers
<1>5. \A id \in Replaceable : \A r \in SeedIds : id \notin ReferredBy(r)
  BY SeedReferences DEF Replaceable
<1>6. Untouched \subseteq SeedIds /\ SeedUsers \subseteq SeedIds
  BY <1>3, <1>4 DEF Untouched
<1>7. /\ Removable \subseteq SeedIds /\ Replaceable \subseteq SeedIds
      /\ Claimable \subseteq SeedIds /\ Editable \subseteq SeedIds
  BY <1>3, <1>4 DEF Removable, Replaceable, Claimable, Editable
<1>8. \A id \in Removable \cup Replaceable \cup Claimable \cup Editable : id \notin Untouched
  BY <1>4 DEF Removable, Replaceable, Claimable, Editable, Untouched
<1> QED
  BY <1>1, <1>5, <1>6, <1>7, <1>8, SeedRowsAre

\* A row that is added after what it refers to, and the rows there were.
LEMMA AddedRowStaysClosed ==
    ASSUME NEW rows \in [SeedIds -> RowStates], Closed(rows), NEW id \in SeedIds,
           rows[id] = "absent", \A ref \in ReferredBy(id) : IsPresent(rows[ref])
    PROVE  Closed([rows EXCEPT ![id] = "there"])
<1> DEFINE now == [rows EXCEPT ![id] = "there"]
<1>1. \A r \in SeedIds : IsPresent(rows[r]) => IsPresent(now[r])
  BY DEF IsPresent
<1>2. \A r \in SeedIds : IsPresent(now[r]) => IsPresent(rows[r]) \/ r = id
  OBVIOUS
<1>3. \A r \in SeedIds : ReferredBy(r) \subseteq SeedIds
  BY SeedReferences
<1>4. Closed(now)
  <2> HIDE DEF now
  <2> QED
    BY <1>1, <1>2, <1>3 DEF Closed
<1> QED
  BY <1>4

\* A step of the people's, which happens between two seeds and two linkings.
LEMMA UseKeeps ==
    ASSUME SeedInv, NEW rows \in [SeedIds -> RowStates], Use(rows), Closed(rows),
           \A id \in Untouched : rows[id] = row[id],
           \A u \in SeedUsers : IsPresent(row[u]) => IsPresent(rows[u])
    PROVE  SeedInv'
<1>1. /\ seed.next = 0 /\ linking = <<>> /\ row' = rows
      /\ seed' = seed /\ subject' = subject /\ identity' = identity /\ linking' = linking
  BY DEF Use
<1>2. SeedTypeOK'
  BY <1>1 DEF SeedInv, SeedTypeOK
<1>3. subject \subseteq SeedUsers
  BY DEF SeedInv, SeedTypeOK
<1>4. rows["training"] = row["training"] /\ rows["notification"] = row["notification"]
  BY DEF Untouched
<1>5. (subject \subseteq identity /\ \A u \in subject : IsPresent(row[u]))'
  BY <1>1, <1>3 DEF SeedInv
<1>6. Closed(row)' /\ Closed(seed.before)'
  BY <1>1 DEF SeedInv, Closed
<1>7. (\A id \in Untouched : row[id] \in {"absent", "there"} /\ seed.before[id] \in {"absent", "there"})'
  BY <1>1 DEF SeedInv
<1> QED
  BY <1>1, <1>2, <1>4, <1>5, <1>6, <1>7 DEF SeedInv

LEMMA UndoKeeps ==
    ASSUME SeedInv, seed.next # 0, UndoSeed
    PROVE  SeedInv'
<1>1. /\ row' = seed.before /\ seed'.next = 0 /\ seed'.before = seed.before
      /\ subject' = subject /\ identity' = identity /\ linking' = linking
  BY DEF UndoSeed
<1>2. SeedTypeOK'
  <2>1. 0 \in 0..(Len(SeedRows) + 1)
    BY SeedConstants
  <2> QED
    BY <1>1, <2>1 DEF SeedInv, SeedTypeOK
<1>3. Closed(row)' /\ Closed(seed.before)'
  BY <1>1 DEF SeedInv, Closed
<1>4. linking = <<>>
  BY DEF SeedInv
<1>5. (subject \subseteq identity /\ \A u \in subject : IsPresent(row[u]))'
  BY <1>1 DEF SeedInv
<1> QED
  BY <1>1, <1>2, <1>3, <1>4, <1>5 DEF SeedInv

LEMMA AddKeeps ==
    ASSUME SeedInv, AddIfMissing
    PROVE  SeedInv'
<1> DEFINE k == seed.next
           id == SeedRows[k].id
<1>1. k \in 1..21 /\ id = SeedNames[k] /\ id \in SeedIds
  BY SeedRowsAre, SeedConstants DEF AddIfMissing
<1>2. /\ seed'.next = k + 1 /\ seed'.before = seed.before
      /\ subject' = subject /\ identity' = identity /\ linking' = linking
  BY DEF AddIfMissing, SeedInv, SeedTypeOK
<1>3. \/ row' = row /\ row[id] # "absent"
      \/ /\ row[id] = "absent" /\ row' = [row EXCEPT ![id] = "there"]
         /\ \A ref \in ReferredBy(id) : IsPresent(row[ref])
  BY DEF AddIfMissing, Present, IsPresent
<1>4. row \in [SeedIds -> RowStates]
  BY DEF SeedInv, SeedTypeOK
<1> HIDE DEF id, k
<1>5. row' \in [SeedIds -> RowStates]
  BY <1>1, <1>3, <1>4 DEF RowStates
<1>6. /\ row'[id] # "absent"
      /\ \A r \in SeedIds : row[r] # "absent" => row'[r] = row[r]
      /\ \A r \in SeedIds : row'[r] = row[r] \/ row'[r] = "there"
  BY <1>1, <1>3, <1>4
<1>7. SeedTypeOK'
  <2>1. k + 1 \in 0..(Len(SeedRows) + 1)
    BY <1>1, SeedConstants
  <2> QED
    BY <1>2, <1>5, <2>1 DEF SeedInv, SeedTypeOK
<1>8. Closed(row)' /\ Closed(seed.before)'
  <2>1. Closed(row')
    BY <1>1, <1>3, <1>4, AddedRowStaysClosed DEF SeedInv
  <2> QED
    BY <1>2, <2>1 DEF SeedInv, Closed
<1>9. (\A r \in Untouched : row[r] \in {"absent", "there"} /\ seed.before[r] \in {"absent", "there"})'
  BY <1>2, <1>6, SeedConstants DEF SeedInv
<1>10. k # 0 /\ k + 1 # 0 /\ (k + 1) - 1 = k
  BY <1>1
<1>11. \A i \in 1..k : row'[SeedNames[i]] # "absent"
  <2>1. \A i \in 1..(k - 1) : row[SeedNames[i]] # "absent"
    BY <1>10 DEF SeedInv, k
  <2>2. \A i \in 1..k : i = k \/ i \in 1..(k - 1)
    BY <1>1
  <2>3. \A i \in 1..k : SeedNames[i] \in SeedIds
    BY <1>1, SeedConstants
  <2> QED
    BY <1>1, <1>6, <2>1, <2>2, <2>3
<1>12. \A u \in subject : IsPresent(row[u]) => IsPresent(row'[u])
  <2>1. subject \subseteq SeedIds
    BY SeedConstants DEF SeedInv, SeedTypeOK
  <2> QED
    BY <1>6, <2>1 DEF IsPresent
<1>13. \A r \in SeedIds : seed.before[r] # "absent" => row'[r] = seed.before[r]
  <2>1. \A r \in SeedIds : seed.before[r] # "absent" => row[r] = seed.before[r]
    BY <1>10 DEF SeedInv, k
  <2> QED
    BY <1>6, <2>1
<1>14. linking = <<>> /\ (IsPresent(seed.before["training"]) <=> IsPresent(seed.before["notification"]))
       /\ \A u \in subject : IsPresent(seed.before[u])
  BY <1>10 DEF SeedInv, k
<1>15. (subject \subseteq identity /\ \A u \in subject : IsPresent(row[u]))'
  BY <1>2, <1>12 DEF SeedInv
<1>16. (seed.next # 0 =>
          /\ linking = <<>>
          /\ IsPresent(seed.before["training"]) <=> IsPresent(seed.before["notification"])
          /\ \A r \in SeedIds : seed.before[r] # "absent" => row[r] = seed.before[r]
          /\ \A i \in 1..(seed.next - 1) : row[SeedNames[i]] # "absent"
          /\ \A u \in subject : IsPresent(seed.before[u]))'
  BY <1>2, <1>10, <1>11, <1>13, <1>14
<1> QED
  BY <1>2, <1>7, <1>8, <1>9, <1>10, <1>14, <1>15, <1>16 DEF SeedInv

LEMMA RemoveKeeps ==
    ASSUME SeedInv, Remove
    PROVE  SeedInv'
<1>1. PICK id \in Removable : Use([r \in SeedIds |-> IF r \in Cascades(id) THEN "absent" ELSE row[r]])
  BY DEF Remove
<1> DEFINE rows == [r \in SeedIds |-> IF r \in Cascades(id) THEN "absent" ELSE row[r]]
<1>2. /\ \A r \in SeedIds : rows[r] = IF r \in Cascades(id) THEN "absent" ELSE row[r]
      /\ Use(rows)
  BY <1>1
<1>3. rows \in [SeedIds -> RowStates]
  BY DEF SeedInv, SeedTypeOK, RowStates
<1> HIDE DEF rows
<1>4. \A r \in SeedIds : r \in Cascades(id) <=> r = id \/ id \in ReferredBy(r)
  BY SeedConstants DEF Cascades
<1>5. Closed(rows)
  <2> SUFFICES ASSUME NEW r \in SeedIds, IsPresent(rows[r]), NEW ref \in ReferredBy(r)
               PROVE  IsPresent(rows[ref])
    BY DEF Closed
  <2>1. r \notin Cascades(id) /\ IsPresent(row[r])
    BY <1>2 DEF IsPresent
  <2>2. ref \in SeedIds /\ IsPresent(row[ref])
    BY <2>1, SeedReferences DEF SeedInv, Closed
  <2>3. ref # id
    BY <1>4, <2>1
  <2>4. id \notin ReferredBy(ref)
    <3>1. CASE id = "certification"
      <4>1. "attached" \notin ReferredBy(r)
        BY SeedReferences
      <4> QED
        BY <2>2, <3>1, <4>1, SeedReferences
    <3>2. CASE id # "certification"
      BY <2>2, <3>2, SeedReferences DEF Removable
    <3> QED
      BY <3>1, <3>2
  <2>5. rows[ref] = row[ref]
    BY <1>2, <1>4, <2>2, <2>3, <2>4
  <2> QED
    BY <2>2, <2>5
<1>6. \A r \in Untouched \cup SeedUsers : r \in SeedIds /\ r \notin Cascades(id)
  <2>1. \A r \in Untouched \cup SeedUsers : r \in SeedIds
    BY SeedConstants
  <2>2. \A r \in Untouched \cup SeedUsers : id \notin ReferredBy(r)
    BY <2>1, SeedReferences DEF Untouched, Removable
  <2>3. \A r \in Untouched \cup SeedUsers : r # id
    BY DEF Untouched, SeedUsers, TestUsers, Removable
  <2> QED
    BY <1>4, <2>1, <2>2, <2>3
<1>7. \A r \in Untouched \cup SeedUsers : rows[r] = row[r]
  BY <1>2, <1>6
<1> QED
  BY <1>2, <1>3, <1>5, <1>7, UseKeeps

LEMMA ReplaceKeeps ==
    ASSUME SeedInv, Replace \/ Claim \/ Edit
    PROVE  SeedInv'
<1>0. row \in [SeedIds -> RowStates] /\ Closed(row)
  BY DEF SeedInv, SeedTypeOK
<1>1. PICK id \in Replaceable \cup Claimable \cup Editable, state \in {"replaced", "edited"} :
         /\ Use([row EXCEPT ![id] = state])
         /\ id \in SeedUsers => row[id] = "absent"
         /\ IsPresent(state) => IsPresent(row[id])
         /\ ~ IsPresent(state) => row[id] = "absent" \/ id \in Replaceable
  <2>1. SeedUsers \cap (Replaceable \cup Editable) = {}
    BY DEF SeedUsers, TestUsers, Replaceable, Editable
  <2>2. CASE Replace
    <3>1. PICK id \in Replaceable : Use([row EXCEPT ![id] = "replaced"])
      BY <2>2 DEF Replace
    <3> QED
      BY <2>1, <3>1 DEF IsPresent
  <2>3. CASE Claim
    <3>1. PICK id \in Claimable : row[id] = "absent" /\ Use([row EXCEPT ![id] = "replaced"])
      BY <2>3 DEF Claim
    <3> QED
      BY <3>1 DEF IsPresent
  <2>4. CASE Edit
    <3>1. PICK id \in Editable : Present(id) /\ Use([row EXCEPT ![id] = "edited"])
      BY <2>4 DEF Edit
    <3> QED
      BY <2>1, <3>1 DEF IsPresent, Present
  <2> QED
    BY <2>2, <2>3, <2>4
<1> DEFINE rows == [row EXCEPT ![id] = state]
<1>2. id \in SeedIds /\ id \notin Untouched
  BY SeedConstants
<1>3. rows \in [SeedIds -> RowStates]
  BY <1>0, <1>2 DEF RowStates
<1>4. /\ rows[id] = state
      /\ \A r \in SeedIds : r # id => rows[r] = row[r]
      /\ Use(rows)
  BY <1>0, <1>1, <1>2
<1> HIDE DEF rows
<1>5. Closed(rows)
  <2> SUFFICES ASSUME NEW r \in SeedIds, IsPresent(rows[r]), NEW ref \in ReferredBy(r)
               PROVE  IsPresent(rows[ref])
    BY DEF Closed
  <2>1. IsPresent(row[r])
    BY <1>1, <1>4
  <2>2. ref \in SeedIds /\ IsPresent(row[ref])
    BY <1>0, <2>1, SeedReferences DEF Closed
  <2>3. CASE ref # id
    BY <1>4, <2>2, <2>3
  <2>4. CASE ref = id
    <3>1. row[id] # "absent" /\ id \notin Replaceable
      BY <2>2, <2>4, SeedConstants DEF IsPresent
    <3> QED
      BY <1>1, <1>4, <2>4, <3>1
  <2> QED
    BY <2>3, <2>4
<1>6. \A r \in Untouched : rows[r] = row[r]
  BY <1>2, <1>4, SeedConstants
<1>7. \A u \in SeedUsers : IsPresent(row[u]) => IsPresent(rows[u])
  <2>1. \A u \in SeedUsers : u \in SeedIds /\ (u = id => ~ IsPresent(row[u]))
    BY <1>1, SeedConstants DEF IsPresent
  <2> QED
    BY <1>4, <2>1
<1> QED
  BY <1>3, <1>4, <1>5, <1>6, <1>7, UseKeeps

\* Every account the linking has still to do is ahead in the list, or is done.
LEMMA EnsureKeeps ==
    ASSUME SeedInv, EnsureAccount
    PROVE  SeedInv'
<1>1. /\ linking \in Seq(SeedUsers) /\ linking # <<>> /\ subject \subseteq SeedUsers
      /\ identity \subseteq SeedUsers /\ seed.next = 0
  BY DEF SeedInv, SeedTypeOK, EnsureAccount
<1>2. /\ identity' = identity \cup {Head(linking)} /\ linking' = Tail(linking)
      /\ row' = row /\ seed' = seed
      /\ subject' = IF linking' = <<>> THEN {u \in SeedUsers : Present(u)} ELSE subject
  BY DEF EnsureAccount
<1>3. /\ linking' \in Seq(SeedUsers) /\ Head(linking) \in SeedUsers
      /\ \A u \in SeedUsers : u \in identity' \/ \E i \in DOMAIN linking' : linking'[i] = u
  <2>1. /\ Tail(linking) \in Seq(SeedUsers) /\ Head(linking) \in SeedUsers
        /\ Head(linking) = linking[1] /\ Len(linking) \in Nat /\ Len(linking) # 0
        /\ DOMAIN linking = 1..Len(linking) /\ DOMAIN Tail(linking) = 1..(Len(linking) - 1)
        /\ \A i \in 1..(Len(linking) - 1) : Tail(linking)[i] = linking[i + 1]
    BY <1>1
  <2>2. \A u \in SeedUsers : u \in identity \/ \E i \in DOMAIN linking : linking[i] = u
    BY <1>1 DEF SeedInv
  <2>3. ASSUME NEW u \in SeedUsers, u \notin identity'
        PROVE  \E i \in DOMAIN linking' : linking'[i] = u
    <3>1. PICK i \in 1..Len(linking) : linking[i] = u /\ i # 1
      BY <1>2, <2>1, <2>2, <2>3
    <3>2. i - 1 \in 1..(Len(linking) - 1) /\ (i - 1) + 1 = i
      BY <2>1, <3>1
    <3>3. Tail(linking)[i - 1] = linking[i]
      BY <2>1, <3>2
    <3> QED
      BY <1>2, <2>1, <3>1, <3>2, <3>3
  <2> QED
    BY <1>2, <2>1, <2>3
<1>4. SeedTypeOK'
  BY <1>1, <1>2, <1>3 DEF SeedInv, SeedTypeOK
<1>5. linking' = <<>> => SeedUsers \subseteq identity'
  BY <1>3
<1>6. (subject \subseteq identity /\ \A u \in subject : IsPresent(row[u]))'
  BY <1>2, <1>5 DEF SeedInv, Present, IsPresent
<1>7. Closed(row)' /\ Closed(seed.before)'
  BY <1>2 DEF SeedInv, Closed
<1> QED
  BY <1>1, <1>2, <1>3, <1>4, <1>6, <1>7 DEF SeedInv

LEMMA SeedInvNext ==
    ASSUME SeedInv, [SeedNext]_seedVars
    PROVE  SeedInv'
<1>1. CASE BeginSeed
  <2>1. /\ seed.next = 0 /\ linking = <<>> /\ seed'.next = 1 /\ seed'.before = row
        /\ row' = row /\ subject' = subject /\ identity' = identity /\ linking' = linking
    BY <1>1 DEF BeginSeed
  <2>2. SeedTypeOK'
    BY <2>1, SeedConstants DEF SeedInv, SeedTypeOK
  <2>3. Closed(row)' /\ Closed(seed.before)'
    BY <2>1 DEF SeedInv, Closed
  <2>4. \A i \in 1..(seed'.next - 1) : FALSE
    BY <2>1
  <2> QED
    BY <2>1, <2>2, <2>3, <2>4 DEF SeedInv
<1>2. CASE AddIfMissing
  BY <1>2, AddKeeps
<1>3. CASE FailSeed \/ CrashSeed
  <2>1. seed.next # 0 /\ UndoSeed
    BY <1>3, SeedRowsAre DEF FailSeed, CrashSeed
  <2> QED
    BY <2>1, UndoKeeps
<1>4. CASE CommitSeed
  <2>1. /\ seed.next = 22 /\ seed'.next = 0 /\ seed'.before = row
        /\ row' = row /\ subject' = subject /\ identity' = identity /\ linking' = linking
    BY <1>4, SeedConstants DEF CommitSeed
  <2>2. SeedTypeOK'
    BY <2>1, SeedConstants DEF SeedInv, SeedTypeOK
  <2>3. Closed(row)' /\ Closed(seed.before)'
    BY <2>1 DEF SeedInv, Closed
  <2>4. row["training"] # "absent" /\ row["notification"] # "absent"
    <3>1. SeedNames[19] = "training" /\ SeedNames[21] = "notification"
      BY DEF SeedNames
    <3>2. 19 \in 1..(seed.next - 1) /\ 21 \in 1..(seed.next - 1)
      BY <2>1
    <3> QED
      BY <2>1, <3>1, <3>2 DEF SeedInv
  <2>5. IsPresent(row["training"]) /\ IsPresent(row["notification"])
    BY <2>4 DEF SeedInv, Untouched, IsPresent
  <2>6. linking = <<>>
    BY <2>1 DEF SeedInv
  <2> QED
    BY <2>1, <2>2, <2>3, <2>5, <2>6 DEF SeedInv
<1>5. CASE BeginLinking
  <2>1. /\ seed.next = 0 /\ linking' = TestUsers
        /\ row' = row /\ subject' = subject /\ identity' = identity /\ seed' = seed
    BY <1>5 DEF BeginLinking
  <2>2. TestUsers \in Seq(SeedUsers) /\ \A u \in SeedUsers : \E i \in DOMAIN TestUsers : TestUsers[i] = u
    BY DEF TestUsers, SeedUsers
  <2>3. SeedTypeOK'
    BY <2>1, <2>2 DEF SeedInv, SeedTypeOK
  <2>4. Closed(row)' /\ Closed(seed.before)'
    BY <2>1 DEF SeedInv, Closed
  <2> QED
    BY <2>1, <2>2, <2>3, <2>4 DEF SeedInv
<1>6. CASE EnsureAccount
  BY <1>6, EnsureKeeps
<1>7. CASE FailLinking
  <2>1. PICK made \in SUBSET {Head(linking)} : identity' = identity \cup made
    BY <1>7 DEF FailLinking
  <2>2. /\ linking # <<>> /\ linking' = <<>>
        /\ row' = row /\ subject' = subject /\ seed' = seed
    BY <1>7 DEF FailLinking
  <2>3. seed.next = 0
    BY <2>2 DEF SeedInv
  <2>4. linking \in Seq(SeedUsers) /\ Head(linking) \in SeedUsers
    BY <2>2 DEF SeedInv, SeedTypeOK
  <2>5. SeedTypeOK'
    BY <2>1, <2>2, <2>4 DEF SeedInv, SeedTypeOK
  <2>6. Closed(row)' /\ Closed(seed.before)'
    BY <2>2 DEF SeedInv, Closed
  <2>7. (subject \subseteq identity /\ \A u \in subject : IsPresent(row[u]))'
    BY <2>1, <2>2 DEF SeedInv
  <2> QED
    BY <2>2, <2>3, <2>5, <2>6, <2>7 DEF SeedInv
<1>8. CASE Remove
  BY <1>8, RemoveKeeps
<1>9. CASE Replace \/ Claim \/ Edit
  BY <1>9, ReplaceKeeps
<1>10. CASE SeedsEnded \/ UNCHANGED seedVars
  <2>1. UNCHANGED seedVars
    BY <1>10 DEF SeedsEnded
  <2>2. /\ row' = row /\ subject' = subject /\ seed' = seed /\ identity' = identity
        /\ linking' = linking
    BY <2>1 DEF seedVars
  <2>3. Closed(row)' /\ Closed(seed.before)' /\ SeedTypeOK'
    BY <2>2 DEF SeedInv, Closed, SeedTypeOK
  <2> QED
    BY <2>2, <2>3 DEF SeedInv
<1> QED
  BY <1>1, <1>2, <1>3, <1>4, <1>5, <1>6, <1>7, <1>8, <1>9, <1>10 DEF SeedNext

\* However often the seed runs, fails or is killed half way, and whatever people
\* do with its rows in between, the seed is all or nothing, completes what is
\* missing and leaves alone what was made of its rows; its statements make the
\* references the schema asks for; and an account names an identity only when the
\* provider has one (seed_database and link_seed_accounts).
THEOREM SeedHolds == SeedSpec => [](SeedTypeOK /\ SeedIsWhole)
<1>1. SeedInit => SeedInv
  BY SeedInvInit
<1>2. SeedInv /\ [SeedNext]_seedVars => SeedInv'
  BY SeedInvNext
<1>3. SeedInv => SeedTypeOK /\ SeedIsWhole
  BY SeedInvGives
<1> QED
  BY <1>1, <1>2, <1>3, PTL DEF SeedSpec


InitialNames ==
    {"address", "app_user", "skill", "training", "administrator", "candidate", "company", "event",
     "notification", "job", "resume", "application", "attached_certificate", "certification",
     "education", "experience", "language"}

\* The names of the initial tables, in the order of their creation.
InitialOrder ==
    <<"address", "app_user", "skill", "training", "administrator", "candidate", "company", "event",
      "notification", "job", "resume", "application", "attached_certificate", "certification",
      "education", "experience", "language">>

\* One table is named and refers only to the first ones of that order.
Precedes(x, k) ==
    x.name = InitialOrder[k] /\ \A a \in Targets(x) : \E j \in 1..(k - 1) : a = InitialOrder[j]

LEMMA InitialTablesInOrder == \A k \in 1..17 : Precedes(InitialTables[k], k)
<1> DEFINE Earlier(a, k) == \E j \in 1..(k - 1) : a = InitialOrder[j]
<1>1. ASSUME NEW name, NEW k \in 1..17, name = InitialOrder[k]
      PROVE  Precedes(Table(name, {}), k)
  BY <1>1, TableParts DEF Precedes
<1>2. ASSUME NEW name, NEW a, NEW k \in 1..17, name = InitialOrder[k], Earlier(a, k)
      PROVE  /\ Precedes(Table(name, {Cascade(a)}), k)
             /\ Precedes(Table(name, {SetNull(a)}), k)
  <2>1. ASSUME NEW ref \in {Cascade(a), SetNull(a)}
        PROVE  Precedes(Table(name, {ref}), k)
    <3>1. Targets(Table(name, {ref})) = {r.to : r \in {ref}} /\ Table(name, {ref}).name = name
          /\ ref.to = a
      BY TableParts
    <3> QED
      BY <1>2, <3>1 DEF Precedes
  <2> QED
    BY <2>1
<1>3. ASSUME NEW name, NEW a, NEW b, NEW k \in 1..17, name = InitialOrder[k],
             Earlier(a, k), Earlier(b, k)
      PROVE  /\ Precedes(Table(name, {Cascade(a), Cascade(b)}), k)
             /\ Precedes(Table(name, {SetNull(a), Cascade(b)}), k)
  <2>1. ASSUME NEW ref \in {Cascade(a), SetNull(a)}
        PROVE  Precedes(Table(name, {ref, Cascade(b)}), k)
    <3> DEFINE x == Table(name, {ref, Cascade(b)})
    <3>1. Targets(x) = {r.to : r \in {ref, Cascade(b)}} /\ x.name = name
          /\ ref.to = a /\ Cascade(b).to = b
      BY TableParts
    <3> QED
      BY <1>3, <3>1 DEF Precedes
  <2> QED
    BY <2>1
<1>4. /\ InitialOrder[1] = "address" /\ InitialOrder[2] = "app_user" /\ InitialOrder[3] = "skill"
      /\ InitialOrder[4] = "training" /\ InitialOrder[5] = "administrator"
      /\ InitialOrder[6] = "candidate" /\ InitialOrder[7] = "company" /\ InitialOrder[8] = "event"
      /\ InitialOrder[9] = "notification" /\ InitialOrder[10] = "job"
      /\ InitialOrder[11] = "resume" /\ InitialOrder[12] = "application"
      /\ InitialOrder[13] = "attached_certificate" /\ InitialOrder[14] = "certification"
      /\ InitialOrder[15] = "education" /\ InitialOrder[16] = "experience"
      /\ InitialOrder[17] = "language"
  BY DEF InitialOrder
<1>5. /\ Earlier("app_user", 5) /\ Earlier("app_user", 6) /\ Earlier("app_user", 7)
      /\ Earlier("app_user", 8) /\ Earlier("app_user", 9) /\ Earlier("address", 7)
      /\ Earlier("company", 10) /\ Earlier("candidate", 11)
      /\ Earlier("candidate", 12) /\ Earlier("job", 12)
      /\ Earlier("resume", 13) /\ Earlier("resume", 14) /\ Earlier("resume", 15)
      /\ Earlier("resume", 16) /\ Earlier("resume", 17)
      /\ 5 \in 1..17 /\ 6 \in 1..17 /\ 7 \in 1..17 /\ 8 \in 1..17 /\ 9 \in 1..17
      /\ 10 \in 1..17 /\ 11 \in 1..17 /\ 12 \in 1..17 /\ 13 \in 1..17 /\ 14 \in 1..17
      /\ 15 \in 1..17 /\ 16 \in 1..17 /\ 17 \in 1..17
  BY <1>4
<1> HIDE DEF Precedes, InitialOrder, Table, Cascade, SetNull, Earlier
<1>6. \A k \in 1..4 : Precedes(InitialTables[k], k)
  BY <1>1, <1>4, InitialTablesAre
<1>7. Precedes(Table("administrator", {Cascade("app_user")}), 5)
  BY <1>2, <1>4, <1>5, Zenon
<1>8. Precedes(Table("candidate", {Cascade("app_user")}), 6)
  BY <1>2, <1>4, <1>5, Zenon
<1>9. Precedes(Table("company", {SetNull("address"), Cascade("app_user")}), 7)
  BY <1>3, <1>4, <1>5, Zenon
<1>10. Precedes(Table("event", {SetNull("app_user")}), 8)
  BY <1>2, <1>4, <1>5, Zenon
<1>11. Precedes(Table("notification", {Cascade("app_user")}), 9)
  BY <1>2, <1>4, <1>5, Zenon
<1>12. Precedes(Table("job", {Cascade("company")}), 10)
  BY <1>2, <1>4, <1>5, Zenon
<1>13. Precedes(Table("resume", {Cascade("candidate")}), 11)
  BY <1>2, <1>4, <1>5, Zenon
<1>14. Precedes(Table("application", {Cascade("candidate"), Cascade("job")}), 12)
  BY <1>3, <1>4, <1>5, Zenon
<1>15. Precedes(Table("attached_certificate", {Cascade("resume")}), 13)
  BY <1>2, <1>4, <1>5, Zenon
<1>16. Precedes(Table("certification", {Cascade("resume")}), 14)
  BY <1>2, <1>4, <1>5, Zenon
<1>17. Precedes(Table("education", {Cascade("resume")}), 15)
  BY <1>2, <1>4, <1>5, Zenon
<1>18. Precedes(Table("experience", {Cascade("resume")}), 16)
  BY <1>2, <1>4, <1>5, Zenon
<1>19. Precedes(Table("language", {Cascade("resume")}), 17)
  BY <1>2, <1>4, <1>5, Zenon
<1>20. \A k \in 5..17 : Precedes(InitialTables[k], k)
  BY <1>7, <1>8, <1>9, <1>10, <1>11, <1>12, <1>13, <1>14, <1>15, <1>16, <1>17, <1>18, <1>19, InitialTablesAre
<1> QED
  BY <1>6, <1>20

LEMMA OrderOfNames ==
    /\ \A k \in 1..17 : InitialOrder[k] \in InitialNames
    /\ \A name \in InitialNames : \E k \in 1..17 : name = InitialOrder[k]
    /\ \A i, j \in 1..17 : InitialOrder[i] = InitialOrder[j] => i = j
<1>1. \A k \in 1..17 : InitialOrder[k] \in InitialNames
  BY DEF InitialOrder, InitialNames
<1>2. \A i, j \in 1..17 : InitialOrder[i] = InitialOrder[j] => i = j
  BY DEF InitialOrder
<1>3. \A name \in InitialNames : \E k \in 1..17 : name = InitialOrder[k]
  BY DEF InitialOrder, InitialNames
<1> QED
  BY <1>1, <1>2, <1>3

LEMMA InitialSchemaIsOrdered ==
    CreatedInOrder(InitialTables, {}) /\ DroppedInOrder(InitialDrops, TablesOf("initial"))
<1>1. CreatedInOrder(InitialTables, {})
  <2> SUFFICES ASSUME NEW i \in 1..17, NEW a \in Targets(InitialTables[i])
               PROVE  \E j \in 1..(i - 1) : a = InitialTables[j].name
    BY InitialTablesAre DEF CreatedInOrder
  <2>1. PICK j \in 1..(i - 1) : a = InitialOrder[j]
    BY InitialTablesInOrder DEF Precedes
  <2>2. j \in 1..17
    OBVIOUS
  <2> QED
    BY <2>1, <2>2, InitialTablesInOrder DEF Precedes
<1>2. DOMAIN InitialDrops = 1..17 /\ \A i \in 1..17 : InitialDrops[i] = InitialOrder[18 - i]
  BY DEF InitialDrops, InitialOrder
<1>3. ASSUME NEW i \in 1..17, NEW table \in TablesOf("initial"), InitialDrops[i] \in Targets(table)
      PROVE  \E j \in 1..(i - 1) : InitialDrops[j] = table.name
  <2>1. NewTables("initial") = InitialTables
    BY DEF NewTables
  <2>2. PICK k \in 1..17 : table = InitialTables[k]
    BY <2>1, InitialTablesAre DEF TablesOf
  <2>3. PICK j \in 1..(k - 1) : InitialDrops[i] = InitialOrder[j]
    BY <1>3, <2>2, InitialTablesInOrder DEF Precedes
  <2>4. 18 - i \in 1..17 /\ j \in 1..17
    OBVIOUS
  <2>5. 18 - i = j
    BY <1>2, <2>3, <2>4, OrderOfNames
  <2>6. 18 - k \in 1..(i - 1) /\ 18 - k \in 1..17 /\ 18 - (18 - k) = k
    BY <2>5
  <2> QED
    BY <1>2, <2>2, <2>6, InitialTablesInOrder DEF Precedes
<1> QED
  BY <1>1, <1>2, <1>3 DEF DroppedInOrder


LEMMA NewTablesAre ==
    /\ NewTables("initial") = InitialTables /\ NewTables("links") = JoinTables
    /\ NewTables("guidance") = GuidanceTable /\ NewTables("deliveries") = DeliveryTable
    /\ NewTables("contact") = ContactTable
    /\ \A r : r \notin {"initial", "links", "guidance", "deliveries", "contact"} => NewTables(r) = <<>>
<1> HIDE DEF InitialTables, JoinTables, GuidanceTable, DeliveryTable, ContactTable
<1>1. NewTables("initial") = InitialTables
  BY DEF NewTables
<1>2. NewTables("links") = JoinTables
  BY DEF NewTables
<1>3. NewTables("guidance") = GuidanceTable
  BY DEF NewTables
<1>4. NewTables("deliveries") = DeliveryTable
  BY DEF NewTables
<1>5. NewTables("contact") = ContactTable
  BY DEF NewTables
<1>6. ASSUME NEW r, r \notin {"initial", "links", "guidance", "deliveries", "contact"}
      PROVE  NewTables(r) = <<>>
  BY <1>6 DEF NewTables
<1> QED
  BY <1>1, <1>2, <1>3, <1>4, <1>5, <1>6

LEMMA TablesOfHold ==
    ASSUME NEW r, NEW x
    PROVE  x \in TablesOf(r) <=> Held(NewTables(r), x)
BY DEF TablesOf, Held

\* The revision that creates a table.
Origin(name) ==
    CASE name \in {"resume_skill", "job_skill"} -> "links"
      [] name = "resume_guidance" -> "guidance"
      [] name = "email_delivery" -> "deliveries"
      [] name = "contact_request" -> "contact"
      [] OTHER -> "initial"

\* A table is created by one revision, and refers only to initial ones.
IsOf(r, x) ==
    /\ Origin(x.name) = r /\ Targets(x) \subseteq InitialNames
    /\ x.name = "attached_certificate" => r = "initial" /\ x = RecordTables[1]

LEMMA TableOrigin ==
    ASSUME NEW r, NEW x, Held(NewTables(r), x)
    PROVE  IsOf(r, x)
<1>1. CASE r = "initial"
  <2>1. PICK k \in 1..17 : x = InitialTables[k]
    BY <1>1, NewTablesAre, InitialTablesAre DEF Held
  <2>2. x.name = InitialOrder[k] /\ x.name \in InitialNames
    BY <2>1, InitialTablesInOrder, OrderOfNames DEF Precedes
  <2>3. Targets(x) \subseteq InitialNames
    <3>1. \A a \in Targets(x) : \E j \in 1..(k - 1) : a = InitialOrder[j]
      BY <2>1, InitialTablesInOrder DEF Precedes
    <3>2. \A j \in 1..(k - 1) : j \in 1..17
      OBVIOUS
    <3> QED
      BY <3>1, <3>2, OrderOfNames
  <2>4. Origin(x.name) = "initial"
    BY <2>2 DEF Origin, InitialNames
  <2>5. x.name = "attached_certificate" => x = RecordTables[1]
    <3>1. InitialOrder[13] = "attached_certificate"
      BY DEF InitialOrder
    <3>2. x.name = "attached_certificate" => k = 13
      <4>1. 13 \in 1..17
        OBVIOUS
      <4> QED
        BY <2>2, <3>1, <4>1, OrderOfNames
    <3>3. InitialTables[13] = RecordTables[1]
      <4> HIDE DEF Table, Cascade
      <4> QED
        BY InitialTablesAre DEF RecordTables
    <3> QED
      BY <2>1, <3>2, <3>3
  <2> QED
    BY <1>1, <2>3, <2>4, <2>5 DEF IsOf
<1>2. CASE r = "links"
  <2>1. \/ x = Table("resume_skill", {Cascade("resume"), Cascade("skill")})
        \/ x = Table("job_skill", {Cascade("job"), Cascade("skill")})
    <3>1. Held(JoinTables, x)
      BY <1>2, NewTablesAre
    <3> HIDE DEF Table, Cascade
    <3> QED
      BY <3>1 DEF Held, JoinTables
  <2>2. x.name \in {"resume_skill", "job_skill"} /\ Targets(x) \subseteq {"resume", "job", "skill"}
    BY <2>1 DEF Table, Targets, Cascade
  <2>3. Origin(x.name) = "links"
    BY <2>2 DEF Origin
  <2> QED
    BY <1>2, <2>2, <2>3 DEF IsOf, InitialNames
<1>3. CASE r = "guidance"
  <2>1. x = Table("resume_guidance", {Cascade("candidate"), Restricted("administrator")})
    <3>1. Held(GuidanceTable, x)
      BY <1>3, NewTablesAre
    <3> HIDE DEF Table, Cascade, Restricted
    <3> QED
      BY <3>1 DEF Held, GuidanceTable
  <2>2. x.name = "resume_guidance" /\ Targets(x) \subseteq {"candidate", "administrator"}
    BY <2>1 DEF Table, Targets, Cascade, Restricted
  <2>3. Origin(x.name) = "guidance"
    BY <2>2 DEF Origin
  <2> QED
    BY <1>3, <2>2, <2>3 DEF IsOf, InitialNames
<1>4. CASE r = "deliveries"
  <2>1. x = Table("email_delivery", {Cascade("notification")})
    <3>1. Held(DeliveryTable, x)
      BY <1>4, NewTablesAre
    <3> HIDE DEF Table, Cascade
    <3> QED
      BY <3>1 DEF Held, DeliveryTable
  <2>2. x.name = "email_delivery" /\ Targets(x) \subseteq {"notification"}
    BY <2>1 DEF Table, Targets, Cascade
  <2>3. Origin(x.name) = "deliveries"
    BY <2>2 DEF Origin
  <2> QED
    BY <1>4, <2>2, <2>3 DEF IsOf, InitialNames
<1>5. CASE r = "contact"
  <2>1. x = ContactTable[1]
    <3>1. Held(ContactTable, x) /\ DOMAIN ContactTable = 1..1
      BY <1>5, NewTablesAre, PartLengths DEF HasLength
    <3> QED
      BY <3>1 DEF Held
  <2>2. /\ x.name = "contact_request"
        /\ Targets(x) \subseteq {"candidate", "company", "job", "notification", "app_user"}
    <3> DEFINE refs == {Cascade("candidate"), Cascade("company"), Cascade("job"),
                        Cascade("notification"), SetNull("app_user")}
    <3>1. x = Table("contact_request", refs)
      BY <2>1 DEF ContactTable
    <3>2. \A ref \in refs :
             ref.to \in {"candidate", "company", "job", "notification", "app_user"}
      <4>1. \A a : Cascade(a).to = a /\ SetNull(a).to = a
        BY DEF Cascade, SetNull
      <4> HIDE DEF Cascade, SetNull
      <4> QED
        BY <4>1
    <3> HIDE DEF refs
    <3> QED
      BY <3>1, <3>2 DEF Table, Targets
  <2>3. Origin(x.name) = "contact"
    BY <2>2 DEF Origin
  <2> QED
    BY <1>5, <2>2, <2>3 DEF IsOf, InitialNames
<1>6. CASE r \notin {"initial", "links", "guidance", "deliveries", "contact"}
  BY <1>6, NewTablesAre DEF Held
<1> QED
  BY <1>1, <1>2, <1>3, <1>4, <1>5, <1>6

\* The tables that a set of revisions leaves: all they create, but that one of
\* them moves a reference of one table.
HasTable(done, x) ==
    \/ "proofs" \in done /\ x = ProofTable
    \/ /\ \E r \in done : Held(NewTables(r), x)
       /\ "proofs" \in done => x.name # "attached_certificate"
TablesAre(tables, done) == \A x : x \in tables <=> HasTable(done, x)

LEMMA HeadTablesFit == 
    ASSUME NEW tables, TablesAre(tables, Revisions)
    PROVE  tables = HeadTables
<1>1. {"initial", "links", "guidance", "deliveries", "contact", "proofs"} \subseteq Revisions
  BY DEF Revisions, Parents
<1>2. ProofTable.name = "attached_certificate"
  BY DEF ProofTable, Table
<1>3. ASSUME NEW x
      PROVE  x \in HeadTables <=> HasTable(Revisions, x)
  <2>1. (\E r \in Revisions : Held(NewTables(r), x)) <=>
           \/ Held(InitialTables, x) \/ Held(JoinTables, x) \/ Held(GuidanceTable, x)
           \/ Held(DeliveryTable, x) \/ Held(ContactTable, x)
    <3>1. ~ Held(<<>>, x)
      BY DEF Held
    <3> QED
      BY <1>1, <3>1, NewTablesAre
  <2> QED
    BY <1>1, <1>2, <2>1, HeadTablesAre DEF HasTable
<1> QED
  BY <1>3 DEF TablesAre

LEMMA TablesReferToTables ==
    ASSUME NEW done, "initial" \in done, NEW tables, TablesAre(tables, done)
    PROVE  ReferencesExist(tables) /\ tables # {}
<1>1. ASSUME NEW k \in 1..17
      PROVE  InitialOrder[k] \in NamesOf(tables)
  <2>1. Held(NewTables("initial"), InitialTables[k]) /\ InitialTables[k].name = InitialOrder[k]
    BY InitialTablesInOrder, InitialTablesAre, NewTablesAre DEF Held, Precedes
  <2>2. ProofTable.name = "attached_certificate"
    BY DEF ProofTable, Table
  <2>3. \/ HasTable(done, InitialTables[k])
        \/ InitialOrder[k] = ProofTable.name /\ HasTable(done, ProofTable)
    BY <2>1, <2>2 DEF HasTable
  <2> QED
    BY <2>1, <2>3 DEF TablesAre, NamesOf
<1>2. InitialNames \subseteq NamesOf(tables)
  BY <1>1, OrderOfNames
<1>3. ASSUME NEW x \in tables
      PROVE  Targets(x) \subseteq InitialNames
  <2>1. CASE x = ProofTable
    <3>1. Targets(ProofTable) = {"certification"}
      BY DEF ProofTable, Table, Targets, Cascade
    <3> QED
      BY <2>1, <3>1 DEF InitialNames
  <2>2. CASE x # ProofTable
    BY <1>3, <2>2, TableOrigin DEF TablesAre, HasTable, IsOf
  <2> QED
    BY <2>1, <2>2
<1>4. tables # {}
  BY <1>2 DEF NamesOf, InitialNames
<1> QED
  BY <1>2, <1>3, <1>4 DEF ReferencesExist

LEMMA NoTables == TablesAre({}, {})
BY DEF TablesAre, HasTable

\* Applying a revision adds its tables, and undoing it removes them.
LEMMA TablesGrow ==
    ASSUME NEW done, NEW tables, TablesAre(tables, done), NEW r, r \notin done,
           r # "proofs", r = "initial" => "proofs" \notin done
    PROVE  TablesAre(tables \cup TablesOf(r), done \cup {r})
<1> SUFFICES ASSUME NEW x
             PROVE  x \in tables \cup TablesOf(r) <=> HasTable(done \cup {r}, x)
  BY DEF TablesAre
<1>1. x \in TablesOf(r) <=> Held(NewTables(r), x)
  BY TablesOfHold
<1>2. x \in tables <=> HasTable(done, x)
  BY DEF TablesAre
<1>3. Held(NewTables(r), x) /\ "proofs" \in done => x.name # "attached_certificate"
  BY TableOrigin DEF IsOf
<1> QED
  BY <1>1, <1>2, <1>3 DEF HasTable

LEMMA TablesShrink ==
    ASSUME NEW done, NEW tables, TablesAre(tables, done), NEW r \in done, r # "proofs",
           r # "initial"
    PROVE  TablesAre(tables \ TablesOf(r), done \ {r})
<1> SUFFICES ASSUME NEW x
             PROVE  x \in tables \ TablesOf(r) <=> HasTable(done \ {r}, x)
  BY DEF TablesAre
<1>1. x \in TablesOf(r) <=> Held(NewTables(r), x)
  BY TablesOfHold
<1>2. x \in tables <=> HasTable(done, x)
  BY DEF TablesAre
<1>3. \A q : Held(NewTables(r), x) /\ Held(NewTables(q), x) => q = r
  BY TableOrigin DEF IsOf
<1>4. x = ProofTable => ~ Held(NewTables(r), x)
  <2>1. ProofTable.name = "attached_certificate"
    BY DEF ProofTable, Table
  <2> QED
    BY <2>1, TableOrigin DEF IsOf
<1> QED
  BY <1>1, <1>2, <1>3, <1>4 DEF HasTable

\* The revision that moves the reference of one table replaces it.
LEMMA ReferenceMoves ==
    ASSUME NEW done, "initial" \in done, NEW tables, TablesAre(tables, done)
    PROVE  /\ "proofs" \notin done =>
                 TablesAre(({t \in tables : t.name # "attached_certificate"} \cup {ProofTable})
                               \cup TablesOf("proofs"), done \cup {"proofs"})
           /\ "proofs" \in done =>
                 TablesAre(({t \in tables : t.name # "attached_certificate"} \cup {RecordTables[1]})
                               \ TablesOf("proofs"), done \ {"proofs"})
<1>1. TablesOf("proofs") = {} /\ \A x : ~ Held(NewTables("proofs"), x)
  BY NewTablesAre DEF TablesOf, Held
<1>2. ProofTable.name = "attached_certificate"
  BY DEF ProofTable, Table
<1>3. \A x : x \in tables <=> HasTable(done, x)
  BY DEF TablesAre
<1>4. Held(NewTables("initial"), RecordTables[1]) /\ RecordTables[1].name = "attached_certificate"
  <2>1. InitialTables[13] = RecordTables[1]
    <3> HIDE DEF Table, Cascade
    <3> QED
      BY InitialTablesAre DEF RecordTables
  <2>2. RecordTables[1].name = "attached_certificate"
    BY DEF RecordTables, Table
  <2> QED
    BY <2>1, <2>2, InitialTablesAre, NewTablesAre DEF Held
<1>5. \A r, x : Held(NewTables(r), x) /\ x.name = "attached_certificate" => x = RecordTables[1]
  BY TableOrigin DEF IsOf
<1>6. ASSUME "proofs" \notin done, NEW x
      PROVE  x \in ({t \in tables : t.name # "attached_certificate"} \cup {ProofTable})
                       \cup TablesOf("proofs") <=> HasTable(done \cup {"proofs"}, x)
  BY <1>1, <1>2, <1>3, <1>6 DEF HasTable
<1>7. ASSUME "proofs" \in done, NEW x
      PROVE  x \in ({t \in tables : t.name # "attached_certificate"} \cup {RecordTables[1]})
                       \ TablesOf("proofs") <=> HasTable(done \ {"proofs"}, x)
  <2>1. x \in tables /\ x.name # "attached_certificate" <=>
           /\ \E r \in done : Held(NewTables(r), x)
           /\ x.name # "attached_certificate"
    BY <1>2, <1>3, <1>7 DEF HasTable
  <2>2. (\E r \in done \ {"proofs"} : Held(NewTables(r), x)) <=>
           \E r \in done : Held(NewTables(r), x)
    BY <1>1
  <2>3. "initial" \in done \ {"proofs"}
    OBVIOUS
  <2> QED
    BY <1>1, <1>4, <1>5, <2>1, <2>2, <2>3 DEF HasTable
<1> QED
  BY <1>6, <1>7 DEF TablesAre


\* A database that a command of Alembic may meet or leave.
Fields == {"applied", "tables", "catalog", "listed", "linked", "users", "automatic", "attached"}
IsTyped(s) ==
    /\ DOMAIN s = Fields /\ s = [f \in Fields |-> s[f]]
    /\ s.applied \subseteq Revisions
    /\ s.catalog \in [DOMAIN s.catalog -> Entries] /\ DOMAIN s.catalog \subseteq SkillIds
    /\ IsFiniteSet(DOMAIN s.catalog)
    /\ s.listed \in [Owners -> Seq(References)] /\ s.linked \in [Owners -> SUBSET SkillIds]
    /\ s.users \in BOOLEAN /\ s.automatic \in BOOLEAN /\ s.attached \in BOOLEAN

FormsAreKeys(catalog) ==
    /\ \A i \in DOMAIN catalog : catalog[i].form = FormOf[catalog[i].name]
    /\ \A i, j \in DOMAIN catalog : i # j => catalog[i].form # catalog[j].form
BaselineIsThere(catalog) ==
    \A n \in Baseline : \E i \in DOMAIN catalog : catalog[i].form = FormOf[n]
LinksHold(s) == \A o \in Owners : s.linked[o] \subseteq DOMAIN s.catalog
RowsHold(s) ==
    /\ "links" \in s.applied => LinksHold(s)
    /\ "names" \in s.applied => FormsAreKeys(s.catalog)
    /\ "baseline" \in s.applied => BaselineIsThere(s.catalog)

AreRevisions(done) == \A r \in done : r \in Revisions /\ Parents[r] \subseteq done

IsSound(s) ==
    /\ IsTyped(s)
    /\ AreRevisions(s.applied)
    /\ "initial" \in s.applied \/ s = EmptySchema
    /\ TablesAre(s.tables, s.applied)
    /\ RowsHold(s)

\* What is saved for a résumé or a job, where the revision keeps it.
Selection(s, o) == IF "links" \in s.applied THEN s.linked[o] ELSE Listed(s, o)
Keeps(s) == \A o \in Owners : recorded[o] = Selection(s, o)

HistoryInv ==
    /\ IsSound(schema) /\ IsSound(migration.before)
    /\ migration.dir \in {"none", "up", "down"}
    /\ recorded \in [Owners -> SUBSET SkillIds]
    /\ migration.dir # "down" \/ Applied("initial") => Keeps(schema)
    /\ migration.dir # "none" => Keeps(migration.before)

\* The rows of the catalogue decide what is kept of it, and nothing else does.
LEMMA OneFieldChanges ==
    ASSUME NEW s, DOMAIN s = Fields, s = [f \in Fields |-> s[f]], NEW g \in Fields, NEW v
    PROVE  /\ DOMAIN [s EXCEPT ![g] = v] = Fields
           /\ [s EXCEPT ![g] = v] = [f \in Fields |-> [s EXCEPT ![g] = v][f]]
           /\ [s EXCEPT ![g] = v][g] = v
           /\ \A f \in Fields : f # g => [s EXCEPT ![g] = v][f] = s[f]
OBVIOUS

LEMMA EmptySchemaIsSound == IsSound(EmptySchema) /\ \A o \in Owners : Selection(EmptySchema, o) = {}
<1>1. /\ EmptySchema.applied = {} /\ EmptySchema.tables = {} /\ EmptySchema.catalog = <<>>
      /\ EmptySchema.listed = [o \in Owners |-> <<>>] /\ EmptySchema.linked = [o \in Owners |-> {}]
      /\ EmptySchema.users = FALSE /\ EmptySchema.automatic = FALSE /\ EmptySchema.attached = FALSE
  BY DEF EmptySchema
<1>2. DOMAIN EmptySchema = Fields /\ EmptySchema = [f \in Fields |-> EmptySchema[f]]
  BY DEF EmptySchema, Fields
<1>3. DOMAIN <<>> = {} /\ <<>> \in [{} -> Entries] /\ <<>> \in Seq(References)
  OBVIOUS
<1>4. IsTyped(EmptySchema)
  BY <1>1, <1>2, <1>3, FS_EmptySet DEF IsTyped
<1>5. AreRevisions(EmptySchema.applied) /\ RowsHold(EmptySchema)
  BY <1>1 DEF AreRevisions, RowsHold
<1>6. TablesAre(EmptySchema.tables, EmptySchema.applied)
  BY <1>1, NoTables
<1>7. \A o \in Owners : Selection(EmptySchema, o) = {}
  BY <1>1 DEF Selection, Listed
<1> QED
  BY <1>4, <1>5, <1>6, <1>7 DEF IsSound

LEMMA HistoryInvInit == HistoryInit => HistoryInv
<1> SUFFICES ASSUME HistoryInit PROVE HistoryInv
  OBVIOUS
<1>1. /\ schema = EmptySchema /\ migration.dir = "none" /\ migration.before = EmptySchema
      /\ recorded = [o \in Owners |-> {}]
  BY DEF HistoryInit
<1> QED
  BY <1>1, EmptySchemaIsSound DEF HistoryInv, Keeps

LEMMA HistoryInvGives ==
    ASSUME HistoryInv
    PROVE  HistoryTypeOK /\ SelectionsSurvive /\ CatalogStaysWhole /\ TablesFit
<1>1. IsTyped(schema) /\ RowsHold(schema) /\ AreRevisions(schema.applied)
  BY DEF HistoryInv, IsSound
<1>2. HistoryTypeOK
  BY <1>1 DEF HistoryInv, HistoryTypeOK, IsTyped
<1>3. SelectionsSurvive
  BY DEF HistoryInv, Keeps, Selection, SelectionsSurvive, Applied
<1>4. CatalogStaysWhole
  <2>1. CASE Applied("names")
    <3>1. FormsAreKeys(schema.catalog)
      BY <1>1, <2>1 DEF RowsHold, Applied
    <3>2. \A i, j \in DOMAIN schema.catalog :
             i # j => schema.catalog[i].name # schema.catalog[j].name
      BY <3>1 DEF FormsAreKeys
    <3>3. ~ DowngradeRefuses(schema, "names")
      BY <3>2 DEF DowngradeRefuses
    <3> QED
      BY <1>1, <3>1, <3>3
         DEF CatalogStaysWhole, FormsAreKeys, RowsHold, Applied, LinksHold, SkillsInUse,
             BaselineIsThere, MissingBaseline
  <2>2. CASE ~ Applied("names")
    BY <1>1, <2>2
       DEF CatalogStaysWhole, RowsHold, Applied, LinksHold, SkillsInUse,
           BaselineIsThere, MissingBaseline
  <2> QED
    BY <2>1, <2>2
<1>5. TablesFit
  <2>1. TablesAre(schema.tables, schema.applied)
    BY DEF HistoryInv, IsSound
  <2>2. Applied("initial") => ReferencesExist(schema.tables) /\ schema.tables # {}
    BY <2>1, TablesReferToTables DEF Applied
  <2>3. ~ Applied("initial") => ReferencesExist(schema.tables) /\ schema.tables = {}
    <3>1. ~ Applied("initial") => schema = EmptySchema
      BY DEF HistoryInv, IsSound, Applied
    <3>2. EmptySchema.tables = {}
      BY DEF EmptySchema
    <3> QED
      BY <3>1, <3>2 DEF ReferencesExist
  <2> QED
    BY <2>1, <2>2, <2>3, HeadTablesFit, InitialSchemaIsOrdered DEF TablesFit, InitialSchemaFits
<1> QED
  BY <1>2, <1>3, <1>4, <1>5

-----------------------------------------------------------------------------
\* What the program writes between two commands.

LEMMA WriteKeeps ==
    ASSUME HistoryInv, NEW s, Write(s), IsTyped(s), RowsHold(s),
           s.applied = schema.applied, s.tables = schema.tables,
           recorded' \in [Owners -> SUBSET SkillIds],
           \A o \in Owners : recorded'[o] = Selection(s, o)
    PROVE  HistoryInv'
<1>1. /\ migration.dir = "none" /\ "initial" \in schema.applied
      /\ schema' = s /\ migration' = migration
  BY DEF Write, Applied
<1>2. IsSound(s)
  BY <1>1 DEF HistoryInv, IsSound
<1>3. Keeps(schema)'
  BY <1>1 DEF Keeps
<1> QED
  BY <1>1, <1>2, <1>3 DEF HistoryInv

Grown(catalog, id, entry) ==
    [i \in DOMAIN catalog \cup {id} |-> IF i = id THEN entry ELSE catalog[i]]

IsGrown(now, catalog, entry) ==
    /\ now \in [DOMAIN now -> Entries] /\ DOMAIN now \subseteq SkillIds
    /\ IsFiniteSet(DOMAIN now) /\ DOMAIN catalog \subseteq DOMAIN now
    /\ BaselineIsThere(catalog) => BaselineIsThere(now)
    /\ FormsAreKeys(catalog) /\ entry.form = FormOf[entry.name]
           /\ (\A i \in DOMAIN catalog : FormOf[catalog[i].name] # FormOf[entry.name])
       => FormsAreKeys(now)

LEMMA CatalogGrows ==
    ASSUME NEW catalog, catalog \in [DOMAIN catalog -> Entries], DOMAIN catalog \subseteq SkillIds,
           IsFiniteSet(DOMAIN catalog), NEW id \in SkillIds, id \notin DOMAIN catalog,
           NEW entry \in Entries
    PROVE  IsGrown(Grown(catalog, id, entry), catalog, entry)
<1> DEFINE now == Grown(catalog, id, entry)
<1>1. /\ DOMAIN now = DOMAIN catalog \cup {id} /\ now[id] = entry
      /\ \A i \in DOMAIN catalog : now[i] = catalog[i]
      /\ now \in [DOMAIN now -> Entries]
  BY DEF Grown
<1>2. IsFiniteSet(DOMAIN catalog \cup {id})
  BY FS_AddElement
<1> HIDE DEF now
<1>3. BaselineIsThere(catalog) => BaselineIsThere(now)
  BY <1>1 DEF BaselineIsThere
<1>4. ASSUME FormsAreKeys(catalog), entry.form = FormOf[entry.name],
             \A i \in DOMAIN catalog : FormOf[catalog[i].name] # FormOf[entry.name]
      PROVE  FormsAreKeys(now)
  <2>1. \A i \in DOMAIN now : now[i].form = FormOf[now[i].name]
    BY <1>1, <1>4 DEF FormsAreKeys
  <2>2. \A i \in DOMAIN catalog : catalog[i].form = FormOf[catalog[i].name]
    BY <1>4 DEF FormsAreKeys
  <2>3. \A i \in DOMAIN catalog : catalog[i].form # entry.form
    BY <1>4, <2>2
  <2>4. \A i, j \in DOMAIN catalog : i # j => catalog[i].form # catalog[j].form
    BY <1>4 DEF FormsAreKeys
  <2>5. \A i, j \in DOMAIN now : i # j => now[i].form # now[j].form
    BY <1>1, <2>3, <2>4
  <2> QED
    BY <2>1, <2>5 DEF FormsAreKeys
<1> QED
  BY <1>1, <1>2, <1>3, <1>4 DEF now, IsGrown


\* The skills an array names.
Named(refs) == {refs[i].skill : i \in DOMAIN refs}

LEMMA SaveSkillKeeps ==
    ASSUME HistoryInv, SaveSkill
    PROVE  HistoryInv'
<1>1. IsTyped(schema) /\ RowsHold(schema) /\ schema.catalog \in [DOMAIN schema.catalog -> Entries]
      /\ DOMAIN schema.catalog \subseteq SkillIds /\ IsFiniteSet(DOMAIN schema.catalog)
  BY DEF HistoryInv, IsSound, IsTyped
<1> DEFINE Entry(n, k) == [name |-> n, kind |-> k,
                           form |-> IF Applied("names") THEN FormOf[n] ELSE ""]
<1>2. PICK id \in SkillIds \ SkillsInUse, n \in Spellings, k \in Kinds :
         /\ \A i \in SkillsInUse : ~ SameSkill(schema.catalog[i], Entry(n, k))
         /\ Write(WithSkill(schema, id, Entry(n, k)))
         /\ UNCHANGED recorded
  BY DEF SaveSkill
<1> DEFINE entry == Entry(n, k)
           now == Grown(schema.catalog, id, entry)
           s == [schema EXCEPT !.catalog = now]
<1>3. /\ entry \in Entries /\ entry.name = n
      /\ Applied("names") => entry.form = FormOf[entry.name]
  <2>1. (IF Applied("names") THEN FormOf[n] ELSE "") \in Forms
    BY DEF Forms
  <2> QED
    BY <2>1 DEF Entries
<1>4. WithSkill(schema, id, entry) = s
  BY DEF WithSkill, Grown
<1>5. id \in SkillIds /\ id \notin DOMAIN schema.catalog
  BY DEF SkillsInUse
<1>6. Applied("names") => \A i \in DOMAIN schema.catalog : FormOf[schema.catalog[i].name] # FormOf[entry.name]
  BY <1>2 DEF SameSkill, SkillsInUse
<1> HIDE DEF entry
<1>7. /\ now \in [DOMAIN now -> Entries] /\ DOMAIN now \subseteq SkillIds
      /\ IsFiniteSet(DOMAIN now) /\ DOMAIN schema.catalog \subseteq DOMAIN now
      /\ BaselineIsThere(schema.catalog) => BaselineIsThere(now)
      /\ Applied("names") /\ FormsAreKeys(schema.catalog) => FormsAreKeys(now)
  <2>1. IsGrown(now, schema.catalog, entry)
    BY <1>1, <1>3, <1>5, CatalogGrows
  <2> HIDE DEF now
  <2> QED
    BY <1>3, <1>6, <2>1 DEF IsGrown
<1> HIDE DEF now
<1>8. /\ DOMAIN s = Fields /\ s = [f \in Fields |-> s[f]] /\ s.catalog = now
      /\ \A f \in Fields : f # "catalog" => s[f] = schema[f]
  BY <1>1, OneFieldChanges DEF IsTyped, Fields
<1>9. /\ s.applied = schema.applied /\ s.tables = schema.tables /\ s.listed = schema.listed
      /\ s.linked = schema.linked /\ s.users = schema.users /\ s.automatic = schema.automatic
      /\ s.attached = schema.attached
  BY <1>8 DEF Fields
<1> HIDE DEF s
<1>10. IsTyped(s)
  BY <1>1, <1>7, <1>8, <1>9 DEF IsTyped
<1>11. RowsHold(s)
  BY <1>1, <1>7, <1>8, <1>9 DEF RowsHold, LinksHold, Applied
<1>12. \A o \in Owners : recorded[o] = Selection(s, o)
  <2>1. migration.dir = "none"
    BY <1>2 DEF Write
  <2>2. \A o \in Owners : recorded[o] = Selection(schema, o)
    BY <2>1 DEF HistoryInv, Keeps
  <2> QED
    BY <1>9, <2>2 DEF Selection, Listed
<1>13. Write(s) /\ recorded' = recorded /\ recorded \in [Owners -> SUBSET SkillIds]
  BY <1>2, <1>4 DEF HistoryInv, entry
<1> QED
  BY <1>9, <1>10, <1>11, <1>12, <1>13, WriteKeeps

LEMMA SaveSelectionKeeps ==
    ASSUME HistoryInv, SaveSelection
    PROVE  HistoryInv'
<1>1. IsTyped(schema) /\ RowsHold(schema)
  BY DEF HistoryInv, IsSound
<1>2. recorded \in [Owners -> SUBSET SkillIds]
  BY DEF HistoryInv
<1>3. PICK o \in Owners :
        IF Applied("links")
        THEN \E kept \in SUBSET SkillsInUse :
                /\ Write([schema EXCEPT !.linked[o] = kept])
                /\ recorded' = [recorded EXCEPT ![o] = kept]
        ELSE \E refs \in UNION {[1..n -> References] : n \in 0..2} :
                /\ Write([schema EXCEPT !.listed[o] = refs])
                /\ recorded' = [recorded EXCEPT ![o] = Named(refs)]
  BY DEF SaveSelection, Named
<1>4. CASE Applied("links")
  <2>1. PICK kept \in SUBSET SkillsInUse :
           /\ Write([schema EXCEPT !.linked[o] = kept])
           /\ recorded' = [recorded EXCEPT ![o] = kept]
    BY <1>3, <1>4
  <2> DEFINE now == [schema.linked EXCEPT ![o] = kept]
             s == [schema EXCEPT !.linked = now]
  <2>2. Write(s)
    BY <2>1
  <2>3. kept \subseteq DOMAIN schema.catalog /\ kept \in SUBSET SkillIds
    BY <1>1 DEF SkillsInUse, IsTyped
  <2>4. /\ now \in [Owners -> SUBSET SkillIds] /\ now[o] = kept
        /\ \A q \in Owners : q # o => now[q] = schema.linked[q]
    BY <1>1, <2>3 DEF IsTyped
  <2> HIDE DEF now
  <2>5. /\ DOMAIN s = Fields /\ s = [f \in Fields |-> s[f]] /\ s.linked = now
        /\ \A f \in Fields : f # "linked" => s[f] = schema[f]
    BY <1>1, OneFieldChanges DEF IsTyped, Fields
  <2>6. /\ s.applied = schema.applied /\ s.tables = schema.tables /\ s.listed = schema.listed
        /\ s.catalog = schema.catalog /\ s.users = schema.users /\ s.automatic = schema.automatic
        /\ s.attached = schema.attached
    BY <2>5 DEF Fields
  <2> HIDE DEF s
  <2>7. IsTyped(s)
    BY <1>1, <2>4, <2>5, <2>6 DEF IsTyped
  <2>8. RowsHold(s)
    BY <1>1, <1>4, <2>3, <2>4, <2>5, <2>6 DEF RowsHold, LinksHold, Applied
  <2>9. \A q \in Owners : recorded[q] = Selection(schema, q)
    BY <2>2 DEF HistoryInv, Keeps, Write
  <2>10. recorded' \in [Owners -> SUBSET SkillIds] /\ \A q \in Owners : recorded'[q] = Selection(s, q)
    BY <1>2, <1>4, <2>1, <2>3, <2>4, <2>5, <2>6, <2>9 DEF Selection, Applied
  <2> QED
    BY <2>2, <2>6, <2>7, <2>8, <2>10, WriteKeeps
<1>5. CASE ~ Applied("links")
  <2>1. PICK refs \in UNION {[1..n -> References] : n \in 0..2} :
           /\ Write([schema EXCEPT !.listed[o] = refs])
           /\ recorded' = [recorded EXCEPT ![o] = Named(refs)]
    BY <1>3, <1>5
  <2>2. PICK n \in 0..2 : refs \in [1..n -> References]
    OBVIOUS
  <2> DEFINE now == [schema.listed EXCEPT ![o] = refs]
             s == [schema EXCEPT !.listed = now]
  <2>3. Write(s) /\ recorded' = [recorded EXCEPT ![o] = Named(refs)]
    BY <2>1
  <2>4. refs \in Seq(References) /\ Named(refs) \in SUBSET SkillIds
    <3>1. \A i \in DOMAIN refs : refs[i] \in References
      BY <2>2
    <3>2. \A x \in References : x.skill \in SkillIds
      BY DEF References
    <3>3. refs \in Seq(References)
      BY <2>2
    <3> QED
      BY <3>1, <3>2, <3>3 DEF Named
  <2>5. /\ now \in [Owners -> Seq(References)] /\ now[o] = refs
        /\ \A q \in Owners : q # o => now[q] = schema.listed[q]
    BY <1>1, <2>4 DEF IsTyped
  <2> HIDE DEF now
  <2>6. /\ DOMAIN s = Fields /\ s = [f \in Fields |-> s[f]] /\ s.listed = now
        /\ \A f \in Fields : f # "listed" => s[f] = schema[f]
    BY <1>1, OneFieldChanges DEF IsTyped, Fields
  <2>7. /\ s.applied = schema.applied /\ s.tables = schema.tables /\ s.linked = schema.linked
        /\ s.catalog = schema.catalog /\ s.users = schema.users /\ s.automatic = schema.automatic
        /\ s.attached = schema.attached
    BY <2>6 DEF Fields
  <2> HIDE DEF s
  <2>8. IsTyped(s)
    BY <1>1, <2>5, <2>6, <2>7 DEF IsTyped
  <2>9. RowsHold(s)
    BY <1>1, <1>5, <2>7 DEF RowsHold, Applied
  <2>10. Listed(s, o) = Named(refs) /\ \A q \in Owners : q # o => Listed(s, q) = Listed(schema, q)
    <3>1. \A t, q : Listed(t, q) = Named(t.listed[q])
      BY DEF Listed, Named
    <3> QED
      BY <2>5, <2>6, <3>1
  <2>11. \A q \in Owners : recorded[q] = Listed(schema, q)
    BY <1>5, <2>3 DEF HistoryInv, Keeps, Write, Selection, Applied
  <2>12. recorded' \in [Owners -> SUBSET SkillIds]
    BY <1>2, <2>3, <2>4
  <2>13. \A q \in Owners : recorded'[q] = Selection(s, q)
    <3>1. \A q \in Owners : Selection(s, q) = Listed(s, q)
      BY <1>5, <2>7 DEF Selection, Applied
    <3>2. \A q \in Owners : recorded'[q] = IF q = o THEN Named(refs) ELSE recorded[q]
      BY <1>2, <2>3
    <3> QED
      BY <2>10, <2>11, <3>1, <3>2
  <2> QED
    BY <2>3, <2>7, <2>8, <2>9, <2>12, <2>13, WriteKeeps
<1> QED
  BY <1>4, <1>5

LEMMA SaveAccountKeeps ==
    ASSUME HistoryInv, SaveAccount
    PROVE  HistoryInv'
<1>1. IsTyped(schema) /\ RowsHold(schema)
  BY DEF HistoryInv, IsSound
<1>2. PICK g \in {"users", "automatic", "attached"}, b \in BOOLEAN :
         Write([schema EXCEPT ![g] = b]) /\ recorded' = recorded
  BY DEF SaveAccount
<1> DEFINE s == [schema EXCEPT ![g] = b]
<1>3. /\ DOMAIN s = Fields /\ s = [f \in Fields |-> s[f]] /\ s[g] = b
      /\ \A f \in Fields : f # g => s[f] = schema[f]
  BY <1>1, OneFieldChanges DEF IsTyped, Fields
<1>4. Write(s)
  BY <1>2
<1> HIDE DEF s
<1>5. /\ s.applied = schema.applied /\ s.tables = schema.tables /\ s.linked = schema.linked
      /\ s.catalog = schema.catalog /\ s.listed = schema.listed
      /\ s.users \in {schema.users, b} /\ s.automatic \in {schema.automatic, b}
      /\ s.attached \in {schema.attached, b}
  BY <1>3 DEF Fields
<1>6. IsTyped(s)
  BY <1>1, <1>3, <1>5 DEF IsTyped
<1>7. RowsHold(s)
  BY <1>1, <1>5 DEF RowsHold, LinksHold
<1>8. \A q \in Owners : recorded[q] = Selection(schema, q)
  BY <1>4 DEF HistoryInv, Keeps, Write
<1>9. \A q \in Owners : recorded'[q] = Selection(s, q)
  BY <1>2, <1>5, <1>8 DEF Selection, Listed
<1>10. recorded' \in [Owners -> SUBSET SkillIds]
  BY <1>2 DEF HistoryInv
<1> QED
  BY <1>4, <1>5, <1>6, <1>7, <1>9, <1>10, WriteKeeps


-----------------------------------------------------------------------------
\* The commands of Alembic.

LEMMA RevisionsAre ==
    /\ {"initial", "links", "names", "baseline", "proofs", "automatic"} \subseteq Revisions
    /\ \A r \in Revisions : Parents[r] = {} => r = "initial"
    /\ \A done : AreRevisions(done) /\ "baseline" \in done =>
          "reason" \in done /\ "names" \in done
    /\ Parents["reason"] = {"names"} /\ Parents["baseline"] = {"counts"}
    /\ Parents["counts"] = {"reason"}
<1>1. /\ Parents["initial"] = {} /\ Parents["identity"] = {"initial"} /\ Parents["age"] = {"identity"}
      /\ Parents["links"] = {"age"} /\ Parents["closed"] = {"links"} /\ Parents["names"] = {"closed"}
      /\ Parents["reason"] = {"names"} /\ Parents["counts"] = {"reason"}
      /\ Parents["baseline"] = {"counts"} /\ Parents["index"] = {"counts"}
      /\ Parents["proofs"] = {"index"} /\ Parents["merge"] = {"baseline", "proofs"}
      /\ Parents["guidance"] = {"merge"} /\ Parents["deliveries"] = {"guidance"}
      /\ Parents["active"] = {"deliveries"} /\ Parents["automatic"] = {"active"}
      /\ Parents["contact"] = {"automatic"} /\ Parents["fields"] = {"contact"}
  BY DEF Parents
<1>2. Revisions = {"initial", "identity", "age", "links", "closed", "names", "reason", "counts",
                   "baseline", "index", "proofs", "merge", "guidance", "deliveries", "active",
                   "automatic", "contact", "fields"}
  BY DEF Revisions, Parents
<1>3. \A r \in Revisions : Parents[r] = {} => r = "initial"
  BY <1>1, <1>2
<1>4. ASSUME NEW done, AreRevisions(done), "baseline" \in done
      PROVE  "reason" \in done /\ "names" \in done
  <2>1. "counts" \in done
    BY <1>1, <1>4 DEF AreRevisions
  <2>2. "reason" \in done
    BY <1>1, <1>4, <2>1 DEF AreRevisions
  <2> QED
    BY <1>1, <1>4, <2>2 DEF AreRevisions
<1> QED
  BY <1>1, <1>2, <1>3, <1>4

\* A revision is recorded in the table of the version, and its tables come or go.
IsVersion(t, s, A, T) ==
    /\ DOMAIN t = Fields /\ t = [f \in Fields |-> t[f]] /\ t.applied = A /\ t.tables = T
    /\ t.catalog = s.catalog /\ t.listed = s.listed /\ t.linked = s.linked
    /\ t.users = s.users /\ t.automatic = s.automatic /\ t.attached = s.attached

LEMMA VersionChanges ==
    ASSUME NEW s, DOMAIN s = Fields, s = [f \in Fields |-> s[f]], NEW A, NEW T
    PROVE  IsVersion([s EXCEPT !.applied = A, !.tables = T], s, A, T)
<1> DEFINE t == [s EXCEPT !.applied = A, !.tables = T]
<1> DEFINE u == [s EXCEPT !.applied = A]
<1>0. t = [u EXCEPT !.tables = T]
  OBVIOUS
<1>1. /\ DOMAIN u = Fields /\ u = [f \in Fields |-> u[f]] /\ u.applied = A
      /\ \A f \in Fields : f # "applied" => u[f] = s[f]
  BY OneFieldChanges DEF Fields
<1> HIDE DEF u
<1>2. /\ DOMAIN t = Fields /\ t = [f \in Fields |-> t[f]] /\ t.tables = T
      /\ \A f \in Fields : f # "tables" => t[f] = u[f]
  BY <1>0, <1>1, OneFieldChanges DEF Fields
<1> HIDE DEF t
<1>3. IsVersion(t, s, A, T)
  BY <1>1, <1>2 DEF Fields, IsVersion
<1> QED
  BY <1>3 DEF t

LEMMA ListedAre == \A s, o : Listed(s, o) = Named(s.listed[o])
BY DEF Listed, Named

\* What a command has to show for a state once its version is another.
FitsVersion(s, A, T) ==
    /\ IsTyped(s)
    /\ AreRevisions(A) /\ "initial" \in A /\ TablesAre(T, A)
    /\ "links" \in A => LinksHold(s)
    /\ "names" \in A => FormsAreKeys(s.catalog)
    /\ "baseline" \in A => BaselineIsThere(s.catalog)
    /\ \A o \in Owners : recorded[o] = IF "links" \in A THEN s.linked[o] ELSE Listed(s, o)

LEMMA VersionFits ==
    ASSUME NEW s, NEW A, NEW T, FitsVersion(s, A, T), NEW t, IsVersion(t, s, A, T)
    PROVE  IsSound(t) /\ Keeps(t)
<1>1. /\ DOMAIN t = Fields /\ t = [f \in Fields |-> t[f]] /\ t.applied = A /\ t.tables = T
      /\ t.catalog = s.catalog /\ t.listed = s.listed /\ t.linked = s.linked
      /\ t.users = s.users /\ t.automatic = s.automatic /\ t.attached = s.attached
  BY DEF IsVersion
<1>2. IsTyped(t)
  BY <1>1 DEF FitsVersion, IsTyped, AreRevisions
<1>3. RowsHold(t)
  BY <1>1 DEF FitsVersion, RowsHold, LinksHold
<1>4. Keeps(t)
  <2>1. \A o \in Owners : recorded[o] = IF "links" \in A THEN s.linked[o] ELSE Named(s.listed[o])
    BY ListedAre DEF FitsVersion
  <2> QED
    BY <1>1, <2>1, ListedAre DEF Keeps, Selection
<1> QED
  BY <1>1, <1>2, <1>3, <1>4 DEF FitsVersion, IsSound

LEMMA RollbackKeeps ==
    ASSUME HistoryInv, migration.dir # "none", Rollback
    PROVE  HistoryInv'
<1>1. /\ schema' = migration.before /\ migration'.dir = "none" /\ migration'.before = EmptySchema
      /\ recorded' = recorded
  BY DEF Rollback
<1>2. Keeps(schema)'
  BY <1>1 DEF HistoryInv, Keeps
<1> QED
  BY <1>1, <1>2, EmptySchemaIsSound DEF HistoryInv

\* One revision more, or one less, in the transaction of the command.
LEMMA StepKeeps ==
    ASSUME HistoryInv, migration.dir # "none", UNCHANGED <<migration, recorded>>,
           IsSound(schema'), migration.dir # "down" \/ "initial" \in schema'.applied => Keeps(schema)'
    PROVE  HistoryInv'
<1>1. Keeps(migration.before)'
  BY DEF HistoryInv, Keeps
<1> QED
  BY <1>1 DEF HistoryInv, Applied

LEMMA NothingIsUnknown ==
    ASSUME NEW s, UnknownReferences(s) = {}
    PROVE  \A p \in Owners : Listed(s, p) \subseteq DOMAIN s.catalog
<1> DEFINE all == UNION {Listed(s, o) : o \in Owners}
<1>1. all \ DOMAIN s.catalog = {}
  BY DEF UnknownReferences
<1>2. \A p \in Owners : Listed(s, p) \subseteq all
  OBVIOUS
<1> HIDE DEF all
<1> QED
  BY <1>1, <1>2

LEMMA UpperFieldChanges ==
    ASSUME NEW ref, DOMAIN ref = {"skill", "upper"}, NEW upper
    PROVE  [ref EXCEPT !.upper = upper] = [skill |-> ref.skill, upper |-> upper]
OBVIOUS

LEMMA ReadableForm ==
    ASSUME NEW ref \in References, NEW id
    PROVE  Readable(ref) = [skill |-> id, upper |-> FALSE] <=> ref.skill = id
<1>1. DOMAIN ref = {"skill", "upper"}
  BY DEF References
<1>2. Readable(ref) = [skill |-> ref.skill, upper |-> FALSE]
  BY <1>1, UpperFieldChanges, Zenon DEF Readable
<1>3. Readable(ref) = [skill |-> id, upper |-> FALSE] => ref.skill = id
  BY DEF Readable, References
<1> QED
  BY <1>2, <1>3

\* The skills copied to the join tables are the ones the arrays named.
LEMMA LinksAreCopied ==
    ASSUME NEW s, IsTyped(s), ~ UpgradeRefuses(s, "links"), NEW o \in Owners
    PROVE  CopiedLinks(s, o) = Listed(s, o) /\ Listed(s, o) \subseteq DOMAIN s.catalog
<1>1. UnknownReferences(s) = {}
  BY DEF UpgradeRefuses
<1>2. Listed(s, o) \subseteq DOMAIN s.catalog
  BY <1>1, NothingIsUnknown
<1>3. s.listed[o] \in Seq(References)
  BY DEF IsTyped
<1>4. \A i \in DOMAIN s.listed[o] : s.listed[o][i] \in References
  BY <1>3
<1>5. ASSUME NEW ref \in References, NEW id
      PROVE  Readable(ref) = [skill |-> id, upper |-> FALSE] <=> ref.skill = id
  BY ReadableForm
<1>6. \A id : id \in CopiedLinks(s, o) <=>
         id \in DOMAIN s.catalog /\ \E i \in DOMAIN s.listed[o] : s.listed[o][i].skill = id
  BY <1>4, <1>5 DEF CopiedLinks
<1>7. \A id : id \in Listed(s, o) <=> \E i \in DOMAIN s.listed[o] : s.listed[o][i].skill = id
  BY DEF Listed
<1> QED
  BY <1>2, <1>6, <1>7

\* ... and back: the arrays name what the join tables held.
LEMMA LinksAreListed ==
    ASSUME NEW s, IsTyped(s), LinksHold(s), NEW o \in Owners
    PROVE  Unlink(s).listed[o] \in Seq(References) /\ Listed(Unlink(s), o) = s.linked[o]
<1> DEFINE ids == InOrderOfIds(s.linked[o])
           rows == [i \in DOMAIN ids |-> [skill |-> ids[i], upper |-> FALSE]]
<1>1. /\ IsFiniteSet(s.linked[o]) /\ s.linked[o] \subseteq SkillIds
  BY FS_Subset DEF IsTyped, LinksHold
<1>2. s.linked[o] \in SUBSET Int
  <2>1. SkillIds \subseteq Nat
    BY HistoryAssumption
  <2> DEFINE linked == s.linked[o]
  <2>2. linked \subseteq SkillIds
    BY <1>1
  <2> HIDE DEF linked
  <2>3. \A x \in linked : x \in Int
    BY <2>1, <2>2
  <2> QED
    BY <2>3 DEF linked
<1>3. /\ Cardinality(s.linked[o]) \in Nat /\ ids \in [1..Cardinality(s.linked[o]) -> s.linked[o]]
      /\ \A x \in s.linked[o] : \E k \in 1..Cardinality(s.linked[o]) : ids[k] = x
  <2>1. IsStrictOrder(Ascending, s.linked[o])
    BY <1>2, AscendingIsAnOrder
  <2> QED
    BY <1>1, <2>1, InOrderLists DEF InOrderOfIds
<1> HIDE DEF ids
<1>4. /\ DOMAIN rows = DOMAIN ids
      /\ \A i \in DOMAIN ids : rows[i] \in References /\ rows[i].skill = ids[i]
  BY <1>1, <1>3 DEF References
<1>5. rows \in Seq(References)
  <2>1. rows \in [1..Cardinality(s.linked[o]) -> References]
    BY <1>3, <1>4
  <2> HIDE DEF rows
  <2> QED
    BY <1>3, <2>1
<1>6. Unlink(s).listed[o] = rows
  <2> DEFINE u == [s EXCEPT !.linked = EmptySchema.linked]
             now == [q \in Owners |->
                        LET w == InOrderOfIds(s.linked[q])
                        IN  [i \in DOMAIN w |-> [skill |-> w[i], upper |-> FALSE]]]
  <2>1. Unlink(s) = [u EXCEPT !.listed = now]
    BY DEF Unlink
  <2>2. /\ DOMAIN u = Fields /\ u = [f \in Fields |-> u[f]]
    BY OneFieldChanges DEF IsTyped, Fields
  <2>3. now[o] = rows
    BY DEF ids
  <2> HIDE DEF u, now
  <2>4. [u EXCEPT !.listed = now].listed = now
    BY <2>2, OneFieldChanges DEF Fields
  <2> HIDE DEF rows
  <2> QED
    BY <2>1, <2>3, <2>4
<1> HIDE DEF rows
<1>7. Listed(Unlink(s), o) = {rows[i].skill : i \in DOMAIN rows}
  BY <1>6 DEF Listed
<1>8. {rows[i].skill : i \in DOMAIN rows} = s.linked[o]
  BY <1>3, <1>4
<1> QED
  BY <1>5, <1>6, <1>7, <1>8


\* Filling the column with the normalized names.
WithForms(catalog) ==
    [i \in DOMAIN catalog |-> [catalog[i] EXCEPT !.form = FormOf[catalog[i].name]]]

HasForm(now, entry, form) ==
    now \in Entries /\ now.form = form /\ now.name = entry.name /\ now.kind = entry.kind

LEMMA EntryForms ==
    ASSUME NEW entry \in Entries, NEW form \in Forms
    PROVE  HasForm([entry EXCEPT !.form = form], entry, form)
BY DEF Entries, HasForm

LEMMA FormsAreFilled ==
    ASSUME NEW s, IsTyped(s), ~ UpgradeRefuses(s, "names")
    PROVE  /\ WithForms(s.catalog) \in [DOMAIN s.catalog -> Entries]
           /\ DOMAIN WithForms(s.catalog) = DOMAIN s.catalog
           /\ FormsAreKeys(WithForms(s.catalog))
<1> DEFINE catalog == s.catalog
           now == WithForms(catalog)
<1>1. catalog \in [DOMAIN catalog -> Entries] /\ BecomeDuplicates(s) = {}
  BY DEF IsTyped, UpgradeRefuses
<1>2. \A i, j \in DOMAIN catalog : i # j => FormOf[catalog[i].name] # FormOf[catalog[j].name]
  BY <1>1 DEF BecomeDuplicates
<1> HIDE DEF catalog
<1>3. \A i \in DOMAIN catalog :
         /\ catalog[i] \in Entries /\ catalog[i].name \in Spellings
         /\ FormOf[catalog[i].name] \in Forms
  BY <1>1 DEF Entries, Forms
<1>4. DOMAIN now = DOMAIN catalog
      /\ \A i \in DOMAIN catalog : now[i] = [catalog[i] EXCEPT !.form = FormOf[catalog[i].name]]
  BY DEF WithForms
<1>5. \A i \in DOMAIN catalog :
         /\ now[i] \in Entries /\ now[i].form = FormOf[catalog[i].name]
         /\ now[i].name = catalog[i].name
  <2>1. \A i \in DOMAIN catalog : HasForm(now[i], catalog[i], FormOf[catalog[i].name])
    <3> TAKE i \in DOMAIN catalog
    <3> DEFINE entry == catalog[i]
               form == FormOf[entry.name]
    <3>1. entry \in Entries /\ form \in Forms /\ now[i] = [entry EXCEPT !.form = form]
      BY <1>3, <1>4
    <3> HIDE DEF entry, form, now
    <3>2. HasForm([entry EXCEPT !.form = form], entry, form)
      BY <3>1, EntryForms
    <3> QED
      BY <3>1, <3>2 DEF entry, form
  <2> QED
    BY <2>1 DEF HasForm
<1>6. now = [i \in DOMAIN catalog |-> now[i]]
  BY DEF WithForms
<1> HIDE DEF now
<1>7. now \in [DOMAIN catalog -> Entries]
  BY <1>5, <1>6
<1>8. FormsAreKeys(now)
  BY <1>2, <1>4, <1>5 DEF FormsAreKeys
<1> QED
  BY <1>4, <1>7, <1>8 DEF catalog, now

\* The skills of the baseline that are missing get a row each.
LEMMA BaselineIsAdded ==
    ASSUME NEW s, IsTyped(s), FormsAreKeys(s.catalog),
           NEW ids \in [MissingBaseline(s) -> SkillIds \ DOMAIN s.catalog],
           \A a, b \in DOMAIN ids : ids[a] = ids[b] => a = b
    PROVE  LET now == WithBaseline(s, ids).catalog
           IN  /\ now \in [DOMAIN now -> Entries] /\ DOMAIN now \subseteq SkillIds
               /\ IsFiniteSet(DOMAIN now) /\ DOMAIN s.catalog \subseteq DOMAIN now
               /\ FormsAreKeys(now) /\ BaselineIsThere(now)
<1> DEFINE catalog == s.catalog
           missing == MissingBaseline(s)
           added == {ids[n] : n \in DOMAIN ids}
           OfAdded(i) == CHOOSE b \in DOMAIN ids : ids[b] = i
           Baselined(n) == [name |-> n, kind |-> "soft", form |-> FormOf[n]]
           now == [i \in DOMAIN catalog \cup added |->
                      IF i \in DOMAIN catalog THEN catalog[i] ELSE Baselined(OfAdded(i))]
<1>1. /\ catalog \in [DOMAIN catalog -> Entries] /\ DOMAIN catalog \subseteq SkillIds
      /\ IsFiniteSet(DOMAIN catalog) /\ DOMAIN s = Fields /\ s = [f \in Fields |-> s[f]]
  BY DEF IsTyped
<1>2. WithBaseline(s, ids).catalog = now
  <2>1. WithBaseline(s, ids) = [s EXCEPT !.catalog = now]
    BY DEF WithBaseline
  <2> HIDE DEF now
  <2> QED
    BY <1>1, <2>1, OneFieldChanges DEF Fields
<1>3. /\ DOMAIN ids = missing /\ missing \subseteq Baseline /\ Baseline \subseteq Spellings
      /\ \A n \in Baseline : n \in missing <=> \A i \in DOMAIN catalog : catalog[i].form # FormOf[n]
  BY HistoryAssumption DEF MissingBaseline
<1>4. \A n \in missing : ids[n] \in SkillIds /\ ids[n] \notin DOMAIN catalog /\ OfAdded(ids[n]) = n
  BY <1>3
<1>5. \A i \in added : \E n \in missing : i = ids[n]
  BY <1>3
<1>6. \A n \in missing : ids[n] \in added
  BY <1>3
<1>7. \A n \in Spellings :
         Baselined(n) \in Entries /\ Baselined(n).name = n /\ Baselined(n).form = FormOf[n]
  BY DEF Entries, Forms, Kinds
<1>8. /\ DOMAIN now = DOMAIN catalog \cup added
      /\ \A i \in DOMAIN catalog : now[i] = catalog[i]
      /\ \A i \in added : i \notin DOMAIN catalog => now[i] = Baselined(OfAdded(i))
      /\ now = [i \in DOMAIN now |-> now[i]]
  OBVIOUS
<1>9. IsFiniteSet(added)
  <2>1. IsFiniteSet(missing)
    BY <1>3, FS_Subset, HistoryAssumption
  <2>2. ids \in [missing -> added] /\ \A i \in added : \E n \in missing : ids[n] = i
    BY <1>3, <1>5, <1>6
  <2> HIDE DEF added, missing
  <2>3. ids \in Surjection(missing, added)
    BY <2>2 DEF Surjection
  <2> QED
    BY <2>1, <2>3, FS_Surjection
<1>10. IsFiniteSet(DOMAIN catalog \cup added)
  BY <1>1, <1>9, FS_Union
<1> HIDE DEF catalog, missing, added, OfAdded, Baselined, now
<1>11. \A n \in missing : now[ids[n]] = Baselined(n)
  BY <1>4, <1>6, <1>8
<1>12. \A i \in DOMAIN now : now[i] \in Entries
  BY <1>1, <1>3, <1>5, <1>7, <1>8, <1>11
<1>13. now \in [DOMAIN now -> Entries] /\ DOMAIN now \subseteq SkillIds
  BY <1>1, <1>4, <1>5, <1>8, <1>12
<1>14. BaselineIsThere(now)
  <2> SUFFICES ASSUME NEW n \in Baseline
               PROVE  \E i \in DOMAIN now : now[i].form = FormOf[n]
    BY DEF BaselineIsThere
  <2>1. CASE n \in missing
    BY <1>3, <1>6, <1>7, <1>8, <1>11, <2>1
  <2>2. CASE n \notin missing
    BY <1>3, <1>8, <2>2
  <2> QED
    BY <2>1, <2>2
<1>15. FormsAreKeys(now)
  <2>1. \A i \in DOMAIN now : now[i].form = FormOf[now[i].name]
    BY <1>3, <1>5, <1>7, <1>8, <1>11 DEF FormsAreKeys, catalog
  <2>2. \A n \in missing : now[ids[n]].form = FormOf[n]
    BY <1>3, <1>7, <1>11
  <2>3. ASSUME NEW i \in DOMAIN now, NEW j \in DOMAIN now, i # j, now[i].form = now[j].form
        PROVE  FALSE
    <3>1. CASE i \in DOMAIN catalog /\ j \in DOMAIN catalog
      BY <1>8, <2>3, <3>1 DEF FormsAreKeys, catalog
    <3>2. CASE i \in DOMAIN catalog /\ j \in added
      BY <1>3, <1>5, <1>8, <2>2, <2>3, <3>2
    <3>3. CASE i \in added /\ j \in DOMAIN catalog
      BY <1>3, <1>5, <1>8, <2>2, <2>3, <3>3
    <3>4. CASE i \in added /\ j \in added
      <4>1. PICK m \in missing, n \in missing : i = ids[m] /\ j = ids[n]
        BY <1>5, <3>4
      <4>2. FormOf[m] = FormOf[n] /\ m \in Baseline /\ n \in Baseline
        BY <1>3, <2>2, <2>3, <4>1
      <4>3. m = n
        BY <4>2, HistoryAssumption
      <4> QED
        BY <2>3, <4>1, <4>3
    <3> QED
      BY <1>8, <3>1, <3>2, <3>3, <3>4
  <2> QED
    BY <2>1, <2>3 DEF FormsAreKeys
<1> QED
  BY <1>2, <1>8, <1>10, <1>13, <1>14, <1>15 DEF catalog


\* Every field of a database but the given ones is as it was.
KeepsFields(t, s, changed) ==
    /\ DOMAIN t = Fields /\ t = [f \in Fields |-> t[f]]
    /\ \A f \in Fields : f \notin changed => t[f] = s[f]

LEMMA FieldChange ==
    ASSUME NEW s, DOMAIN s = Fields, s = [f \in Fields |-> s[f]], NEW g \in Fields, NEW v
    PROVE  KeepsFields([s EXCEPT ![g] = v], s, {g}) /\ [s EXCEPT ![g] = v][g] = v
<1> DEFINE t == [s EXCEPT ![g] = v]
<1>1. /\ DOMAIN t = Fields /\ t = [f \in Fields |-> t[f]] /\ t[g] = v
      /\ \A f \in Fields : f # g => t[f] = s[f]
  BY OneFieldChanges
<1> HIDE DEF t
<1>2. KeepsFields(t, s, {g}) /\ t[g] = v
  BY <1>1 DEF KeepsFields
<1> QED
  BY <1>2 DEF t

LEMMA OtherFields ==
    ASSUME NEW s, NEW t, NEW changed, KeepsFields(t, s, changed)
    PROVE  /\ "applied" \notin changed => t.applied = s.applied
           /\ "tables" \notin changed => t.tables = s.tables
           /\ "catalog" \notin changed => t.catalog = s.catalog
           /\ "listed" \notin changed => t.listed = s.listed
           /\ "linked" \notin changed => t.linked = s.linked
           /\ "users" \notin changed => t.users = s.users
           /\ "automatic" \notin changed => t.automatic = s.automatic
           /\ "attached" \notin changed => t.attached = s.attached
BY DEF KeepsFields, Fields

\* What every upgrade that applies one revision more starts from.
LEMMA VersionsGrow ==
    ASSUME HistoryInv, migration.dir = "up", NEW r \in Revisions, r \notin schema.applied,
           Parents[r] \subseteq schema.applied
    PROVE  /\ AreRevisions(schema.applied \cup {r}) /\ "initial" \in schema.applied \cup {r}
           /\ r # "initial" => "initial" \in schema.applied
           /\ r = "initial" => "proofs" \notin schema.applied
           /\ r # "proofs" => TablesAre(schema.tables \cup TablesOf(r), schema.applied \cup {r})
           /\ IsTyped(schema) /\ RowsHold(schema) /\ Keeps(schema)
<1>1. /\ IsTyped(schema) /\ RowsHold(schema) /\ Keeps(schema) /\ AreRevisions(schema.applied)
      /\ TablesAre(schema.tables, schema.applied)
  BY DEF HistoryInv, IsSound
<1>2. AreRevisions(schema.applied \cup {r})
  BY <1>1 DEF AreRevisions
<1>3. "initial" \notin schema.applied => schema.applied = {}
  <2>1. EmptySchema.applied = {}
    BY DEF EmptySchema
  <2> QED
    BY <2>1 DEF HistoryInv, IsSound
<1>4. r # "initial" => "initial" \in schema.applied
  BY <1>3, RevisionsAre
<1>5. r = "initial" => "proofs" \notin schema.applied
  BY <1>3
<1>6. r # "proofs" => TablesAre(schema.tables \cup TablesOf(r), schema.applied \cup {r})
  BY <1>1, <1>5, TablesGrow
<1> QED
  BY <1>1, <1>2, <1>4, <1>5, <1>6

LEMMA UpgradeFits ==
    ASSUME HistoryInv, migration.dir = "up", NEW r \in Revisions, r \notin schema.applied,
           Parents[r] \subseteq schema.applied, ~ UpgradeRefuses(schema, r),
           NEW s \in Upgraded(schema, r)
    PROVE  /\ s.applied = schema.applied
           /\ FitsVersion(s, schema.applied \cup {r}, s.tables \cup TablesOf(r))
<1> DEFINE A == schema.applied \cup {r}
<1>1. /\ AreRevisions(A) /\ "initial" \in A
      /\ r # "initial" => "initial" \in schema.applied
      /\ r # "proofs" => TablesAre(schema.tables \cup TablesOf(r), A)
      /\ IsTyped(schema) /\ RowsHold(schema) /\ Keeps(schema)
  BY VersionsGrow
<1>2. DOMAIN schema = Fields /\ schema = [f \in Fields |-> schema[f]]
  BY <1>1 DEF IsTyped
<1>3. \A q : q \in A <=> q \in schema.applied \/ q = r
  OBVIOUS
<1> HIDE DEF A
<1>4. CASE r = "links"
  <2> DEFINE u == [schema EXCEPT !.linked = [o \in Owners |-> CopiedLinks(schema, o)]]
             now == [o \in Owners |-> CopiedLinks(schema, o)]
  <2>1. s = [u EXCEPT !.listed = EmptySchema.listed]
    BY <1>4 DEF Upgraded, Link
  <2>2. KeepsFields(u, schema, {"linked"}) /\ u.linked = now
    BY <1>2, FieldChange DEF Fields
  <2> HIDE DEF u
  <2>3. KeepsFields(s, u, {"listed"}) /\ s.listed = EmptySchema.listed
    BY <2>1, <2>2, FieldChange DEF Fields, KeepsFields
  <2>4. /\ s.applied = schema.applied /\ s.tables = schema.tables /\ s.linked = now
        /\ s.catalog = schema.catalog /\ s.users = schema.users /\ s.automatic = schema.automatic
        /\ s.attached = schema.attached /\ s.listed = [o \in Owners |-> <<>>]
    BY <2>2, <2>3, OtherFields DEF EmptySchema
  <2>5. DOMAIN s = Fields /\ s = [f \in Fields |-> s[f]]
    BY <2>3 DEF KeepsFields
  <2>6. \A o \in Owners : now[o] = Listed(schema, o) /\ now[o] \subseteq DOMAIN schema.catalog
    BY <1>1, <1>4, LinksAreCopied
  <2>7. now \in [Owners -> SUBSET SkillIds]
    BY <1>1, <2>6 DEF IsTyped
  <2> HIDE DEF now
  <2>8. IsTyped(s)
    BY <1>1, <2>4, <2>5, <2>7 DEF IsTyped
  <2>9. LinksHold(s)
    BY <2>4, <2>6 DEF LinksHold
  <2>10. \A o \in Owners : recorded[o] = s.linked[o]
    BY <1>1, <1>4, <2>4, <2>6 DEF Keeps, Selection
  <2>11. /\ "names" \in A => FormsAreKeys(s.catalog)
         /\ "baseline" \in A => BaselineIsThere(s.catalog)
    BY <1>1, <1>3, <1>4, <2>4 DEF RowsHold
  <2> QED
    BY <1>1, <1>3, <1>4, <2>4, <2>8, <2>9, <2>10, <2>11 DEF FitsVersion, A
<1>5. CASE r = "names"
  <2>1. s = [schema EXCEPT !.catalog = WithForms(schema.catalog)]
    BY <1>5 DEF Upgraded, FillNames, WithForms
  <2>2. KeepsFields(s, schema, {"catalog"}) /\ s.catalog = WithForms(schema.catalog)
    BY <1>2, <2>1, FieldChange DEF Fields
  <2>3. /\ s.applied = schema.applied /\ s.tables = schema.tables /\ s.linked = schema.linked
        /\ s.users = schema.users /\ s.automatic = schema.automatic
        /\ s.attached = schema.attached /\ s.listed = schema.listed
        /\ DOMAIN s = Fields /\ s = [f \in Fields |-> s[f]]
    BY <2>2, OtherFields DEF KeepsFields
  <2>4. /\ s.catalog \in [DOMAIN schema.catalog -> Entries]
        /\ DOMAIN s.catalog = DOMAIN schema.catalog /\ FormsAreKeys(s.catalog)
    BY <1>1, <1>5, <2>2, FormsAreFilled
  <2>5. IsTyped(s)
    BY <1>1, <2>3, <2>4 DEF IsTyped
  <2>6. "baseline" \notin A
    BY <1>3, <1>5, RevisionsAre DEF HistoryInv, IsSound
  <2>7. "links" \in A => LinksHold(s)
    BY <1>1, <1>3, <1>5, <2>3, <2>4 DEF RowsHold, LinksHold
  <2>8. \A o \in Owners : recorded[o] = IF "links" \in A THEN s.linked[o] ELSE Listed(s, o)
    BY <1>1, <1>3, <1>5, <2>3, ListedAre DEF Keeps, Selection
  <2> QED
    BY <1>1, <1>5, <2>3, <2>4, <2>5, <2>6, <2>7, <2>8 DEF FitsVersion, A
<1>6. CASE r = "baseline"
  <2>1. PICK ids \in [MissingBaseline(schema) -> SkillIds \ DOMAIN schema.catalog] :
           (\A a, b \in DOMAIN ids : ids[a] = ids[b] => a = b) /\ s = WithBaseline(schema, ids)
    BY <1>6 DEF Upgraded
  <2>2. "names" \in schema.applied
    BY <1>1, <1>3, <1>6, RevisionsAre
  <2> DEFINE now == WithBaseline(schema, ids).catalog
  <2>3. /\ now \in [DOMAIN now -> Entries] /\ DOMAIN now \subseteq SkillIds
        /\ IsFiniteSet(DOMAIN now) /\ DOMAIN schema.catalog \subseteq DOMAIN now
        /\ FormsAreKeys(now) /\ BaselineIsThere(now)
    BY <1>1, <2>1, <2>2, BaselineIsAdded DEF RowsHold
  <2>4. KeepsFields(s, schema, {"catalog"}) /\ s.catalog = now
    BY <1>2, <2>1, FieldChange DEF Fields, WithBaseline
  <2> HIDE DEF now
  <2>5. /\ s.applied = schema.applied /\ s.tables = schema.tables /\ s.linked = schema.linked
        /\ s.users = schema.users /\ s.automatic = schema.automatic
        /\ s.attached = schema.attached /\ s.listed = schema.listed
        /\ DOMAIN s = Fields /\ s = [f \in Fields |-> s[f]]
    BY <2>4, OtherFields DEF KeepsFields
  <2>6. IsTyped(s)
    BY <1>1, <2>3, <2>4, <2>5 DEF IsTyped
  <2>7. "links" \in A => LinksHold(s)
    BY <1>1, <1>3, <1>6, <2>3, <2>4, <2>5 DEF RowsHold, LinksHold
  <2>8. \A o \in Owners : recorded[o] = IF "links" \in A THEN s.linked[o] ELSE Listed(s, o)
    BY <1>1, <1>3, <1>6, <2>5, ListedAre DEF Keeps, Selection
  <2> QED
    BY <1>1, <1>6, <2>3, <2>4, <2>5, <2>6, <2>7, <2>8 DEF FitsVersion, A
<1>7. CASE r \notin {"links", "names", "baseline"}
  <2>1. /\ DOMAIN s = Fields /\ s = [f \in Fields |-> s[f]]
        /\ s.applied = schema.applied /\ s.linked = schema.linked /\ s.listed = schema.listed
        /\ s.catalog = schema.catalog /\ s.users = schema.users
        /\ s.automatic \in BOOLEAN /\ s.attached \in BOOLEAN
        /\ TablesAre(s.tables \cup TablesOf(r), A)
    <3>0. schema.automatic \in BOOLEAN /\ schema.attached \in BOOLEAN
      BY <1>1 DEF IsTyped
    <3>1. CASE r = "proofs"
      <4> DEFINE u == [schema EXCEPT !.attached = FALSE]
                 now == {t \in schema.tables : t.name # "attached_certificate"} \cup {ProofTable}
      <4>1. KeepsFields(u, schema, {"attached"}) /\ u.attached = FALSE
        BY <1>2, FieldChange DEF Fields
      <4>2. u.tables = schema.tables /\ s = [u EXCEPT !.tables = now]
        <5>1. s = LinkProofs(schema)
          BY <3>1 DEF Upgraded
        <5> QED
          BY <1>2, <5>1, <4>1, OtherFields DEF LinkProofs
      <4> HIDE DEF u, now
      <4>3. KeepsFields(s, u, {"tables"}) /\ s.tables = now
        BY <4>1, <4>2, FieldChange DEF Fields, KeepsFields
      <4>4. TablesAre(now \cup TablesOf("proofs"), A)
        BY <1>1, <3>1, ReferenceMoves DEF now, A, HistoryInv, IsSound
      <4>5. /\ u.applied = schema.applied /\ u.linked = schema.linked /\ u.listed = schema.listed
            /\ u.catalog = schema.catalog /\ u.users = schema.users
            /\ u.automatic = schema.automatic
        BY <4>1, OtherFields
      <4>6. /\ s.applied = u.applied /\ s.linked = u.linked /\ s.listed = u.listed
            /\ s.catalog = u.catalog /\ s.users = u.users
            /\ s.automatic = u.automatic /\ s.attached = u.attached
        BY <4>3, OtherFields
      <4>7. s.attached \in BOOLEAN
        BY <4>1, <4>6
      <4>8. s.automatic \in BOOLEAN
        BY <3>0, <4>5, <4>6, Zenon
      <4>9. DOMAIN s = Fields /\ s = [f \in Fields |-> s[f]]
        BY <4>3 DEF KeepsFields
      <4>10. TablesAre(s.tables \cup TablesOf(r), A)
        BY <3>1, <4>3, <4>4
      <4> QED
        BY <4>5, <4>6, <4>7, <4>8, <4>9, <4>10, Zenon
    <3>2. CASE r = "automatic"
      <4>1. s = [schema EXCEPT !.automatic = TRUE]
        BY <3>2 DEF Upgraded
      <4>2. KeepsFields(s, schema, {"automatic"}) /\ s.automatic = TRUE
        BY <1>2, <4>1, FieldChange DEF Fields
      <4>3. /\ s.applied = schema.applied /\ s.tables = schema.tables /\ s.linked = schema.linked
            /\ s.listed = schema.listed /\ s.catalog = schema.catalog /\ s.users = schema.users
            /\ s.attached = schema.attached
        BY <4>2, OtherFields
      <4>4. s.automatic \in BOOLEAN
        BY <4>2
      <4>5. s.attached \in BOOLEAN
        BY <3>0, <4>3, Zenon
      <4>6. DOMAIN s = Fields /\ s = [f \in Fields |-> s[f]]
        BY <4>2 DEF KeepsFields
      <4>7. TablesAre(s.tables \cup TablesOf(r), A)
        BY <1>1, <3>2, <4>3
      <4> QED
        BY <4>3, <4>4, <4>5, <4>6, <4>7, Zenon
    <3>3. CASE r \notin {"proofs", "automatic"}
      <4>1. s = schema
        BY <1>7, <3>3 DEF Upgraded
      <4> QED
        BY <1>1, <1>2, <3>0, <3>3, <4>1
    <3> QED
      BY <3>1, <3>2, <3>3
  <2>2. IsTyped(s)
    BY <1>1, <2>1 DEF IsTyped
  <2>3. /\ "links" \in A => LinksHold(s)
        /\ "names" \in A => FormsAreKeys(s.catalog)
        /\ "baseline" \in A => BaselineIsThere(s.catalog)
    BY <1>1, <1>3, <1>7, <2>1 DEF RowsHold, LinksHold
  <2>4. \A o \in Owners : recorded[o] = IF "links" \in A THEN s.linked[o] ELSE Listed(s, o)
    BY <1>1, <1>3, <1>7, <2>1, ListedAre DEF Keeps, Selection
  <2> QED
    BY <1>1, <2>1, <2>2, <2>3, <2>4 DEF FitsVersion, A
<1> QED
  BY <1>4, <1>5, <1>6, <1>7


\* The column of the normalized names goes.
WithoutForms(catalog) == [i \in DOMAIN catalog |-> [catalog[i] EXCEPT !.form = ""]]

LEMMA FormsGo ==
    ASSUME NEW catalog, catalog \in [DOMAIN catalog -> Entries]
    PROVE  /\ WithoutForms(catalog) \in [DOMAIN catalog -> Entries]
           /\ DOMAIN WithoutForms(catalog) = DOMAIN catalog
<1> DEFINE now == WithoutForms(catalog)
<1>1. DOMAIN now = DOMAIN catalog /\ now = [i \in DOMAIN catalog |-> now[i]]
  BY DEF WithoutForms
<1>2. ASSUME NEW i \in DOMAIN catalog
      PROVE  now[i] \in Entries
  <2> DEFINE entry == catalog[i]
             form == ""
  <2>1. entry \in Entries /\ form \in Forms /\ now[i] = [entry EXCEPT !.form = form]
    BY DEF WithoutForms, Forms
  <2> HIDE DEF entry, form, now
  <2>2. HasForm([entry EXCEPT !.form = form], entry, form)
    BY <2>1, EntryForms
  <2> QED
    BY <2>1, <2>2 DEF HasForm
<1> HIDE DEF now
<1>3. now \in [DOMAIN catalog -> Entries]
  BY <1>1, <1>2
<1> QED
  BY <1>1, <1>3 DEF now

LEMMA DowngradeFits ==
    ASSUME HistoryInv, migration.dir = "down", NEW r \in schema.applied, r # "initial",
           \A child \in schema.applied : r \notin Parents[child]
    PROVE  /\ Downgraded(schema, r).applied = schema.applied
           /\ FitsVersion(Downgraded(schema, r), schema.applied \ {r},
                          Downgraded(schema, r).tables \ TablesOf(r))
<1> DEFINE A == schema.applied \ {r}
           s == Downgraded(schema, r)
<1>1. /\ IsTyped(schema) /\ RowsHold(schema) /\ AreRevisions(schema.applied)
      /\ TablesAre(schema.tables, schema.applied)
  BY DEF HistoryInv, IsSound
<1>2. DOMAIN schema = Fields /\ schema = [f \in Fields |-> schema[f]]
  BY <1>1 DEF IsTyped
<1>3. "initial" \in schema.applied
  <2>1. EmptySchema.applied = {}
    BY DEF EmptySchema
  <2> QED
    BY <2>1 DEF HistoryInv, IsSound
<1>4. Keeps(schema)
  BY <1>3 DEF HistoryInv, Applied
<1>5. AreRevisions(A) /\ "initial" \in A
  BY <1>1, <1>3 DEF AreRevisions
<1>6. r # "proofs" => TablesAre(schema.tables \ TablesOf(r), A)
  BY <1>1, TablesShrink
<1>7. \A q : q \in A <=> q \in schema.applied /\ q # r
  OBVIOUS
<1> HIDE DEF A, s
<1>8. CASE r = "links"
  <2> DEFINE u == [schema EXCEPT !.linked = EmptySchema.linked]
             now == [o \in Owners |->
                        LET ids == InOrderOfIds(schema.linked[o])
                        IN  [i \in DOMAIN ids |-> [skill |-> ids[i], upper |-> FALSE]]]
  <2>1. s = [u EXCEPT !.listed = now] /\ s = Unlink(schema)
    BY <1>8 DEF Downgraded, Unlink, s
  <2>2. KeepsFields(u, schema, {"linked"}) /\ u.linked = EmptySchema.linked
    BY <1>2, FieldChange DEF Fields
  <2>3. now = [o \in Owners |-> now[o]]
    OBVIOUS
  <2> HIDE DEF u, now
  <2>4. KeepsFields(s, u, {"listed"}) /\ s.listed = now
    BY <2>1, <2>2, FieldChange DEF Fields, KeepsFields
  <2>5. /\ s.applied = schema.applied /\ s.tables = schema.tables
        /\ s.linked = [o \in Owners |-> {}]
        /\ s.catalog = schema.catalog /\ s.users = schema.users /\ s.automatic = schema.automatic
        /\ s.attached = schema.attached /\ s.listed = now
        /\ DOMAIN s = Fields /\ s = [f \in Fields |-> s[f]]
    BY <2>2, <2>4, OtherFields DEF EmptySchema, KeepsFields
  <2>6. LinksHold(schema)
    BY <1>1, <1>8 DEF RowsHold
  <2>7. \A o \in Owners : s.listed[o] \in Seq(References) /\ Listed(s, o) = schema.linked[o]
    BY <1>1, <2>1, <2>6, LinksAreListed
  <2>8. s.listed \in [Owners -> Seq(References)]
    BY <2>3, <2>5, <2>7
  <2>9. IsTyped(s)
    BY <1>1, <2>5, <2>8 DEF IsTyped
  <2>10. \A o \in Owners : recorded[o] = Listed(s, o)
    BY <1>4, <1>8, <2>7 DEF Keeps, Selection
  <2>11. /\ "names" \in A => FormsAreKeys(s.catalog)
         /\ "baseline" \in A => BaselineIsThere(s.catalog)
    BY <1>1, <1>7, <2>5 DEF RowsHold
  <2> QED
    BY <1>5, <1>6, <1>7, <1>8, <2>5, <2>9, <2>10, <2>11 DEF FitsVersion, A, s
<1>9. CASE r = "names"
  <2>1. s = [schema EXCEPT !.catalog = WithoutForms(schema.catalog)]
    BY <1>9 DEF Downgraded, WithoutForms, s
  <2>2. KeepsFields(s, schema, {"catalog"}) /\ s.catalog = WithoutForms(schema.catalog)
    BY <1>2, <2>1, FieldChange DEF Fields
  <2>3. /\ s.applied = schema.applied /\ s.tables = schema.tables /\ s.linked = schema.linked
        /\ s.users = schema.users /\ s.automatic = schema.automatic
        /\ s.attached = schema.attached /\ s.listed = schema.listed
        /\ DOMAIN s = Fields /\ s = [f \in Fields |-> s[f]]
    BY <2>2, OtherFields DEF KeepsFields
  <2>4. s.catalog \in [DOMAIN schema.catalog -> Entries] /\ DOMAIN s.catalog = DOMAIN schema.catalog
    BY <1>1, <2>2, FormsGo DEF IsTyped
  <2>5. IsTyped(s)
    BY <1>1, <2>3, <2>4 DEF IsTyped
  <2>6. "baseline" \notin A
    BY <1>1, <1>7, <1>9, RevisionsAre
  <2>7. "links" \in A => LinksHold(s)
    BY <1>1, <1>7, <2>3, <2>4 DEF RowsHold, LinksHold
  <2>8. \A o \in Owners : recorded[o] = IF "links" \in A THEN s.linked[o] ELSE Listed(s, o)
    BY <1>4, <1>7, <1>9, <2>3, ListedAre DEF Keeps, Selection
  <2>9. "names" \notin A
    BY <1>7, <1>9
  <2> QED
    BY <1>5, <1>6, <1>9, <2>3, <2>5, <2>6, <2>7, <2>8, <2>9 DEF FitsVersion, A, s
<1>10. CASE r \notin {"links", "names"}
  <2>1. /\ DOMAIN s = Fields /\ s = [f \in Fields |-> s[f]]
        /\ s.applied = schema.applied /\ s.linked = schema.linked /\ s.listed = schema.listed
        /\ s.catalog = schema.catalog /\ s.users = schema.users
        /\ s.automatic = schema.automatic /\ s.attached = schema.attached
        /\ TablesAre(s.tables \ TablesOf(r), A)
    <3>1. CASE r = "proofs"
      <4> DEFINE now == {t \in schema.tables : t.name # "attached_certificate"} \cup {RecordTables[1]}
      <4>1. s = [schema EXCEPT !.tables = now]
        BY <3>1 DEF Downgraded, UnlinkProofs, s
      <4>2. TablesAre(now \ TablesOf("proofs"), A)
        BY <1>1, <1>3, <3>1, ReferenceMoves DEF A
      <4> HIDE DEF now
      <4>3. KeepsFields(s, schema, {"tables"}) /\ s.tables = now
        BY <1>2, <4>1, FieldChange DEF Fields
      <4> QED
        BY <3>1, <4>2, <4>3, OtherFields DEF KeepsFields
    <3>2. CASE r # "proofs"
      <4>1. s = schema
        BY <1>10, <3>2 DEF Downgraded, s
      <4> QED
        BY <1>2, <1>6, <3>2, <4>1
    <3> QED
      BY <3>1, <3>2
  <2>2. IsTyped(s)
    BY <1>1, <2>1 DEF IsTyped
  <2>3. /\ "links" \in A => LinksHold(s)
        /\ "names" \in A => FormsAreKeys(s.catalog)
        /\ "baseline" \in A => BaselineIsThere(s.catalog)
    BY <1>1, <1>7, <1>10, <2>1 DEF RowsHold, LinksHold
  <2>4. \A o \in Owners : recorded[o] = IF "links" \in A THEN s.linked[o] ELSE Listed(s, o)
    BY <1>4, <1>7, <1>10, <2>1, ListedAre DEF Keeps, Selection
  <2> QED
    BY <1>5, <2>1, <2>2, <2>3, <2>4 DEF FitsVersion, A, s
<1> QED
  BY <1>8, <1>9, <1>10

LEMMA UpgradeKeeps ==
    ASSUME HistoryInv, NEW r \in Revisions, Upgrade(r)
    PROVE  HistoryInv'
<1>1. migration.dir = "up" /\ r \notin schema.applied /\ Parents[r] \subseteq schema.applied
  BY DEF Upgrade, Applied
<1>2. CASE Rollback
  BY <1>1, <1>2, RollbackKeeps
<1>3. CASE ~ Rollback
  <2>1. /\ ~ UpgradeRefuses(schema, r)
        /\ \E s \in Upgraded(schema, r) :
              schema' = [s EXCEPT !.applied = @ \cup {r}, !.tables = @ \cup TablesOf(r)]
        /\ UNCHANGED <<migration, recorded>>
    BY <1>3 DEF Upgrade
  <2>2. PICK s \in Upgraded(schema, r) :
           schema' = [s EXCEPT !.applied = @ \cup {r}, !.tables = @ \cup TablesOf(r)]
    BY <2>1
  <2> DEFINE A == s.applied \cup {r}
             T == s.tables \cup TablesOf(r)
  <2>3. FitsVersion(s, A, T)
    BY <1>1, <2>1, UpgradeFits
  <2>4. DOMAIN s = Fields /\ s = [f \in Fields |-> s[f]]
    BY <2>3 DEF FitsVersion, IsTyped
  <2>5. schema' = [s EXCEPT !.applied = A, !.tables = T]
    BY <2>2, <2>4 DEF Fields
  <2> HIDE DEF A, T
  <2>6. IsVersion(schema', s, A, T)
    BY <2>4, <2>5, VersionChanges
  <2>7. IsSound(schema') /\ Keeps(schema')
    BY <2>3, <2>6, VersionFits
  <2>8. Keeps(schema)'
    BY <2>1, <2>7 DEF Keeps
  <2> QED
    BY <1>1, <2>1, <2>7, <2>8, StepKeeps
<1> QED
  BY <1>2, <1>3

LEMMA DowngradeKeeps ==
    ASSUME HistoryInv, NEW r \in Revisions, Downgrade(r)
    PROVE  HistoryInv'
<1>1. /\ migration.dir = "down" /\ r \in schema.applied
      /\ \A child \in schema.applied : r \notin Parents[child]
  BY DEF Downgrade, Applied
<1>2. CASE Rollback
  BY <1>1, <1>2, RollbackKeeps
<1>3. CASE ~ Rollback
  <2> DEFINE s == Downgraded(schema, r)
             A == s.applied \ {r}
             T == s.tables \ TablesOf(r)
  <2>1. /\ schema' = [s EXCEPT !.applied = @ \ {r}, !.tables = @ \ TablesOf(r)]
        /\ UNCHANGED <<migration, recorded>>
    BY <1>3 DEF Downgrade
  <2>2. CASE r = "initial"
    <3>1. s = EmptySchema
      BY <2>2 DEF Downgraded
    <3> HIDE DEF s
    <3>2. s.applied = {} /\ s.tables = {} /\ s = [f \in Fields |-> s[f]] /\ DOMAIN s = Fields
      BY <3>1, EmptySchemaIsSound DEF EmptySchema, IsSound, IsTyped
    <3>3. schema' = s
      BY <2>1, <3>2 DEF Fields
    <3>4. "initial" \notin schema'.applied
      BY <3>2, <3>3
    <3> QED
      BY <1>1, <2>1, <3>1, <3>3, <3>4, EmptySchemaIsSound, StepKeeps
  <2>3. CASE r # "initial"
    <3>1. FitsVersion(s, A, T)
      BY <1>1, <2>3, DowngradeFits
    <3> HIDE DEF s
    <3>2. DOMAIN s = Fields /\ s = [f \in Fields |-> s[f]]
      BY <3>1 DEF FitsVersion, IsTyped
    <3>3. schema' = [s EXCEPT !.applied = A, !.tables = T]
      BY <2>1, <3>2 DEF Fields
    <3> HIDE DEF A, T
    <3>4. IsVersion(schema', s, A, T)
      BY <3>2, <3>3, VersionChanges
    <3>5. IsSound(schema') /\ Keeps(schema')
      BY <3>1, <3>4, VersionFits
    <3>6. Keeps(schema)'
      BY <2>1, <3>5 DEF Keeps
    <3> QED
      BY <1>1, <2>1, <3>5, <3>6, StepKeeps
  <2> QED
    BY <2>2, <2>3
<1> QED
  BY <1>2, <1>3

LEMMA HistoryInvNext ==
    ASSUME HistoryInv, [HistoryNext]_historyVars
    PROVE  HistoryInv'
<1>1. CASE SaveSkill
  BY <1>1, SaveSkillKeeps
<1>2. CASE SaveSelection
  BY <1>2, SaveSelectionKeeps
<1>3. CASE SaveAccount
  BY <1>3, SaveAccountKeeps
<1>4. CASE BeginRun
  <2>1. /\ migration.dir = "none" /\ schema' = schema /\ recorded' = recorded
        /\ migration'.dir \in {"up", "down"} /\ migration'.before = schema
    BY <1>4 DEF BeginRun
  <2>2. Keeps(schema)' /\ Keeps(migration.before)'
    BY <2>1 DEF HistoryInv, Keeps
  <2> QED
    BY <2>1, <2>2 DEF HistoryInv
<1>5. CASE CommitRun
  <2>1. /\ schema' = schema /\ migration'.dir = "none" /\ migration'.before = EmptySchema
        /\ recorded' = IF Applied("initial") THEN recorded ELSE [o \in Owners |-> {}]
    BY <1>5 DEF CommitRun
  <2>2. Keeps(schema)'
    <3>1. CASE Applied("initial")
      BY <2>1, <3>1 DEF HistoryInv, Keeps
    <3>2. CASE ~ Applied("initial")
      <4>1. schema = EmptySchema
        BY <3>2 DEF HistoryInv, IsSound, Applied
      <4> QED
        BY <2>1, <3>2, <4>1, EmptySchemaIsSound DEF Keeps
    <3> QED
      BY <3>1, <3>2
  <2>3. recorded' \in [Owners -> SUBSET SkillIds]
    BY <2>1 DEF HistoryInv
  <2> QED
    BY <2>1, <2>2, <2>3, EmptySchemaIsSound DEF HistoryInv
<1>6. CASE FailRun
  BY <1>6, RollbackKeeps DEF FailRun
<1>7. CASE RunsEnded \/ UNCHANGED historyVars
  <2>1. UNCHANGED <<schema, migration, recorded>>
    BY <1>7 DEF RunsEnded, historyVars
  <2>2. Keeps(schema)' <=> Keeps(schema)
    BY <2>1 DEF Keeps
  <2>3. Keeps(migration.before)' <=> Keeps(migration.before)
    BY <2>1 DEF Keeps
  <2> QED
    BY <2>1, <2>2, <2>3 DEF HistoryInv, Applied
<1>8. CASE \E r \in Revisions : Upgrade(r) \/ Downgrade(r)
  BY <1>8, UpgradeKeeps, DowngradeKeeps
<1> QED
  BY <1>1, <1>2, <1>3, <1>4, <1>5, <1>6, <1>7, <1>8 DEF HistoryNext

\* Whatever is migrated up and down, however often a command refuses, fails or is
\* killed half way, and whatever the program writes in between: a résumé and a job
\* keep exactly the skills last saved for them; the catalogue keeps its keys, its
\* links and its baseline; and every table refers to tables that are there, with
\* the tables of the models once every revision is done (alembic/versions).
THEOREM MigrationsKeep ==
    HistorySpec => [](HistoryTypeOK /\ SelectionsSurvive /\ CatalogStaysWhole /\ TablesFit)
<1>1. HistoryInit => HistoryInv
  BY HistoryInvInit
<1>2. HistoryInv /\ [HistoryNext]_historyVars => HistoryInv'
  BY HistoryInvNext
<1>3. HistoryInv => HistoryTypeOK /\ SelectionsSurvive /\ CatalogStaysWhole /\ TablesFit
  BY HistoryInvGives
<1> QED
  BY <1>1, <1>2, <1>3, PTL DEF HistorySpec

-----------------------------------------------------------------------------
\* The directory.  First its database, whatever has been committed.

LEMMA DirectoryTypeInit == DirectoryInit => DirectoryTypeOK
<1> SUFFICES ASSUME DirectoryInit
             PROVE  DirectoryTypeOK
  OBVIOUS
<1>1. date \in 0..LastDate /\ edits \in 0..MaxEdits
  BY DirectoryAssumption DEF DirectoryInit
<1>2. posting \in [Postings -> Posted]
  BY DirectoryAssumption DEF DirectoryInit, Posted
<1>3. firm \in [Firms -> FirmStates]
  BY DEF DirectoryInit, FirmStates
<1> QED
  BY <1>1, <1>2, <1>3, DirectoryAssumption DEF DirectoryInit, DirectoryTypeOK

\* One row is written, and the others stay as they are.
LEMMA RowIsWritten ==
    ASSUME NEW Keys, NEW Values, NEW f \in [Keys -> Values], NEW k \in Keys, NEW value \in Values
    PROVE  [f EXCEPT ![k] = value] \in [Keys -> Values]
OBVIOUS

LEMMA PostingIsWritten ==
    ASSUME NEW x \in Posted, NEW status \in {"published", "closed"}, NEW closing \in 0..LastDate,
           NEW skills \in SUBSET Talents
    PROVE  /\ [x EXCEPT !.skills = skills] \in Posted
           /\ [x EXCEPT !.status = status] \in Posted
           /\ [x EXCEPT !.status = status, !.closing = closing] \in Posted
BY DEF Posted

LEMMA PersonIsWritten ==
    ASSUME NEW x \in Persons
    PROVE  /\ \A f \in ResumeTexts, text \in Texts : [x EXCEPT !.text[f] = text] \in Persons
           /\ \A f \in ResumeSections, rows \in BOOLEAN : [x EXCEPT !.section[f] = rows] \in Persons
           /\ \A skills \in SUBSET Talents, f \in ResumeSections, rows \in BOOLEAN :
                 [x EXCEPT !.skills = skills, !.section[f] = rows] \in Persons
           /\ \A available \in BOOLEAN : [x EXCEPT !.available = available] \in Persons
           /\ \A work \in {"unemployed", "employed"} : [x EXCEPT !.employment = work] \in Persons
           /\ \A status \in {"active", "blocked"} : [x EXCEPT !.account = status] \in Persons
<1>1. /\ x.account \in {"active", "blocked"} /\ x.text \in [ResumeTexts -> Texts]
      /\ x.available \in BOOLEAN /\ x.employment \in {"unknown", "unemployed", "employed"}
      /\ x.section \in [ResumeSections -> BOOLEAN] /\ x.skills \in SUBSET Talents
      /\ x = [account |-> x.account, text |-> x.text, available |-> x.available,
              employment |-> x.employment, section |-> x.section, skills |-> x.skills]
  BY DEF Persons
<1>2. ASSUME NEW f \in ResumeTexts, NEW text \in Texts
      PROVE  [x EXCEPT !.text[f] = text] \in Persons
  <2>1. [x.text EXCEPT ![f] = text] \in [ResumeTexts -> Texts]
    BY <1>1, RowIsWritten
  <2> QED
    BY <1>1, <2>1 DEF Persons
<1>3. ASSUME NEW f \in ResumeSections, NEW rows \in BOOLEAN
      PROVE  /\ [x EXCEPT !.section[f] = rows] \in Persons
             /\ \A skills \in SUBSET Talents :
                   [x EXCEPT !.skills = skills, !.section[f] = rows] \in Persons
  <2>1. [x.section EXCEPT ![f] = rows] \in [ResumeSections -> BOOLEAN]
    BY <1>1, RowIsWritten
  <2> QED
    BY <1>1, <2>1 DEF Persons
<1>4. /\ \A available \in BOOLEAN : [x EXCEPT !.available = available] \in Persons
      /\ \A work \in {"unemployed", "employed"} : [x EXCEPT !.employment = work] \in Persons
      /\ \A status \in {"active", "blocked"} : [x EXCEPT !.account = status] \in Persons
  BY <1>1 DEF Persons
<1> QED
  BY <1>2, <1>3, <1>4

LEMMA EditIsCounted ==
    ASSUME edits \in 0..MaxEdits, Commit
    PROVE  edits' \in 0..MaxEdits
BY DirectoryAssumption DEF Commit

LEMMA DirectoryTypeNext ==
    ASSUME DirectoryTypeOK, [DirectoryNext]_directoryVars
    PROVE  DirectoryTypeOK'
<1> USE DEF DirectoryTypeOK
<1>1. CASE UNCHANGED shown /\ UNCHANGED edits
  BY <1>1 DEF shown
<1>2. ASSUME NEW j \in Postings, EditPosting(j)
      PROVE  DirectoryTypeOK'
  <2>1. posting' \in [Postings -> Posted]
    <3>1. posting[j] \in Posted
      OBVIOUS
    <3>2. CASE \E skills \in (SUBSET Talents) \ {{}} :
                  posting' = [posting EXCEPT ![j].skills = skills]
      <4>1. PICK skills \in (SUBSET Talents) \ {{}} :
                    posting' = [posting EXCEPT ![j].skills = skills]
        BY <3>2
      <4> DEFINE x == [posting[j] EXCEPT !.skills = skills]
      <4>2. x \in Posted
        BY <3>1, PostingIsWritten DEF Posted
      <4>3. posting' = [posting EXCEPT ![j] = x]
        BY <4>1
      <4> HIDE DEF x
      <4> QED
        BY <4>2, <4>3, RowIsWritten
    <3>3. CASE posting' = [posting EXCEPT ![j].status = "closed"]
      <4> DEFINE x == [posting[j] EXCEPT !.status = "closed"]
      <4>2. x \in Posted
        BY <3>1 DEF Posted
      <4>3. posting' = [posting EXCEPT ![j] = x]
        BY <3>3
      <4> HIDE DEF x
      <4> QED
        BY <4>2, <4>3, RowIsWritten
    <3>4. CASE \E last \in date..LastDate :
                  posting' = [posting EXCEPT ![j].status = "published", ![j].closing = last]
      <4>1. PICK last \in date..LastDate :
                  posting' = [posting EXCEPT ![j].status = "published", ![j].closing = last]
        BY <3>4
      <4> DEFINE x == [posting[j] EXCEPT !.status = "published", !.closing = last]
      <4>2. last \in 0..LastDate
        BY DirectoryAssumption
      <4>3. x \in Posted
        BY <3>1, <4>2 DEF Posted
      <4>4. posting' = [posting EXCEPT ![j] = x]
        BY <4>1
      <4> HIDE DEF x
      <4> QED
        BY <4>3, <4>4, RowIsWritten
    <3> QED
      BY <1>2, <3>2, <3>3, <3>4 DEF EditPosting
  <2> QED
    BY <1>2, <2>1, EditIsCounted, DirectoryAssumption DEF EditPosting
<1>3. ASSUME NEW p \in EditedPeople, EditPerson(p)
      PROVE  DirectoryTypeOK'
  <2>1. p \in People /\ person[p] \in Persons
    BY DirectoryAssumption
  <2>2. \E x \in Persons : person' = [person EXCEPT ![p] = x]
    <3>1. CASE \E f \in EditedTexts, text \in Texts : person' = [person EXCEPT ![p].text[f] = text]
      <4>1. PICK f \in EditedTexts, text \in Texts :
                    person' = [person EXCEPT ![p].text[f] = text]
        BY <3>1
      <4>2. [person[p] EXCEPT !.text[f] = text] \in Persons
        BY <2>1, PersonIsWritten, DirectoryAssumption
      <4> QED
        BY <4>1, <4>2
    <3>2. CASE \E f \in {"experiences", "education"}, rows \in BOOLEAN :
                  person' = [person EXCEPT ![p].section[f] = rows]
      <4>1. PICK f \in {"experiences", "education"}, rows \in BOOLEAN :
                    person' = [person EXCEPT ![p].section[f] = rows]
        BY <3>2
      <4>2. f \in ResumeSections
        BY DEF ResumeSections
      <4>3. [person[p] EXCEPT !.section[f] = rows] \in Persons
        BY <2>1, <4>2, PersonIsWritten
      <4> QED
        BY <4>1, <4>3
    <3>3. CASE \E skills \in SUBSET Talents :
                  person' = [person EXCEPT ![p].skills = skills,
                                           ![p].section["skills"] = skills # {}]
      <4>1. PICK skills \in SUBSET Talents :
                  person' = [person EXCEPT ![p].skills = skills,
                                           ![p].section["skills"] = skills # {}]
        BY <3>3
      <4>2. "skills" \in ResumeSections /\ (skills # {}) \in BOOLEAN
        BY DEF ResumeSections
      <4>3. [person[p] EXCEPT !.skills = skills, !.section["skills"] = skills # {}] \in Persons
        BY <2>1, <4>2, PersonIsWritten, Zenon
      <4>4. person' = [person EXCEPT ![p] = [person[p] EXCEPT !.skills = skills,
                                                       !.section["skills"] = skills # {}]]
        BY <4>1, Zenon
      <4> QED
        BY <4>3, <4>4, Zenon
    <3>4. CASE \E available \in BOOLEAN : person' = [person EXCEPT ![p].available = available]
      BY <2>1, <3>4, PersonIsWritten
    <3>5. CASE \E work \in {"unemployed", "employed"} :
                  person' = [person EXCEPT ![p].employment = work]
      BY <2>1, <3>5, PersonIsWritten
    <3> QED
      BY <1>3, <3>1, <3>2, <3>3, <3>4, <3>5 DEF EditPerson
  <2>3. person' \in [People -> Persons]
    BY <2>1, <2>2, RowIsWritten
  <2> QED
    BY <1>3, <2>3, EditIsCounted DEF EditPerson
<1>4. ASSUME EditAccount
      PROVE  DirectoryTypeOK'
  <2>1. PICK status \in {"active", "blocked"} :
          \/ /\ \E p \in People : person' = [person EXCEPT ![p].account = status]
             /\ UNCHANGED firm
          \/ /\ \E f \in Firms : firm' = [firm EXCEPT ![f].account = status]
             /\ UNCHANGED person
    BY <1>4 DEF EditAccount
  <2>2. person' \in [People -> Persons]
    <3>1. CASE UNCHANGED person
      BY <3>1
    <3>2. ASSUME NEW p \in People, person' = [person EXCEPT ![p].account = status]
          PROVE  person' \in [People -> Persons]
      <4>1. [person[p] EXCEPT !.account = status] \in Persons
        BY PersonIsWritten
      <4> QED
        BY <3>2, <4>1, RowIsWritten
    <3> QED
      BY <2>1, <3>1, <3>2
  <2>3. firm' \in [Firms -> FirmStates]
    BY <2>1 DEF FirmStates
  <2> QED
    BY <1>4, <2>2, <2>3, EditIsCounted DEF EditAccount
<1>5. ASSUME NEW p \in People, NEW j \in Postings, MovePipeline(p, j)
      PROVE  DirectoryTypeOK'
  <2>1. <<p, j>> \in People \X Postings
    OBVIOUS
  <2>2. pipeline' \in [People \X Postings -> Stages]
    BY <1>5, <2>1 DEF MovePipeline, Stages
  <2> QED
    BY <1>5, <2>2, EditIsCounted DEF MovePipeline
<1>6. ASSUME NEW p \in People, RecordGuidance(p)
      PROVE  DirectoryTypeOK'
  BY <1>6, EditIsCounted DEF RecordGuidance
<1>7. ASSUME PassDate
      PROVE  DirectoryTypeOK'
  BY <1>7, EditIsCounted, DirectoryAssumption DEF PassDate
<1> QED
  <2>1. ASSUME NEW v \in Viewers,
               \/ SearchJobs(v) \/ ListMyApplications(v) \/ ListCompanyJobs(v)
               \/ ListProfessionals(v) \/ ListAccounts(v) \/ GetAccount(v)
               \/ GetPlatformIndicators(v) \/ ExportAccounts(v) \/ CloseView(v)
        PROVE  UNCHANGED shown /\ UNCHANGED edits
    BY <2>1 DEF SearchJobs, ListMyApplications, ListCompanyJobs, ListProfessionals, ListAccounts,
       GetAccount, GetPlatformIndicators, ExportAccounts, CloseView, Open, Take
  <2> QED
    BY <1>1, <1>2, <1>3, <1>4, <1>5, <1>6, <1>7, <2>1 DEF DirectoryNext, directoryVars

-----------------------------------------------------------------------------
\* The rules that are written twice.

\* The six fields of a complete résumé, and what is missing of them.
LEMMA ResumeFieldsCount == IsFiniteSet(ResumeFields) /\ Cardinality(ResumeFields) = 6
<1> DEFINE A == {"city"}
           B == A \cup {"state"}
           C == B \cup {"summary"}
           D == C \cup {"experiences"}
           E == D \cup {"education"}
           F == E \cup {"skills"}
<1>1. IsFiniteSet(A) /\ Cardinality(A) = 1
  BY FS_Singleton
<1>2. IsFiniteSet(B) /\ Cardinality(B) = 2
  <2>1. "state" \notin A
    OBVIOUS
  <2> HIDE DEF A
  <2> QED
    BY <1>1, <2>1, FS_AddElement
<1>3. IsFiniteSet(C) /\ Cardinality(C) = 3
  <2>1. "summary" \notin B
    OBVIOUS
  <2> HIDE DEF B
  <2> QED
    BY <1>2, <2>1, FS_AddElement
<1>4. IsFiniteSet(D) /\ Cardinality(D) = 4
  <2>1. "experiences" \notin C
    OBVIOUS
  <2> HIDE DEF C
  <2> QED
    BY <1>3, <2>1, FS_AddElement
<1>5. IsFiniteSet(E) /\ Cardinality(E) = 5
  <2>1. "education" \notin D
    OBVIOUS
  <2> HIDE DEF D
  <2> QED
    BY <1>4, <2>1, FS_AddElement
<1>6. IsFiniteSet(F) /\ Cardinality(F) = 6
  <2>1. "skills" \notin E
    OBVIOUS
  <2> HIDE DEF E
  <2> QED
    BY <1>5, <2>1, FS_AddElement
<1>7. F = ResumeFields
  BY DEF ResumeFields, ResumeTexts, ResumeSections
<1> HIDE DEF F
<1> QED
  BY <1>6, <1>7

\* The completeness that SQL filters by, the fields that Python finds missing and
\* the percentage that a candidate is shown say the same of every résumé.
THEOREM CompletenessAgrees ==
    ASSUME NEW text \in [ResumeTexts -> Texts], NEW section \in [ResumeSections -> BOOLEAN]
    PROVE  LET missing == MissingResumeFields(text, section) IN
           /\ ResumeIsComplete(text, section) <=> missing = {}
           /\ ResumeCompletionPercentage(missing) \in 0..100
           /\ missing = {} <=> ResumeCompletionPercentage(missing) = 100
<1> DEFINE missing == MissingResumeFields(text, section)
<1>1. ResumeIsComplete(text, section) <=> missing = {}
  <2>1. \A f \in ResumeTexts : TrimmedLength(text[f]) > 0 <=> text[f] = "given"
    BY DEF TrimmedLength
  <2> QED
    BY <2>1, Zenon DEF ResumeIsComplete, MissingResumeFields
<1>2. missing \in SUBSET ResumeFields
  BY DEF MissingResumeFields, ResumeFields
<1> HIDE DEF missing
<1>3. IsFiniteSet(missing) /\ Cardinality(missing) \in 0..6
  <2>1. IsFiniteSet(missing) /\ Cardinality(missing) <= Cardinality(ResumeFields)
    BY <1>2, ResumeFieldsCount, FS_Subset
  <2> QED
    BY <2>1, ResumeFieldsCount, FS_CardinalityType
<1>4. missing = {} <=> Cardinality(missing) = 0
  BY <1>3, FS_EmptySet
<1>5. ResumeCompletionPercentage(missing) = ((6 - Cardinality(missing)) * 200 + 6) \div 12
  BY ResumeFieldsCount DEF ResumeCompletionPercentage
<1>6. /\ ResumeCompletionPercentage(missing) \in 0..100
      /\ Cardinality(missing) = 0 <=> ResumeCompletionPercentage(missing) = 100
  BY <1>3, <1>5
<1> QED
  BY <1>1, <1>4, <1>6 DEF missing

\* The orders of the search and of the suggestions: more skills in common first.
MoreInCommon(skills) ==
    LET common(j) == Cardinality(posting[j].skills \cap skills)
    IN  {x \in Postings \X Postings :
            \/ common(x[1]) > common(x[2])
            \/ common(x[1]) = common(x[2]) /\ x[1] < x[2]}

LEMMA PostedSkills ==
    ASSUME DirectoryTypeOK, NEW j \in Postings
    PROVE  /\ posting[j].skills \in SUBSET Talents /\ IsFiniteSet(posting[j].skills)
           /\ Cardinality(posting[j].skills) \in Nat
           /\ \A skills : /\ IsFiniteSet(posting[j].skills \cap skills)
                          /\ Cardinality(posting[j].skills \cap skills) \in Nat
<1>1. posting[j].skills \in SUBSET Talents
  BY DEF DirectoryTypeOK, Posted
<1>2. IsFiniteSet(posting[j].skills)
  BY <1>1, FS_Subset, DirectoryAssumption
<1>3. ASSUME NEW skills
      PROVE  IsFiniteSet(posting[j].skills \cap skills)
  BY <1>2, FS_Subset
<1> QED
  BY <1>1, <1>2, <1>3, FS_CardinalityType

LEMMA MoreInCommonIsAnOrder ==
    ASSUME DirectoryTypeOK, NEW skills, NEW S \in SUBSET Postings
    PROVE  IsStrictOrder(MoreInCommon(skills), S)
<1> DEFINE common == [j \in Postings |-> Cardinality(posting[j].skills \cap skills)]
<1>1. common \in [Postings -> Nat]
  BY PostedSkills
<1>2. \A x, y \in Postings : <<x, y>> \in MoreInCommon(skills) <=>
         \/ common[x] > common[y]
         \/ common[x] = common[y] /\ x < y
  BY DEF MoreInCommon
<1>3. Postings \subseteq Nat
  BY DirectoryAssumption
<1> HIDE DEF common
<1>4. \A x \in S : <<x, x>> \notin MoreInCommon(skills)
  BY <1>1, <1>2, <1>3
<1>5. ASSUME NEW x \in S, NEW y \in S, x # y
      PROVE  <<x, y>> \in MoreInCommon(skills) \/ <<y, x>> \in MoreInCommon(skills)
  <2>1. /\ common[x] \in Nat /\ common[y] \in Nat /\ x \in Nat /\ y \in Nat
        /\ x \in Postings /\ y \in Postings
    BY <1>1, <1>3
  <2>2. common[x] > common[y] \/ common[y] > common[x] \/ common[x] = common[y]
    BY <2>1
  <2>3. x < y \/ y < x
    BY <1>5, <2>1
  <2> QED
    BY <1>2, <2>1, <2>2, <2>3
<1>6. ASSUME NEW x \in S, NEW y \in S, NEW z \in S,
             <<x, y>> \in MoreInCommon(skills), <<y, z>> \in MoreInCommon(skills)
      PROVE  <<x, z>> \in MoreInCommon(skills)
  <2>1. /\ common[x] \in Nat /\ common[y] \in Nat /\ common[z] \in Nat
        /\ x \in Nat /\ y \in Nat /\ z \in Nat
        /\ x \in Postings /\ y \in Postings /\ z \in Postings
    BY <1>1, <1>3
  <2>2. /\ common[x] > common[y] \/ (common[x] = common[y] /\ x < y)
        /\ common[y] > common[z] \/ (common[y] = common[z] /\ y < z)
    BY <1>2, <1>6, <2>1
  <2>3. common[x] > common[z] \/ (common[x] = common[z] /\ x < z)
    BY <2>1, <2>2
  <2> QED
    BY <1>2, <2>1, <2>3
<1> QED
  BY <1>4, <1>5, <1>6 DEF IsStrictOrder

\* The rows of a page are the elements of its set from the offset on, in order.
LEMMA PageRows ==
    ASSUME NEW S, IsFiniteSet(S), NEW before, IsStrictOrder(before, S),
           NEW offset \in Nat, NEW limit \in Nat
    PROVE  LET rows == Rows(S, before, offset, limit) IN
           /\ rows \in Seq(S) /\ DOMAIN rows = 1..Len(rows) /\ Len(rows) \in Nat
           /\ \A i \in DOMAIN rows : rows[i] \in S
           /\ \A i, j \in DOMAIN rows : i < j => <<rows[i], rows[j]>> \in before
           /\ \A i, j \in DOMAIN rows : i # j => rows[i] # rows[j]
           /\ Len(rows) <= limit
           /\ rows = <<>> \/ offset + Len(rows) <= Cardinality(S)
<1> DEFINE order == InOrder(S, before)
           n == Cardinality(S)
           m == IF n < offset + limit THEN n ELSE offset + limit
           first == First(order, offset + limit)
           rows == Rows(S, before, offset, limit)
<1>1. /\ n \in Nat /\ order \in [1..n -> S]
      /\ \A i, j \in 1..n : i < j => <<order[i], order[j]>> \in before
  BY InOrderLists
<1>2. order \in Seq(S) /\ Len(order) = n
  BY <1>1
<1> HIDE DEF order, n
<1>3. m \in Nat /\ m <= n /\ m <= offset + limit
  BY <1>1
<1>4. first = SubSeq(order, 1, m)
  BY <1>2 DEF First
<1> HIDE DEF first, m
<1>5. first \in Seq(S) /\ Len(first) = m /\ \A i \in 1..m : first[i] = order[i]
  BY <1>2, <1>3, <1>4
<1>6. rows = SubSeq(first, offset + 1, m)
  BY <1>5 DEF Rows, first, order, n
<1> HIDE DEF rows
<1>7. /\ rows \in Seq(S)
      /\ Len(rows) = (IF offset < m THEN m - offset ELSE 0)
      /\ \A i \in 1..Len(rows) : rows[i] = first[offset + i]
  <2>1. CASE offset < m
    <3>1. offset + 1 \in 1..Len(first) /\ m \in (offset + 1)..Len(first)
      BY <1>3, <1>5, <2>1
    <3>2. /\ rows \in Seq(S) /\ Len(rows) = m - (offset + 1) + 1
          /\ \A i \in 1..(m - (offset + 1) + 1) : rows[i] = first[(offset + 1) + i - 1]
      BY <1>3, <1>5, <1>6, <3>1, SubSeqProperties
    <3>3. /\ m - (offset + 1) + 1 = m - offset
          /\ \A i \in 1..(m - offset) : (offset + 1) + i - 1 = offset + i
      BY <1>3
    <3>4. Len(rows) = m - offset /\ \A i \in 1..(m - offset) : rows[i] = first[offset + i]
      BY <3>2, <3>3
    <3> QED
      BY <2>1, <3>2, <3>4
  <2>2. CASE ~ (offset < m)
    <3>1. rows = <<>>
      BY <1>3, <1>5, <1>6, <2>2
    <3> QED
      BY <2>2, <3>1
  <2> QED
    BY <2>1, <2>2
<1>8. DOMAIN rows = 1..Len(rows) /\ Len(rows) \in Nat
  BY <1>7
<1>9. \A i \in DOMAIN rows : offset + i \in 1..m /\ rows[i] = order[offset + i] /\ rows[i] \in S
  BY <1>1, <1>3, <1>5, <1>7, <1>8
<1>10. \A i, j \in DOMAIN rows : i < j => <<rows[i], rows[j]>> \in before
  BY <1>1, <1>3, <1>8, <1>9
<1>11. \A i, j \in DOMAIN rows : i # j => rows[i] # rows[j]
  <2> SUFFICES ASSUME NEW i \in DOMAIN rows, NEW j \in DOMAIN rows, i # j
               PROVE  rows[i] # rows[j]
    OBVIOUS
  <2>1. <<rows[i], rows[j]>> \in before \/ <<rows[j], rows[i]>> \in before
    BY <1>8, <1>10
  <2> QED
    BY <1>9, <2>1 DEF IsStrictOrder
<1>12. Len(rows) <= limit /\ (rows = <<>> \/ offset + Len(rows) <= n)
  BY <1>1, <1>3, <1>7
<1> QED
  BY <1>7, <1>8, <1>9, <1>10, <1>11, <1>12 DEF rows, n

\* A suggestion is open, its publisher is not blocked, and nobody is told to apply
\* where they already have.
LEMMA SimilarJobsAre ==
    ASSUME DirectoryTypeOK, NEW p, NEW j \in Postings
    PROVE  \A i \in DOMAIN SimilarJobs(p, j) :
               /\ SimilarJobs(p, j)[i] \in Postings
               /\ ~ HasPipeline(p, SimilarJobs(p, j)[i])
               /\ IsOpen(SimilarJobs(p, j)[i])
<1> DEFINE similar == {k \in Postings \ {j} : /\ posting[k].skills \cap posting[j].skills # {}
                                              /\ ~ HasPipeline(p, k)
                                              /\ IsOpen(k) /\ PublisherIsNotBlocked(k)}
           before == MoreInCommon(posting[j].skills)
<1>1. SimilarJobs(p, j) = Rows(similar, before, 0, SimilarityLimit)
  BY DEF SimilarJobs, MoreInCommon
<1>2. similar \in SUBSET Postings /\ IsFiniteSet(similar)
  BY FS_Subset, DirectoryAssumption
<1>3. IsStrictOrder(before, similar)
  BY <1>2, MoreInCommonIsAnOrder
<1>4. \A k \in similar : k \in Postings /\ ~ HasPipeline(p, k) /\ IsOpen(k)
  OBVIOUS
<1>5. SimilarityLimit \in Nat
  BY DEF SimilarityLimit
<1> HIDE DEF similar, before
<1>6. \A i \in DOMAIN SimilarJobs(p, j) : SimilarJobs(p, j)[i] \in similar
  BY <1>1, <1>2, <1>3, <1>5, PageRows
<1> QED
  BY <1>4, <1>6

\* Every query that is written twice says the same both times, in any database.
LEMMA RulesAlwaysAgree ==
    ASSUME DirectoryTypeOK
    PROVE  RulesAgree
<1>1. ASSUME NEW p \in People
      PROVE  /\ ResumeComplete(p) <=> MissingFields(p) = {}
             /\ MissingFields(p) = {} <=> ResumeCompletionPercentage(MissingFields(p)) = 100
  <2>1. person[p].text \in [ResumeTexts -> Texts] /\ person[p].section \in [ResumeSections -> BOOLEAN]
    BY DEF DirectoryTypeOK, Persons
  <2> QED
    BY <2>1, CompletenessAgrees DEF ResumeComplete, MissingFields
<1>2. ASSUME NEW p \in People, NEW j \in Postings
      PROVE  j \in OpenJobs <=> JobIsFound(j) /\ JobDetail(p, j).open
  BY DEF OpenJobs, JobIsFound, JobDetail
<1>3. ASSUME NEW p \in People, NEW k \in Postings, NEW i \in DOMAIN SimilarJobs(p, k)
      PROVE  /\ SimilarJobs(p, k)[i] \in Postings
             /\ JobDetail(p, SimilarJobs(p, k)[i]).applicable
  BY SimilarJobsAre DEF JobDetail
<1>4. ASSUME NEW p \in People, NEW j \in Postings
      PROVE  p \in AutomaticMatches(j) /\ IsOpen(j)
                /\ firm[FirmOf[j]] = [account |-> "active", approved |-> TRUE]
             <=> <<p, j>> \in Matches /\ person[p].available /\ ~ HasPipeline(p, j)
  <2> DEFINE required == posting[j].skills
             skills == person[p].skills
             firmOf == firm[FirmOf[j]]
  <2>1. /\ IsFiniteSet(required) /\ IsFiniteSet(required \cap skills)
        /\ Cardinality(required \cap skills) \in Nat /\ Cardinality(required) \in Nat
    BY PostedSkills
  <2>2. firmOf = [account |-> "active", approved |-> TRUE]
           <=> firmOf.approved /\ firmOf.account = "active"
    <3>1. firmOf \in FirmStates
      BY DirectoryAssumption DEF DirectoryTypeOK
    <3> HIDE DEF firmOf
    <3> QED
      BY <3>1 DEF FirmStates
  <2>3. required \cap skills # {} <=> Cardinality(required \cap skills) > 0
    BY <2>1, FS_EmptySet
  <2>4. skills \cap required = required \cap skills
    OBVIOUS
  <2>5. /\ MatchedCount(Score(required, skills)) = Cardinality(required \cap skills)
        /\ RequiredCount(Score(required, skills)) = Cardinality(required)
    BY <2>1, ScoreCounts DEF MatchedCount, Score
  <2>6. IsAutomaticMatch(Score(required, skills))
           <=> Cardinality(required \cap skills) * 100 >= HighlightThreshold * Cardinality(required)
    BY <2>5 DEF IsAutomaticMatch, IsHighlighted, Reaches
  <2>7. p \in AutomaticMatches(j) <=>
           /\ person[p].account = "active" /\ person[p].available
           /\ ~ HasPipeline(p, j)
           /\ required \cap skills # {}
           /\ IsAutomaticMatch(Score(required, skills))
    BY <2>4 DEF AutomaticMatches
  <2>8. <<p, j>> \in Matches <=>
           /\ posting[j].status = "published" /\ posting[j].closing >= date
           /\ firmOf.approved /\ firmOf.account = "active"
           /\ person[p].account = "active"
           /\ Cardinality(required \cap skills) > 0
           /\ Cardinality(required \cap skills) * 100 >= HighlightThreshold * Cardinality(required)
    BY <2>4 DEF Matches
  <2> HIDE DEF required, skills, firmOf
  <2>9. IsOpen(j) <=> posting[j].status = "published" /\ posting[j].closing >= date
    BY DEF IsOpen
  <2>10. firm[FirmOf[j]] = firmOf
    BY DEF firmOf
  <2> QED
    BY <2>2, <2>3, <2>6, <2>7, <2>8, <2>9, <2>10
<1> QED
  BY <1>1, <1>2, <1>3, <1>4 DEF RulesAgree

-----------------------------------------------------------------------------
\* What a request holds: the answers of its statements so far.

RequestFields == {"view", "who", "offset", "filter", "got", "disturbed"}
IsRequest(w) ==
    /\ DOMAIN w = RequestFields
    /\ Len(w.got) \in Nat /\ HasLength(w.got, Len(w.got))
    /\ w.view # "none" => Len(w.got) > 0
Requests ==
    /\ viewer = [v \in Viewers |-> viewer[v]]
    /\ \A v \in Viewers : IsRequest(viewer[v])

IsOpened(w, view, who, offset, filter, first) ==
    /\ IsRequest(w) /\ w.view = view /\ w.who = who /\ w.offset = offset /\ w.filter = filter
    /\ Len(w.got) = 1 /\ w.got[1] = first
IsTaken(w, q, view, step, value) ==
    /\ IsRequest(w) /\ q.view = view /\ w.view = view /\ w.who = q.who /\ w.offset = q.offset
    /\ w.filter = q.filter /\ w.disturbed = q.disturbed
    /\ Len(q.got) = step - 1 /\ Len(w.got) = step
    /\ \A i \in 1..(step - 1) : w.got[i] = q.got[i]
    /\ w.got[step] = value
IsDisturbed(w, q) ==
    /\ IsRequest(w) /\ w.view = q.view /\ w.who = q.who /\ w.offset = q.offset
    /\ w.filter = q.filter /\ w.got = q.got
    /\ q.view # "none" => w.disturbed

LEMMA NoViewIsARequest == IsRequest(NoView) /\ NoView.view = "none"
<1>1. Len(<<>>) = 0 /\ <<>> = [i \in 1..0 |-> <<>>[i]]
  OBVIOUS
<1>2. DOMAIN NoView = RequestFields /\ NoView.got = <<>> /\ NoView.view = "none"
  BY Zenon DEF NoView, RequestFields
<1> QED
  BY <1>1, <1>2 DEF IsRequest, HasLength

LEMMA OneRead == ASSUME NEW x PROVE HasLength(<<x>>, 1) /\ Len(<<x>>) = 1 /\ <<x>>[1] = x
BY DEF HasLength

LEMMA MoreRead ==
    ASSUME NEW s, Len(s) \in Nat, HasLength(s, Len(s)), NEW x
    PROVE  /\ Len(Append(s, x)) = Len(s) + 1 /\ HasLength(Append(s, x), Len(s) + 1)
           /\ \A i \in 1..Len(s) : Append(s, x)[i] = s[i]
           /\ Append(s, x)[Len(s) + 1] = x
<1> DEFINE n == Len(s)
           S == {s[i] : i \in 1..n} \cup {x}
<1>1. s \in [1..n -> S]
  BY DEF HasLength
<1>2. x \in S
  OBVIOUS
<1> HIDE DEF S
<1>3. s \in Seq(S)
  BY <1>1
<1>4. /\ Append(s, x) \in Seq(S) /\ Len(Append(s, x)) = n + 1
      /\ \A i \in 1..n : Append(s, x)[i] = s[i]
      /\ Append(s, x)[n + 1] = x
  BY <1>2, <1>3, AppendProperties
<1>5. Append(s, x) = [i \in 1..(n + 1) |-> Append(s, x)[i]]
  BY <1>4, LenProperties
<1> QED
  BY <1>4, <1>5 DEF HasLength

LEMMA OpenReads ==
    ASSUME Requests, NEW v \in Viewers, NEW view, view # "none", NEW who, NEW offset, NEW filter,
           NEW first, Open(v, view, who, offset, filter, first)
    PROVE  /\ Requests' /\ UNCHANGED <<shown, exported, edits>>
           /\ \A u \in Viewers \ {v} : viewer'[u] = viewer[u]
           /\ IsOpened(viewer'[v], view, who, offset, filter, first)
<1> DEFINE got == <<first>>
           w == [NoView EXCEPT !.view = view, !.who = who, !.offset = offset,
                               !.filter = filter, !.got = got]
<1>1. viewer' = [viewer EXCEPT ![v] = w] /\ UNCHANGED <<shown, exported, edits>>
  BY Zenon DEF Open
<1>2. HasLength(got, 1) /\ Len(got) = 1 /\ got[1] = first
  BY OneRead
<1> HIDE DEF got
<1>3. /\ DOMAIN w = RequestFields /\ w.view = view /\ w.who = who /\ w.offset = offset
      /\ w.filter = filter /\ w.got = got
  BY DEF NoView, RequestFields
<1> HIDE DEF w
<1>4. IsOpened(w, view, who, offset, filter, first) /\ IsRequest(w)
  <2>1. Len(w.got) = 1 /\ HasLength(w.got, 1) /\ w.got[1] = first
    BY <1>2, <1>3
  <2>2. IsRequest(w)
    BY <1>3, <2>1 DEF IsRequest
  <2> QED
    BY <1>3, <2>1, <2>2 DEF IsOpened
<1>5. viewer = [u \in Viewers |-> viewer[u]] /\ \A u \in Viewers : IsRequest(viewer[u])
  BY DEF Requests
<1>6. /\ viewer' = [u \in Viewers |-> viewer'[u]] /\ viewer'[v] = w
      /\ \A u \in Viewers \ {v} : viewer'[u] = viewer[u]
  BY <1>1, <1>5
<1>7. \A u \in Viewers : IsRequest(viewer'[u])
  BY <1>4, <1>5, <1>6
<1> QED
  BY <1>1, <1>4, <1>6, <1>7 DEF Requests

LEMMA TakeReads ==
    ASSUME Requests, NEW v \in Viewers, NEW view, NEW step \in Nat, NEW value,
           viewer[v].view = view, Len(viewer[v].got) = step - 1,
           viewer' = [viewer EXCEPT ![v].got = Append(@, value)]
    PROVE  /\ Requests'
           /\ \A u \in Viewers \ {v} : viewer'[u] = viewer[u]
           /\ IsTaken(viewer'[v], viewer[v], view, step, value)
<1> DEFINE q == viewer[v]
           got == Append(q.got, value)
           w == [q EXCEPT !.got = got]
<1>1. viewer = [u \in Viewers |-> viewer[u]] /\ \A u \in Viewers : IsRequest(viewer[u])
  BY DEF Requests
<1>2. IsRequest(q)
  BY <1>1
<1>3. viewer' = [viewer EXCEPT ![v] = w]
  BY <1>1
<1> HIDE DEF q, got
<1>4. DOMAIN q = RequestFields
  BY <1>2 DEF IsRequest
<1>5. /\ DOMAIN w = RequestFields /\ w.view = q.view /\ w.who = q.who /\ w.offset = q.offset
      /\ w.filter = q.filter /\ w.disturbed = q.disturbed /\ w.got = got
  BY <1>4 DEF RequestFields
<1> HIDE DEF w
<1>8. q.view = view /\ Len(q.got) = step - 1
  BY DEF q
<1>9. /\ Len(w.got) = step /\ HasLength(w.got, step)
      /\ \A i \in 1..(step - 1) : w.got[i] = q.got[i]
      /\ w.got[step] = value
  <2>1. Len(q.got) \in Nat /\ HasLength(q.got, Len(q.got)) /\ Len(q.got) + 1 = step
    BY <1>2, <1>8 DEF IsRequest
  <2> QED
    BY <1>5, <1>8, <2>1, MoreRead DEF got
<1>10. step > 0
  BY <1>2, <1>8 DEF IsRequest
<1>11. IsRequest(w)
  BY <1>5, <1>9, <1>10 DEF IsRequest
<1>12. /\ viewer' = [u \in Viewers |-> viewer'[u]] /\ viewer'[v] = w
       /\ \A u \in Viewers \ {v} : viewer'[u] = viewer[u]
  BY <1>1, <1>3
<1>13. \A u \in Viewers : IsRequest(viewer'[u])
  BY <1>1, <1>11, <1>12
<1> QED
  BY <1>5, <1>8, <1>9, <1>11, <1>12, <1>13 DEF Requests, IsTaken, q

LEMMA CommitDisturbs ==
    ASSUME Requests, Commit
    PROVE  /\ Requests' /\ UNCHANGED exported
           /\ \A v \in Viewers : IsDisturbed(viewer'[v], viewer[v])
<1>1. \A u \in Viewers : IsRequest(viewer[u])
  BY DEF Requests
<1>2. /\ viewer' = [v \in Viewers |-> IF viewer[v].got = <<>> THEN viewer[v]
                                      ELSE [viewer[v] EXCEPT !.disturbed = TRUE]]
      /\ UNCHANGED exported
  BY Zenon DEF Commit
<1>3. viewer' = [v \in Viewers |-> viewer'[v]]
  BY <1>2
<1>4. ASSUME NEW v \in Viewers
      PROVE  IsDisturbed(viewer'[v], viewer[v])
  <2> DEFINE q == viewer[v]
             w == [q EXCEPT !.disturbed = TRUE]
  <2>1. IsRequest(q) /\ DOMAIN q = RequestFields
    BY <1>1 DEF IsRequest
  <2>2. viewer'[v] = IF q.got = <<>> THEN q ELSE w
    BY <1>2, Zenon
  <2> HIDE DEF q
  <2>3. CASE q.got = <<>>
    <3>1. q.view = "none"
      BY <2>1, <2>3 DEF IsRequest
    <3> QED
      BY <2>1, <2>2, <2>3, <3>1 DEF IsDisturbed, q
  <2>4. CASE q.got # <<>>
    <3>1. /\ DOMAIN w = RequestFields /\ w.view = q.view /\ w.who = q.who
          /\ w.offset = q.offset /\ w.filter = q.filter /\ w.got = q.got
      BY <2>1 DEF RequestFields
    <3>2. w.disturbed
      BY <2>1 DEF RequestFields
    <3>3. viewer'[v] = w
      BY <2>2, <2>4, Zenon
    <3> HIDE DEF w
    <3>4. IsRequest(w)
      BY <2>1, <3>1 DEF IsRequest
    <3> QED
      BY <3>1, <3>2, <3>3, <3>4 DEF IsDisturbed, q
  <2> QED
    BY <2>3, <2>4
<1> QED
  BY <1>2, <1>3, <1>4 DEF Requests, IsDisturbed

LEMMA CloseReads ==
    ASSUME Requests, NEW v \in Viewers, CloseView(v)
    PROVE  /\ Requests' /\ UNCHANGED <<shown, exported, edits>>
           /\ \A u \in Viewers \ {v} : viewer'[u] = viewer[u]
           /\ viewer'[v].view = "none"
<1>1. viewer = [u \in Viewers |-> viewer[u]] /\ \A u \in Viewers : IsRequest(viewer[u])
  BY DEF Requests
<1>2. viewer' = [viewer EXCEPT ![v] = NoView] /\ UNCHANGED <<shown, exported, edits>>
  BY DEF CloseView
<1>3. /\ viewer' = [u \in Viewers |-> viewer'[u]] /\ viewer'[v] = NoView
      /\ \A u \in Viewers \ {v} : viewer'[u] = viewer[u]
  BY <1>1, <1>2
<1>4. \A u \in Viewers : IsRequest(viewer'[u])
  BY <1>1, <1>3, NoViewIsARequest
<1> QED
  BY <1>2, <1>3, <1>4, NoViewIsARequest DEF Requests

-----------------------------------------------------------------------------
\* The statements of each view.  While one of them runs nothing else commits, and
\* no other request reads.

Settles(v) ==
    /\ Requests' /\ UNCHANGED shown /\ exported \subseteq exported'
    /\ \A u \in Viewers \ {v} : viewer'[u] = viewer[u]

LEMMA OpenSettles ==
    ASSUME Requests, NEW v \in Viewers, NEW view, view # "none", NEW who, NEW offset, NEW filter,
           NEW first, Open(v, view, who, offset, filter, first)
    PROVE  Settles(v) /\ IsOpened(viewer'[v], view, who, offset, filter, first)
BY OpenReads DEF Settles

LEMMA TakeSettles ==
    ASSUME Requests, NEW v \in Viewers, NEW view, NEW step \in Nat, NEW value,
           Take(v, view, step, value)
    PROVE  Settles(v) /\ IsTaken(viewer'[v], viewer[v], view, step, value)
<1>1. /\ viewer[v].view = view /\ Len(viewer[v].got) = step - 1
      /\ viewer' = [viewer EXCEPT ![v].got = Append(@, value)]
      /\ UNCHANGED <<shown, exported>>
  BY DEF Take
<1> QED
  BY <1>1, TakeReads DEF Settles

SearchReads(v) ==
    LET q == viewer[v] IN
    \/ \E p \in People, offset \in 0..1 :
          IsOpened(viewer'[v], "search", p, offset, "any", person[p].skills)
    \/ IsTaken(viewer'[v], q, "search", 2, SearchPage(q.got[1], q.offset))
    \/ IsTaken(viewer'[v], q, "search", 3, RequiredSkills(Members(q.got[2])))

LEMMA SearchJobsReads ==
    ASSUME Requests, NEW v \in Viewers, SearchJobs(v)
    PROVE  Settles(v) /\ SearchReads(v)
<1> DEFINE q == viewer[v]
<1>1. \/ \E p \in People, offset \in 0..1 :
            Open(v, "search", p, offset, "any", person[p].skills)
      \/ Take(v, "search", 2, SearchPage(q.got[1], q.offset))
      \/ Take(v, "search", 3, RequiredSkills(Members(q.got[2])))
  BY Zenon DEF SearchJobs, Members
<1>2. CASE \E p \in People, offset \in 0..1 :
              Open(v, "search", p, offset, "any", person[p].skills)
  BY <1>2, OpenSettles DEF SearchReads
<1>3. CASE Take(v, "search", 2, SearchPage(q.got[1], q.offset))
  BY <1>3, TakeSettles DEF SearchReads
<1>4. CASE Take(v, "search", 3, RequiredSkills(Members(q.got[2])))
  BY <1>4, TakeSettles DEF SearchReads
<1> QED
  BY <1>1, <1>2, <1>3, <1>4

NotSelected(rows) == {r.job : r \in {x \in rows : x.status = "not_selected"}}
Suggestion(p, j) == [job |-> j, similar |-> SimilarJobs(p, j)]

ApplicationsRead(v) ==
    LET q == viewer[v] IN
    \/ \E p \in People : IsOpened(viewer'[v], "applications", p, 0, "any", MyApplications(p))
    \/ \E j \in NotSelected(q.got[1]) :
          IsTaken(viewer'[v], q, "applications", Len(q.got) + 1, Suggestion(q.who, j))

LEMMA ListMyApplicationsReads ==
    ASSUME Requests, NEW v \in Viewers, ListMyApplications(v)
    PROVE  Settles(v) /\ ApplicationsRead(v)
<1> DEFINE q == viewer[v]
<1>1. \/ \E p \in People : Open(v, "applications", p, 0, "any", MyApplications(p))
      \/ \E j \in NotSelected(q.got[1]) :
            Take(v, "applications", Len(q.got) + 1, Suggestion(q.who, j))
  BY Zenon DEF ListMyApplications, Suggestion, NotSelected
<1>2. CASE \E p \in People : Open(v, "applications", p, 0, "any", MyApplications(p))
  BY <1>2, OpenSettles DEF ApplicationsRead
<1>3. CASE \E j \in NotSelected(q.got[1]) :
              Take(v, "applications", Len(q.got) + 1, Suggestion(q.who, j))
  <2>1. PICK j \in NotSelected(q.got[1]) :
               Take(v, "applications", Len(q.got) + 1, Suggestion(q.who, j))
    BY <1>3
  <2>2. Len(q.got) + 1 \in Nat
    BY DEF Requests, IsRequest
  <2>3. Settles(v) /\ IsTaken(viewer'[v], q, "applications", Len(q.got) + 1, Suggestion(q.who, j))
    BY <2>1, <2>2, TakeSettles
  <2> QED
    BY <2>1, <2>3 DEF ApplicationsRead
<1> QED
  BY <1>1, <1>2, <1>3

JobsRead(v) ==
    LET q == viewer[v] IN
    \/ \E f \in Firms : IsOpened(viewer'[v], "jobs", 0, 0, "any", CompanyJobs(f))
    \/ IsTaken(viewer'[v], q, "jobs", 2, RequiredSkills(q.got[1]))
    \/ IsTaken(viewer'[v], q, "jobs", 3, ApplicationCounts(q.got[1]))

LEMMA ListCompanyJobsReads ==
    ASSUME Requests, NEW v \in Viewers, ListCompanyJobs(v)
    PROVE  Settles(v) /\ JobsRead(v)
<1> DEFINE q == viewer[v]
<1>1. \/ \E f \in Firms : Open(v, "jobs", 0, 0, "any", CompanyJobs(f))
      \/ Take(v, "jobs", 2, RequiredSkills(q.got[1]))
      \/ Take(v, "jobs", 3, ApplicationCounts(q.got[1]))
  BY Zenon DEF ListCompanyJobs
<1>2. CASE \E f \in Firms : Open(v, "jobs", 0, 0, "any", CompanyJobs(f))
  BY <1>2, OpenSettles DEF JobsRead
<1>3. CASE Take(v, "jobs", 2, RequiredSkills(q.got[1]))
  BY <1>3, TakeSettles DEF JobsRead
<1>4. CASE Take(v, "jobs", 3, ApplicationCounts(q.got[1]))
  BY <1>4, TakeSettles DEF JobsRead
<1> QED
  BY <1>1, <1>2, <1>3, <1>4

ProfessionalsRead(v) ==
    LET q == viewer[v] IN
    \/ \E filter \in {"complete", "incomplete", "contacted", "not_contacted"}, offset \in 0..1 :
          IsOpened(viewer'[v], "professionals", 0, offset, filter, ProfessionalPage(filter, offset))
    \/ IsTaken(viewer'[v], q, "professionals", 2, guided \cap Members(q.got[1]))

LEMMA ListProfessionalsReads ==
    ASSUME Requests, NEW v \in Viewers, ListProfessionals(v)
    PROVE  Settles(v) /\ ProfessionalsRead(v)
<1> DEFINE q == viewer[v]
<1>1. \/ \E filter \in {"complete", "incomplete", "contacted", "not_contacted"}, offset \in 0..1 :
            Open(v, "professionals", 0, offset, filter, ProfessionalPage(filter, offset))
      \/ Take(v, "professionals", 2, guided \cap Members(q.got[1]))
  BY Zenon DEF ListProfessionals, Members
<1>2. CASE \E filter \in {"complete", "incomplete", "contacted", "not_contacted"}, offset \in 0..1 :
              Open(v, "professionals", 0, offset, filter, ProfessionalPage(filter, offset))
  BY <1>2, OpenSettles DEF ProfessionalsRead
<1>3. CASE Take(v, "professionals", 2, guided \cap Members(q.got[1]))
  BY <1>3, TakeSettles DEF ProfessionalsRead
<1> QED
  BY <1>1, <1>2, <1>3

AccountFilters == {"complete", "incomplete", "active", "blocked"}
AccountsRead(v) ==
    LET q == viewer[v] IN
    \/ \E filter \in AccountFilters, offset \in 0..1 :
          IsOpened(viewer'[v], "accounts", 0, offset, filter, AccountSummaries(filter, offset))
    \/ IsTaken(viewer'[v], q, "accounts", 2, Cardinality(FilteredCandidates(q.filter)))

LEMMA ListAccountsReads ==
    ASSUME Requests, NEW v \in Viewers, ListAccounts(v)
    PROVE  Settles(v) /\ AccountsRead(v)
<1> DEFINE q == viewer[v]
<1>1. \/ \E filter \in AccountFilters, offset \in 0..1 :
            Open(v, "accounts", 0, offset, filter, AccountSummaries(filter, offset))
      \/ Take(v, "accounts", 2, Cardinality(FilteredCandidates(q.filter)))
  BY Zenon DEF ListAccounts, AccountFilters
<1>2. CASE \E filter \in AccountFilters, offset \in 0..1 :
              Open(v, "accounts", 0, offset, filter, AccountSummaries(filter, offset))
  BY <1>2, OpenSettles DEF AccountsRead
<1>3. CASE Take(v, "accounts", 2, Cardinality(FilteredCandidates(q.filter)))
  BY <1>3, TakeSettles DEF AccountsRead
<1> QED
  BY <1>1, <1>2, <1>3

SectionOf == <<"", "experiences", "education", "skills">>
AccountReads(v) ==
    LET q == viewer[v] IN
    \/ \E p \in People : IsOpened(viewer'[v], "account", p, 0, "any", person[p].text)
    \/ \E step \in 2..4 : IsTaken(viewer'[v], q, "account", step, person[q.who].section[SectionOf[step]])
    \/ \E value : IsTaken(viewer'[v], q, "account", 5, value)

LEMMA GetAccountReads ==
    ASSUME Requests, NEW v \in Viewers, GetAccount(v)
    PROVE  Settles(v) /\ AccountReads(v)
<1> DEFINE q == viewer[v]
           rows == Cardinality({j \in Postings : HasPipeline(q.who, j)})
<1>1. \/ \E p \in People : Open(v, "account", p, 0, "any", person[p].text)
      \/ \E step \in 2..4 : Take(v, "account", step, person[q.who].section[SectionOf[step]])
      \/ Take(v, "account", 5, rows)
  BY Zenon DEF GetAccount, SectionOf
<1>2. CASE \E p \in People : Open(v, "account", p, 0, "any", person[p].text)
  BY <1>2, OpenSettles DEF AccountReads
<1>3. CASE \E step \in 2..4 : Take(v, "account", step, person[q.who].section[SectionOf[step]])
  BY <1>3, TakeSettles DEF AccountReads
<1>4. CASE Take(v, "account", 5, rows)
  <2> HIDE DEF rows
  <2> QED
    BY <1>4, TakeSettles DEF AccountReads
<1> QED
  BY <1>1, <1>2, <1>3, <1>4

Counted(n, filter) ==
    CASE n = 2 -> Cardinality(CompaniesCounted(filter))
      [] n = 3 -> Cardinality(Postings)
      [] n = 4 -> Cardinality(ApplicationsCounted)
      [] n = 5 -> Cardinality(Matches)
      [] n = 6 -> Cardinality(CandidatesWithoutPlacement(filter))
      [] n = 7 -> Cardinality(CandidatesWithUnknownEmployment(filter))
      [] n = 8 -> Cardinality(IncompleteResumes(filter))
IndicatorsRead(v) ==
    LET q == viewer[v] IN
    \/ \E f \in {"any", "active"} :
          IsOpened(viewer'[v], "indicators", 0, 0, f, Cardinality(Candidates(f)))
    \/ \E n \in 2..8 : IsTaken(viewer'[v], q, "indicators", n, Counted(n, q.filter))

LEMMA GetPlatformIndicatorsReads ==
    ASSUME Requests, NEW v \in Viewers, GetPlatformIndicators(v)
    PROVE  Settles(v) /\ IndicatorsRead(v)
<1> DEFINE f == viewer[v].filter
<1>1. /\ Counted(2, f) = Cardinality(CompaniesCounted(f))
      /\ Counted(3, f) = Cardinality(Postings)
      /\ Counted(4, f) = Cardinality(ApplicationsCounted)
      /\ Counted(5, f) = Cardinality(Matches)
      /\ Counted(6, f) = Cardinality(CandidatesWithoutPlacement(f))
      /\ Counted(7, f) = Cardinality(CandidatesWithUnknownEmployment(f))
      /\ Counted(8, f) = Cardinality(IncompleteResumes(f))
  BY DEF Counted
<1>2. \/ \E g \in {"any", "active"} : Open(v, "indicators", 0, 0, g, Cardinality(Candidates(g)))
      \/ \E n \in {2, 3, 4, 5, 6, 7, 8} : Take(v, "indicators", n, Counted(n, f))
  BY <1>1, Zenon DEF GetPlatformIndicators
<1>3. CASE \E g \in {"any", "active"} : Open(v, "indicators", 0, 0, g, Cardinality(Candidates(g)))
  BY <1>3, OpenSettles DEF IndicatorsRead
<1>4. CASE \E n \in {2, 3, 4, 5, 6, 7, 8} : Take(v, "indicators", n, Counted(n, f))
  <2>1. PICK n \in 2..8 : Take(v, "indicators", n, Counted(n, f))
    BY <1>4
  <2> QED
    BY <2>1, TakeSettles DEF IndicatorsRead
<1> QED
  BY <1>2, <1>3, <1>4

ExportReads(v) ==
    LET q == viewer[v] IN
    \/ \E f \in {"complete", "active"} :
          IsOpened(viewer'[v], "export", 0, 0, f, FilteredCandidates(f))
    \/ /\ IsTaken(viewer'[v], q, "export", 2, "file")
       /\ [by |-> v, rows |-> Cardinality(q.got[1])] \in exported'

LEMMA ExportAccountsReads ==
    ASSUME Requests, NEW v \in Viewers, ExportAccounts(v)
    PROVE  Settles(v) /\ ExportReads(v)
<1> DEFINE q == viewer[v]
<1>1. CASE \E f \in {"complete", "active"} : Open(v, "export", 0, 0, f, FilteredCandidates(f))
  BY <1>1, OpenSettles DEF ExportReads
<1>2. CASE ~ \E f \in {"complete", "active"} : Open(v, "export", 0, 0, f, FilteredCandidates(f))
  <2>1. /\ q.view = "export" /\ Len(q.got) = 2 - 1
        /\ exported' = exported \cup {[by |-> v, rows |-> Cardinality(q.got[1])]}
        /\ viewer' = [viewer EXCEPT ![v].got = Append(@, "file")]
        /\ UNCHANGED shown
    BY <1>2 DEF ExportAccounts
  <2>2. /\ Requests' /\ \A u \in Viewers \ {v} : viewer'[u] = viewer[u]
        /\ IsTaken(viewer'[v], q, "export", 2, "file")
    BY <2>1, TakeReads
  <2> QED
    BY <2>1, <2>2 DEF Settles, ExportReads
<1> QED
  BY <1>1, <1>2

-----------------------------------------------------------------------------
\* What holds of the answers a request has: some of it whatever is committed while
\* the request runs, and the rest as long as nothing is.

Distinct(s) == \A i, j \in DOMAIN s : i # j => s[i] # s[j]

SearchHolds(v) ==
    LET w == viewer[v] IN
    w.view = "search" =>
        /\ w.offset \in Nat
        /\ Len(w.got) >= 2 => Distinct(w.got[2])
        /\ ~ w.disturbed =>
              /\ Len(w.got) >= 2 => w.got[2] = SearchPage(w.got[1], w.offset)
              /\ Len(w.got) >= 3 => w.got[3] = RequiredSkills(Members(w.got[2]))

ApplicationsHold(v) ==
    LET w == viewer[v] IN
    w.view = "applications" =>
        /\ w.who \in People
        /\ \A r \in w.got[1] : r.job \in Postings /\ HasPipeline(w.who, r.job)
        /\ \A k \in 2..Len(w.got) : \A i \in DOMAIN w.got[k].similar :
              \A r \in w.got[1] : r.job # w.got[k].similar[i]

JobsHold(v) ==
    LET w == viewer[v] IN
    w.view = "jobs" =>
        /\ w.got[1] \subseteq Postings
        /\ ~ w.disturbed /\ Len(w.got) >= 3 => w.got[3] = ApplicationCounts(w.got[1])

ProfessionalsHold(v) ==
    LET w == viewer[v] IN
    w.view = "professionals" /\ w.filter = "contacted" =>
        /\ \A i \in DOMAIN w.got[1] : w.got[1][i] \in guided
        /\ Len(w.got) >= 2 => \A i \in DOMAIN w.got[1] : w.got[1][i] \in w.got[2]

AccountsHold(v) ==
    LET w == viewer[v] IN
    w.view = "accounts" =>
        /\ w.filter \in AccountFilters /\ w.offset \in Nat
        /\ ~ w.disturbed =>
              /\ w.got[1] = AccountSummaries(w.filter, w.offset)
              /\ Len(w.got) >= 2 => w.got[2] = Cardinality(FilteredCandidates(w.filter))

AccountHolds(v) ==
    LET w == viewer[v] IN
    w.view = "account" =>
        /\ w.who \in People
        /\ ~ w.disturbed =>
              /\ w.got[1] = person[w.who].text
              /\ \A step \in 2..4 :
                    Len(w.got) >= step => w.got[step] = person[w.who].section[SectionOf[step]]

IndicatorsHold(v) ==
    LET w == viewer[v] IN
    w.view = "indicators" /\ ~ w.disturbed =>
        /\ w.got[1] = Cardinality(Candidates(w.filter))
        /\ \A n \in 6..8 : Len(w.got) >= n => w.got[n] = Counted(n, w.filter)

ExportHolds(v) ==
    LET w == viewer[v] IN
    w.view = "export" /\ Len(w.got) >= 2 =>
        [by |-> v, rows |-> Cardinality(w.got[1])] \in exported

AnswersHold(v) ==
    /\ SearchHolds(v) /\ ApplicationsHold(v) /\ JobsHold(v) /\ ProfessionalsHold(v)
    /\ AccountsHold(v) /\ AccountHolds(v) /\ IndicatorsHold(v) /\ ExportHolds(v)

\* What the other requests see of a step, and what a commit leaves.
Rests(v) == viewer'[v] = viewer[v] /\ UNCHANGED shown /\ exported \subseteq exported'
Grows == \A p \in People, j \in Postings : HasPipeline(p, j) => HasPipeline(p, j)'

AccountPage(filter, offset) == PageFrom(FilteredCandidates(filter), Ascending, offset)
SummariesOf(page) ==
    [i \in DOMAIN page |-> [id |-> page[i], missing |-> MissingFields(page[i])]]

LEMMA ShownStays ==
    ASSUME UNCHANGED shown
    PROVE  /\ \A s, o : SearchPage(s, o)' = SearchPage(s, o)
           /\ \A s : RequiredSkills(s)' = RequiredSkills(s)
           /\ \A p, j : HasPipeline(p, j)' = HasPipeline(p, j)
           /\ \A s : ApplicationCounts(s)' = ApplicationCounts(s)
           /\ \A f, o : AccountSummaries(f, o)' = AccountSummaries(f, o)
           /\ \A f : FilteredCandidates(f)' = FilteredCandidates(f)
           /\ \A f : Candidates(f)' = Candidates(f)
           /\ \A n, f : Counted(n, f)' = Counted(n, f)
<1>1. /\ date' = date /\ posting' = posting /\ firm' = firm /\ person' = person
      /\ pipeline' = pipeline /\ guided' = guided
  BY DEF shown
<1>2. \A j : IsOpen(j)' = IsOpen(j) /\ PublisherIsNotBlocked(j)' = PublisherIsNotBlocked(j)
  BY <1>1 DEF IsOpen, PublisherIsNotBlocked
<1>3. \A s, o : SearchPage(s, o)' = SearchPage(s, o)
  BY <1>1, Zenon DEF SearchPage, OpenJobs, IsOpen, PublisherIsNotBlocked, PageFrom, Rows
<1>4. /\ \A s : RequiredSkills(s)' = RequiredSkills(s)
      /\ \A p, j : HasPipeline(p, j)' = HasPipeline(p, j)
  BY <1>1 DEF RequiredSkills, HasPipeline
<1>5. \A s : ApplicationCounts(s)' = ApplicationCounts(s)
  BY <1>1, Zenon DEF ApplicationCounts, HasPipeline
<1>6. \A f : FilteredCandidates(f)' = FilteredCandidates(f)
  BY <1>1, Zenon DEF FilteredCandidates, ResumeComplete, MissingFields
<1>7. \A f, o : AccountSummaries(f, o)' = AccountSummaries(f, o)
  <2>1. \A s : SummariesOf(s)' = SummariesOf(s)
    BY <1>1, Zenon DEF SummariesOf, MissingFields
  <2>2. \A f, o : AccountPage(f, o)' = AccountPage(f, o)
    BY <1>6, Zenon DEF AccountPage, PageFrom, Rows
  <2>3. \A f, o : /\ AccountSummaries(f, o) = SummariesOf(AccountPage(f, o))
                  /\ AccountSummaries(f, o)' = SummariesOf(AccountPage(f, o))'
    BY Zenon DEF AccountSummaries, AccountPage, SummariesOf
  <2>4. \A f, o : SummariesOf(AccountPage(f, o))' = SummariesOf(AccountPage(f, o))
    BY <1>6, <2>1, <2>2, Zenon DEF AccountPage
  <2> QED
    BY <2>3, <2>4, Zenon
<1>8. \A f : Candidates(f)' = Candidates(f)
  BY <1>1, Zenon DEF Candidates
<1>9. /\ \A f : CompaniesCounted(f)' = CompaniesCounted(f)
      /\ ApplicationsCounted' = ApplicationsCounted
      /\ Matches' = Matches
  BY <1>1, Zenon DEF CompaniesCounted, ApplicationsCounted, Matches
<1>10. \A f : CandidatesWithoutPlacement(f)' = CandidatesWithoutPlacement(f)
  BY <1>1, <1>8, Zenon DEF CandidatesWithoutPlacement
<1>11. \A f : CandidatesWithUnknownEmployment(f)' = CandidatesWithUnknownEmployment(f)
  BY <1>1, <1>8, Zenon DEF CandidatesWithUnknownEmployment
<1>12. \A f : IncompleteResumes(f)' = IncompleteResumes(f)
  BY <1>1, <1>8, Zenon DEF IncompleteResumes, ResumeComplete
<1>13. \A n, f : Counted(n, f)' = Counted(n, f)
  BY <1>9, <1>10, <1>11, <1>12, Zenon DEF Counted
<1> QED
  BY <1>3, <1>4, <1>5, <1>6, <1>7, <1>8, <1>13

LEMMA AnswersRest ==
    ASSUME NEW v \in Viewers, AnswersHold(v), Rests(v)
    PROVE  AnswersHold(v)'
<1>1. UNCHANGED shown /\ viewer'[v] = viewer[v] /\ exported \subseteq exported'
  BY DEF Rests
<1>2. guided' = guided /\ person' = person
  BY <1>1 DEF shown
<1>3. SearchHolds(v)'
  BY <1>1, ShownStays DEF AnswersHold, SearchHolds
<1>4. ApplicationsHold(v)'
  BY <1>1, ShownStays DEF AnswersHold, ApplicationsHold
<1>5. JobsHold(v)'
  BY <1>1, ShownStays DEF AnswersHold, JobsHold
<1>6. ProfessionalsHold(v)'
  BY <1>1, <1>2 DEF AnswersHold, ProfessionalsHold
<1>7. AccountsHold(v)'
  BY <1>1, ShownStays DEF AnswersHold, AccountsHold
<1>8. AccountHolds(v)'
  BY <1>1, <1>2 DEF AnswersHold, AccountHolds
<1>9. IndicatorsHold(v)'
  BY <1>1, ShownStays DEF AnswersHold, IndicatorsHold
<1>10. ExportHolds(v)'
  BY <1>1 DEF AnswersHold, ExportHolds
<1> QED
  BY <1>3, <1>4, <1>5, <1>6, <1>7, <1>8, <1>9, <1>10 DEF AnswersHold

LEMMA AnswersAreDisturbed ==
    ASSUME NEW v \in Viewers, AnswersHold(v), IsDisturbed(viewer'[v], viewer[v]), Grows,
           guided \subseteq guided', UNCHANGED exported
    PROVE  AnswersHold(v)'
<1>1. /\ viewer'[v].view = viewer[v].view /\ viewer'[v].who = viewer[v].who
      /\ viewer'[v].offset = viewer[v].offset /\ viewer'[v].filter = viewer[v].filter
      /\ viewer'[v].got = viewer[v].got
      /\ viewer'[v].view # "none" => viewer'[v].disturbed
  BY DEF IsDisturbed
<1>2. SearchHolds(v)'
  BY <1>1 DEF AnswersHold, SearchHolds
<1>3. ApplicationsHold(v)'
  BY <1>1 DEF AnswersHold, ApplicationsHold, Grows
<1>4. JobsHold(v)' /\ AccountsHold(v)' /\ AccountHolds(v)' /\ IndicatorsHold(v)'
  BY <1>1 DEF AnswersHold, JobsHold, AccountsHold, AccountHolds, IndicatorsHold
<1>5. ProfessionalsHold(v)'
  BY <1>1 DEF AnswersHold, ProfessionalsHold
<1>6. ExportHolds(v)'
  BY <1>1 DEF AnswersHold, ExportHolds
<1> QED
  BY <1>2, <1>3, <1>4, <1>5, <1>6 DEF AnswersHold

\* A request of one view holds nothing of the others.
LEMMA OtherViews ==
    ASSUME NEW v \in Viewers
    PROVE  LET view == viewer'[v].view IN
           /\ view # "search" => SearchHolds(v)'
           /\ view # "applications" => ApplicationsHold(v)'
           /\ view # "jobs" => JobsHold(v)'
           /\ view # "professionals" => ProfessionalsHold(v)'
           /\ view # "accounts" => AccountsHold(v)'
           /\ view # "account" => AccountHolds(v)'
           /\ view # "indicators" => IndicatorsHold(v)'
           /\ view # "export" => ExportHolds(v)'
BY DEF SearchHolds, ApplicationsHold, JobsHold, ProfessionalsHold, AccountsHold, AccountHolds,
   IndicatorsHold, ExportHolds

\* The page of a search: open jobs, none twice, the better matches first.
LEMMA SearchPageIs ==
    ASSUME DirectoryTypeOK, NEW skills, NEW offset \in Nat
    PROVE  LET page == SearchPage(skills, offset) IN
           /\ Distinct(page) /\ \A i \in DOMAIN page : page[i] \in OpenJobs
           /\ \A i, j \in DOMAIN page : i < j =>
                 Cardinality(posting[page[i]].skills \cap skills)
                     >= Cardinality(posting[page[j]].skills \cap skills)
<1> DEFINE before == MoreInCommon(skills)
           page == SearchPage(skills, offset)
<1>1. page = Rows(OpenJobs, before, offset, ViewLimit)
  BY DEF SearchPage, PageFrom, MoreInCommon
<1>2. OpenJobs \in SUBSET Postings /\ IsFiniteSet(OpenJobs)
  BY FS_Subset, DirectoryAssumption DEF OpenJobs
<1>3. IsStrictOrder(before, OpenJobs)
  BY <1>2, MoreInCommonIsAnOrder
<1>4. ASSUME NEW x \in Postings, NEW y \in Postings, <<x, y>> \in before
      PROVE  Cardinality(posting[x].skills \cap skills) >= Cardinality(posting[y].skills \cap skills)
  <2>1. /\ Cardinality(posting[x].skills \cap skills) \in Nat
        /\ Cardinality(posting[y].skills \cap skills) \in Nat
    BY PostedSkills
  <2>2. \/ Cardinality(posting[x].skills \cap skills) > Cardinality(posting[y].skills \cap skills)
        \/ Cardinality(posting[x].skills \cap skills) = Cardinality(posting[y].skills \cap skills)
    BY <1>4 DEF MoreInCommon
  <2> QED
    BY <2>1, <2>2
<1>5. ViewLimit \in Nat
  BY DirectoryAssumption
<1> HIDE DEF before, page
<1>6. /\ \A i \in DOMAIN page : page[i] \in OpenJobs
      /\ \A i, j \in DOMAIN page : i < j => <<page[i], page[j]>> \in before
      /\ \A i, j \in DOMAIN page : i # j => page[i] # page[j]
  BY <1>1, <1>2, <1>3, <1>5, PageRows
<1>7. ASSUME NEW i \in DOMAIN page, NEW j \in DOMAIN page, i < j
      PROVE  Cardinality(posting[page[i]].skills \cap skills)
                 >= Cardinality(posting[page[j]].skills \cap skills)
  <2>1. page[i] \in Postings /\ page[j] \in Postings /\ <<page[i], page[j]>> \in before
    BY <1>2, <1>6, <1>7
  <2> QED
    BY <1>4, <2>1
<1> QED
  BY <1>6, <1>7 DEF Distinct, page

LEMMA OnlyThisView ==
    ASSUME NEW v \in Viewers,
           LET view == viewer'[v].view IN
           /\ view = "search" => SearchHolds(v)'
           /\ view = "applications" => ApplicationsHold(v)'
           /\ view = "jobs" => JobsHold(v)'
           /\ view = "professionals" => ProfessionalsHold(v)'
           /\ view = "accounts" => AccountsHold(v)'
           /\ view = "account" => AccountHolds(v)'
           /\ view = "indicators" => IndicatorsHold(v)'
           /\ view = "export" => ExportHolds(v)'
    PROVE  AnswersHold(v)'
BY OtherViews DEF AnswersHold

LEMMA SearchGoesOn ==
    ASSUME DirectoryTypeOK, Requests, NEW v \in Viewers, AnswersHold(v), Settles(v), SearchReads(v)
    PROVE  AnswersHold(v)'
<1> DEFINE q == viewer[v]
           w == viewer'[v]
<1>1. UNCHANGED shown
  BY DEF Settles
<1>2. CASE \E p \in People, offset \in 0..1 :
              IsOpened(w, "search", p, offset, "any", person[p].skills)
  <2>1. w.view = "search" /\ w.offset \in Nat /\ Len(w.got) = 1
    BY <1>2 DEF IsOpened
  <2>2. SearchHolds(v)'
    BY <2>1 DEF SearchHolds
  <2> QED
    BY <2>1, <2>2, OnlyThisView
<1>3. CASE IsTaken(w, q, "search", 2, SearchPage(q.got[1], q.offset))
  <2>1. /\ q.view = "search" /\ w.view = "search" /\ w.offset = q.offset /\ Len(w.got) = 2
        /\ w.got[1] = q.got[1] /\ w.got[2] = SearchPage(q.got[1], q.offset)
    BY <1>3 DEF IsTaken
  <2>2. q.offset \in Nat
    BY <2>1 DEF AnswersHold, SearchHolds
  <2>3. Distinct(w.got[2])
    BY <2>1, <2>2, SearchPageIs
  <2>4. w.got[2] = SearchPage(w.got[1], w.offset)
    BY <2>1
  <2>5. SearchHolds(v)'
    BY <1>1, <2>1, <2>2, <2>3, <2>4, ShownStays DEF SearchHolds
  <2> QED
    BY <2>1, <2>5, OnlyThisView
<1>4. CASE IsTaken(w, q, "search", 3, RequiredSkills(Members(q.got[2])))
  <2>1. /\ q.view = "search" /\ w.view = "search" /\ w.offset = q.offset /\ Len(w.got) = 3
        /\ Len(q.got) = 2 /\ w.disturbed = q.disturbed
        /\ w.got[1] = q.got[1] /\ w.got[2] = q.got[2]
        /\ w.got[3] = RequiredSkills(Members(q.got[2]))
    BY <1>4 DEF IsTaken
  <2>2. /\ q.offset \in Nat /\ Distinct(q.got[2])
        /\ ~ q.disturbed => q.got[2] = SearchPage(q.got[1], q.offset)
    BY <2>1 DEF AnswersHold, SearchHolds
  <2>3. ~ w.disturbed => w.got[2] = SearchPage(w.got[1], w.offset)
    BY <2>1, <2>2
  <2>4. w.got[3] = RequiredSkills(Members(w.got[2]))
    BY <2>1
  <2>5. Members(viewer[v].got[2])' = Members(w.got[2])
    BY DEF Members
  <2>6. SearchHolds(v)'
    BY <1>1, <2>1, <2>2, <2>3, <2>4, <2>5, ShownStays DEF SearchHolds
  <2> QED
    BY <2>1, <2>6, OnlyThisView
<1> QED
  BY <1>2, <1>3, <1>4 DEF SearchReads

LEMMA ApplicationsGoOn ==
    ASSUME DirectoryTypeOK, Requests, NEW v \in Viewers, AnswersHold(v), Settles(v),
           ApplicationsRead(v)
    PROVE  AnswersHold(v)'
<1> DEFINE q == viewer[v]
           w == viewer'[v]
<1>1. UNCHANGED shown
  BY DEF Settles
<1>2. CASE \E p \in People : IsOpened(w, "applications", p, 0, "any", MyApplications(p))
  <2>1. PICK p \in People : /\ w.view = "applications" /\ w.who = p /\ Len(w.got) = 1
                            /\ w.got[1] = MyApplications(p)
    BY <1>2 DEF IsOpened
  <2>2. \A r \in MyApplications(p) : r.job \in Postings /\ HasPipeline(p, r.job)
    <3>1. ASSUME NEW j \in Postings, HasPipeline(p, j)
          PROVE  [job |-> j, status |-> pipeline[<<p, j>>]].job = j
      OBVIOUS
    <3> QED
      BY <3>1, Zenon DEF MyApplications
  <2>3. \A r \in w.got[1] : r.job \in Postings /\ HasPipeline(w.who, r.job)
    BY <2>1, <2>2
  <2>4. ApplicationsHold(v)'
    BY <1>1, <2>1, <2>3, ShownStays DEF ApplicationsHold
  <2> QED
    BY <2>1, <2>4, OnlyThisView
<1>3. CASE \E j \in NotSelected(q.got[1]) :
              IsTaken(w, q, "applications", Len(q.got) + 1, Suggestion(q.who, j))
  <2> DEFINE n == Len(q.got)
  <2>1. PICK j \in NotSelected(q.got[1]) :
               IsTaken(w, q, "applications", n + 1, Suggestion(q.who, j))
    BY <1>3
  <2>2. n \in Nat /\ (q.view # "none" => n >= 1)
    BY DEF Requests, IsRequest
  <2>3. /\ q.view = "applications" /\ w.view = "applications" /\ w.who = q.who
        /\ Len(w.got) = n + 1 /\ w.got[n + 1] = Suggestion(q.who, j)
        /\ \A k \in 1..n : w.got[k] = q.got[k]
    BY <2>1, <2>2 DEF IsTaken
  <2>4. w.got[1] = q.got[1]
    BY <2>2, <2>3
  <2>5. /\ q.who \in People
        /\ \A r \in q.got[1] : r.job \in Postings /\ HasPipeline(q.who, r.job)
        /\ \A k \in 2..n : \A i \in DOMAIN q.got[k].similar :
              \A r \in q.got[1] : r.job # q.got[k].similar[i]
    BY <2>3 DEF AnswersHold, ApplicationsHold
  <2>6. j \in Postings
    BY <2>5 DEF NotSelected
  <2>7. Suggestion(q.who, j).similar = SimilarJobs(q.who, j)
    BY DEF Suggestion
  <2>8. ASSUME NEW i \in DOMAIN SimilarJobs(q.who, j), NEW r \in q.got[1]
        PROVE  r.job # SimilarJobs(q.who, j)[i]
    BY <2>5, <2>6, <2>8, SimilarJobsAre
  <2>9. ASSUME NEW k \in 2..Len(w.got), NEW i \in DOMAIN w.got[k].similar, NEW r \in w.got[1]
        PROVE  r.job # w.got[k].similar[i]
    <3>1. CASE k = n + 1
      BY <2>3, <2>4, <2>7, <2>8, <2>9, <3>1
    <3>2. CASE k # n + 1
      <4>1. k \in 2..n /\ w.got[k] = q.got[k]
        BY <2>2, <2>3, <3>2
      <4> QED
        BY <2>4, <2>5, <2>9, <4>1
    <3> QED
      BY <3>1, <3>2
  <2>10. \A r \in w.got[1] : r.job \in Postings /\ HasPipeline(w.who, r.job)
    BY <2>3, <2>4, <2>5
  <2>11. ApplicationsHold(v)'
    BY <1>1, <2>3, <2>5, <2>9, <2>10, ShownStays DEF ApplicationsHold
  <2> QED
    BY <2>3, <2>11, OnlyThisView
<1> QED
  BY <1>2, <1>3 DEF ApplicationsRead

LEMMA JobsGoOn ==
    ASSUME DirectoryTypeOK, Requests, NEW v \in Viewers, AnswersHold(v), Settles(v), JobsRead(v)
    PROVE  AnswersHold(v)'
<1> DEFINE q == viewer[v]
           w == viewer'[v]
<1>1. UNCHANGED shown
  BY DEF Settles
<1>2. CASE \E f \in Firms : IsOpened(w, "jobs", 0, 0, "any", CompanyJobs(f))
  <2>1. PICK f \in Firms : w.view = "jobs" /\ Len(w.got) = 1 /\ w.got[1] = CompanyJobs(f)
    BY <1>2 DEF IsOpened
  <2>2. w.got[1] \subseteq Postings
    BY <2>1 DEF CompanyJobs
  <2>3. JobsHold(v)'
    BY <2>1, <2>2 DEF JobsHold
  <2> QED
    BY <2>1, <2>3, OnlyThisView
<1>3. CASE IsTaken(w, q, "jobs", 2, RequiredSkills(q.got[1]))
  <2>1. /\ q.view = "jobs" /\ w.view = "jobs" /\ Len(w.got) = 2 /\ w.got[1] = q.got[1]
    BY <1>3 DEF IsTaken
  <2>2. w.got[1] \subseteq Postings
    BY <2>1 DEF AnswersHold, JobsHold
  <2>3. JobsHold(v)'
    BY <2>1, <2>2 DEF JobsHold
  <2> QED
    BY <2>1, <2>3, OnlyThisView
<1>4. CASE IsTaken(w, q, "jobs", 3, ApplicationCounts(q.got[1]))
  <2>1. /\ q.view = "jobs" /\ w.view = "jobs" /\ Len(w.got) = 3 /\ w.got[1] = q.got[1]
        /\ w.got[3] = ApplicationCounts(q.got[1])
    BY <1>4 DEF IsTaken
  <2>2. w.got[1] \subseteq Postings
    BY <2>1 DEF AnswersHold, JobsHold
  <2>3. w.got[3] = ApplicationCounts(w.got[1])
    BY <2>1
  <2>4. JobsHold(v)'
    BY <1>1, <2>1, <2>2, <2>3, ShownStays DEF JobsHold
  <2> QED
    BY <2>1, <2>4, OnlyThisView
<1> QED
  BY <1>2, <1>3, <1>4 DEF JobsRead

LEMMA ProfessionalsGoOn ==
    ASSUME DirectoryTypeOK, Requests, NEW v \in Viewers, AnswersHold(v), Settles(v),
           ProfessionalsRead(v)
    PROVE  AnswersHold(v)'
<1> DEFINE q == viewer[v]
           w == viewer'[v]
<1>1. guided' = guided
  BY DEF Settles, shown
<1>2. CASE \E filter \in {"complete", "incomplete", "contacted", "not_contacted"}, offset \in 0..1 :
              IsOpened(w, "professionals", 0, offset, filter, ProfessionalPage(filter, offset))
  <2>1. PICK filter \in {"complete", "incomplete", "contacted", "not_contacted"}, offset \in 0..1 :
            /\ w.view = "professionals" /\ w.filter = filter /\ Len(w.got) = 1
            /\ w.got[1] = ProfessionalPage(filter, offset)
    BY <1>2 DEF IsOpened
  <2>2. filter = "contacted" => \A i \in DOMAIN w.got[1] : w.got[1][i] \in guided
    <3> SUFFICES ASSUME filter = "contacted"
                 PROVE  \A i \in DOMAIN w.got[1] : w.got[1][i] \in guided
      OBVIOUS
    <3>1. ProfessionalPage("contacted", offset)
             = PageFrom({p \in People : p \in guided}, Ascending, offset)
      BY DEF ProfessionalPage
    <3> DEFINE told == {p \in People : p \in guided}
    <3>2. told \in SUBSET People /\ told \in SUBSET Int /\ IsFiniteSet(told)
      <4>1. told \in SUBSET People
        OBVIOUS
      <4> HIDE DEF told
      <4>2. IsFiniteSet(told)
        BY <4>1, DirectoryAssumption, FS_Subset
      <4>3. told \in SUBSET Int
        BY <4>1, DirectoryAssumption
      <4> QED
        BY <4>1, <4>2, <4>3
    <3>3. IsStrictOrder(Ascending, told)
      BY <3>2, AscendingIsAnOrder
    <3>4. \A p \in told : p \in guided
      OBVIOUS
    <3>5. w.got[1] = Rows(told, Ascending, offset, ViewLimit) /\ ViewLimit \in Nat /\ offset \in Nat
      BY <2>1, <3>1, DirectoryAssumption DEF PageFrom
    <3> HIDE DEF told
    <3>6. \A i \in DOMAIN w.got[1] : w.got[1][i] \in told
      BY <3>2, <3>3, <3>5, PageRows
    <3> QED
      BY <3>4, <3>6
  <2>3. ProfessionalsHold(v)'
    BY <1>1, <2>1, <2>2 DEF ProfessionalsHold
  <2> QED
    BY <2>1, <2>3, OnlyThisView
<1>3. CASE IsTaken(w, q, "professionals", 2, guided \cap Members(q.got[1]))
  <2>1. /\ q.view = "professionals" /\ w.view = "professionals" /\ w.filter = q.filter
        /\ Len(w.got) = 2 /\ w.got[1] = q.got[1] /\ w.got[2] = guided \cap Members(q.got[1])
    BY <1>3 DEF IsTaken
  <2>2. w.filter = "contacted" => \A i \in DOMAIN w.got[1] : w.got[1][i] \in guided
    BY <2>1 DEF AnswersHold, ProfessionalsHold
  <2>3. ProfessionalsHold(v)'
    BY <1>1, <2>1, <2>2 DEF ProfessionalsHold, Members
  <2> QED
    BY <2>1, <2>3, OnlyThisView
<1> QED
  BY <1>2, <1>3 DEF ProfessionalsRead

LEMMA AccountsGoOn ==
    ASSUME DirectoryTypeOK, Requests, NEW v \in Viewers, AnswersHold(v), Settles(v), AccountsRead(v)
    PROVE  AnswersHold(v)'
<1> DEFINE q == viewer[v]
           w == viewer'[v]
<1>1. UNCHANGED shown
  BY DEF Settles
<1>2. CASE \E filter \in AccountFilters, offset \in 0..1 :
              IsOpened(w, "accounts", 0, offset, filter, AccountSummaries(filter, offset))
  <2>1. /\ w.view = "accounts" /\ w.filter \in AccountFilters /\ w.offset \in Nat
        /\ Len(w.got) = 1 /\ w.got[1] = AccountSummaries(w.filter, w.offset)
    BY <1>2 DEF IsOpened
  <2>2. AccountsHold(v)'
    BY <1>1, <2>1, ShownStays DEF AccountsHold
  <2> QED
    BY <2>1, <2>2, OnlyThisView
<1>3. CASE IsTaken(w, q, "accounts", 2, Cardinality(FilteredCandidates(q.filter)))
  <2>1. /\ q.view = "accounts" /\ w.view = "accounts" /\ w.filter = q.filter
        /\ w.offset = q.offset /\ w.disturbed = q.disturbed
        /\ Len(w.got) = 2 /\ w.got[1] = q.got[1]
        /\ w.got[2] = Cardinality(FilteredCandidates(q.filter))
    BY <1>3 DEF IsTaken
  <2>2. /\ q.filter \in AccountFilters /\ q.offset \in Nat
        /\ ~ q.disturbed => q.got[1] = AccountSummaries(q.filter, q.offset)
    BY <2>1 DEF AnswersHold, AccountsHold
  <2>3. AccountsHold(v)'
    BY <1>1, <2>1, <2>2, ShownStays DEF AccountsHold
  <2> QED
    BY <2>1, <2>3, OnlyThisView
<1> QED
  BY <1>2, <1>3 DEF AccountsRead

LEMMA AccountGoesOn ==
    ASSUME DirectoryTypeOK, Requests, NEW v \in Viewers, AnswersHold(v), Settles(v), AccountReads(v)
    PROVE  AnswersHold(v)'
<1> DEFINE q == viewer[v]
           w == viewer'[v]
<1>1. person' = person
  BY DEF Settles, shown
<1>2. CASE \E p \in People : IsOpened(w, "account", p, 0, "any", person[p].text)
  <2>1. /\ w.view = "account" /\ w.who \in People /\ Len(w.got) = 1
        /\ w.got[1] = person[w.who].text
    BY <1>2 DEF IsOpened
  <2>2. AccountHolds(v)'
    BY <1>1, <2>1 DEF AccountHolds
  <2> QED
    BY <2>1, <2>2, OnlyThisView
<1>3. ASSUME NEW step \in 2..5, NEW value, IsTaken(w, q, "account", step, value),
             step # 5 => value = person[q.who].section[SectionOf[step]]
      PROVE  AnswersHold(v)'
  <2>1. /\ q.view = "account" /\ w.view = "account" /\ w.who = q.who
        /\ w.disturbed = q.disturbed /\ Len(q.got) = step - 1 /\ Len(w.got) = step
        /\ \A i \in 1..(step - 1) : w.got[i] = q.got[i]
        /\ w.got[step] = value
    BY <1>3 DEF IsTaken
  <2>2. /\ q.who \in People
        /\ ~ q.disturbed => /\ q.got[1] = person[q.who].text
                            /\ \A i \in 2..4 : Len(q.got) >= i =>
                                  q.got[i] = person[q.who].section[SectionOf[i]]
    BY <2>1 DEF AnswersHold, AccountHolds
  <2>3. w.got[1] = q.got[1]
    <3>1. 1 \in 1..(step - 1)
      OBVIOUS
    <3> QED
      BY <2>1, <3>1
  <2>4. ASSUME ~ w.disturbed, NEW i \in 2..4, Len(w.got) >= i
        PROVE  w.got[i] = person[w.who].section[SectionOf[i]]
    <3>1. CASE i = step
      BY <1>3, <2>1, <2>4, <3>1
    <3>2. CASE i # step
      <4>1. i \in 1..(step - 1) /\ Len(q.got) >= i
        BY <1>3, <2>1, <2>4, <3>2
      <4>2. w.got[i] = q.got[i] /\ ~ q.disturbed
        BY <2>1, <2>4, <4>1
      <4> QED
        BY <2>1, <2>2, <4>1, <4>2
    <3> QED
      BY <3>1, <3>2
  <2>5. AccountHolds(v)'
    BY <1>1, <2>1, <2>2, <2>3, <2>4 DEF AccountHolds
  <2> QED
    BY <2>1, <2>5, OnlyThisView
<1>4. CASE \E step \in 2..4 : IsTaken(w, q, "account", step, person[q.who].section[SectionOf[step]])
  <2>1. PICK step \in 2..4 : IsTaken(w, q, "account", step, person[q.who].section[SectionOf[step]])
    BY <1>4
  <2> QED
    BY <1>3, <2>1
<1>5. CASE \E value : IsTaken(w, q, "account", 5, value)
  BY <1>3, <1>5
<1> QED
  BY <1>2, <1>4, <1>5 DEF AccountReads

LEMMA IndicatorsGoOn ==
    ASSUME DirectoryTypeOK, Requests, NEW v \in Viewers, AnswersHold(v), Settles(v),
           IndicatorsRead(v)
    PROVE  AnswersHold(v)'
<1> DEFINE q == viewer[v]
           w == viewer'[v]
<1>1. UNCHANGED shown
  BY DEF Settles
<1>2. CASE \E f \in {"any", "active"} :
              IsOpened(w, "indicators", 0, 0, f, Cardinality(Candidates(f)))
  <2>1. /\ w.view = "indicators" /\ Len(w.got) = 1
        /\ w.got[1] = Cardinality(Candidates(w.filter))
    BY <1>2 DEF IsOpened
  <2>2. IndicatorsHold(v)'
    BY <1>1, <2>1, ShownStays DEF IndicatorsHold
  <2> QED
    BY <2>1, <2>2, OnlyThisView
<1>3. CASE \E n \in 2..8 : IsTaken(w, q, "indicators", n, Counted(n, q.filter))
  <2>1. PICK n \in 2..8 : IsTaken(w, q, "indicators", n, Counted(n, q.filter))
    BY <1>3
  <2>2. /\ q.view = "indicators" /\ w.view = "indicators" /\ w.filter = q.filter
        /\ w.disturbed = q.disturbed /\ Len(q.got) = n - 1 /\ Len(w.got) = n
        /\ \A i \in 1..(n - 1) : w.got[i] = q.got[i]
        /\ w.got[n] = Counted(n, q.filter)
    BY <2>1 DEF IsTaken
  <2>3. ~ q.disturbed => /\ q.got[1] = Cardinality(Candidates(q.filter))
                         /\ \A i \in 6..8 : Len(q.got) >= i => q.got[i] = Counted(i, q.filter)
    BY <2>2 DEF AnswersHold, IndicatorsHold
  <2>4. w.got[1] = q.got[1]
    <3>1. 1 \in 1..(n - 1)
      OBVIOUS
    <3> QED
      BY <2>2, <3>1
  <2>5. ASSUME ~ w.disturbed, NEW i \in 6..8, Len(w.got) >= i
        PROVE  w.got[i] = Counted(i, q.filter)
    <3>1. CASE i = n
      BY <2>2, <3>1
    <3>2. CASE i # n
      <4>1. i \in 1..(n - 1) /\ Len(q.got) >= i
        BY <2>2, <2>5, <3>2
      <4>2. w.got[i] = q.got[i] /\ ~ q.disturbed
        BY <2>2, <2>5, <4>1
      <4> QED
        BY <2>3, <4>1, <4>2
    <3> QED
      BY <3>1, <3>2
  <2>6. IndicatorsHold(v)'
    BY <1>1, <2>2, <2>3, <2>4, <2>5, ShownStays DEF IndicatorsHold
  <2> QED
    BY <2>2, <2>6, OnlyThisView
<1> QED
  BY <1>2, <1>3 DEF IndicatorsRead

LEMMA ExportGoesOn ==
    ASSUME DirectoryTypeOK, Requests, NEW v \in Viewers, AnswersHold(v), Settles(v), ExportReads(v)
    PROVE  AnswersHold(v)'
<1> DEFINE q == viewer[v]
           w == viewer'[v]
<1>1. CASE \E f \in {"complete", "active"} :
              IsOpened(w, "export", 0, 0, f, FilteredCandidates(f))
  <2>1. w.view = "export" /\ Len(w.got) = 1
    BY <1>1 DEF IsOpened
  <2>2. ExportHolds(v)'
    BY <2>1 DEF ExportHolds
  <2> QED
    BY <2>1, <2>2, OnlyThisView
<1>2. CASE /\ IsTaken(w, q, "export", 2, "file")
           /\ [by |-> v, rows |-> Cardinality(q.got[1])] \in exported'
  <2>1. w.view = "export" /\ w.got[1] = q.got[1]
    BY <1>2 DEF IsTaken
  <2>2. ExportHolds(v)'
    BY <1>2, <2>1 DEF ExportHolds
  <2> QED
    BY <2>1, <2>2, OnlyThisView
<1> QED
  BY <1>1, <1>2 DEF ExportReads

DirectoryInv == DirectoryTypeOK /\ Requests /\ \A v \in Viewers : AnswersHold(v)

LEMMA DirectoryInvInit == DirectoryInit => DirectoryInv
<1> SUFFICES ASSUME DirectoryInit
             PROVE  DirectoryInv
  OBVIOUS
<1>1. viewer = [v \in Viewers |-> NoView]
  BY DEF DirectoryInit
<1>2. Requests
  BY <1>1, NoViewIsARequest DEF Requests
<1>3. ASSUME NEW v \in Viewers
      PROVE  AnswersHold(v)
  <2>1. viewer[v].view = "none"
    BY <1>1, NoViewIsARequest
  <2> QED
    BY <2>1 DEF AnswersHold, SearchHolds, ApplicationsHold, JobsHold, ProfessionalsHold,
       AccountsHold, AccountHolds, IndicatorsHold, ExportHolds
<1> QED
  BY <1>2, <1>3, DirectoryTypeInit DEF DirectoryInv

\* What is committed only adds applications and guidances.
CommittedStep ==
    \/ \E j \in Postings : EditPosting(j) \/ \E p \in People : MovePipeline(p, j)
    \/ \E p \in EditedPeople : EditPerson(p)
    \/ \E p \in People : RecordGuidance(p)
    \/ EditAccount \/ PassDate

LEMMA CommitsGrow ==
    ASSUME DirectoryTypeOK, CommittedStep
    PROVE  Commit /\ Grows /\ guided \subseteq guided'
<1>1. ASSUME UNCHANGED pipeline
      PROVE  Grows
  BY <1>1 DEF Grows, HasPipeline
<1>2. ASSUME NEW j \in Postings, EditPosting(j)
      PROVE  Commit /\ Grows /\ guided \subseteq guided'
  BY <1>1, <1>2 DEF EditPosting
<1>3. ASSUME NEW p \in EditedPeople, EditPerson(p)
      PROVE  Commit /\ Grows /\ guided \subseteq guided'
  BY <1>1, <1>3 DEF EditPerson
<1>4. CASE EditAccount \/ PassDate
  BY <1>1, <1>4 DEF EditAccount, PassDate
<1>5. ASSUME NEW p \in People, RecordGuidance(p)
      PROVE  Commit /\ Grows /\ guided \subseteq guided'
  BY <1>1, <1>5 DEF RecordGuidance
<1>6. ASSUME NEW p \in People, NEW j \in Postings, MovePipeline(p, j)
      PROVE  Commit /\ Grows /\ guided \subseteq guided'
  <2>1. Commit /\ guided' = guided
    BY <1>6 DEF MovePipeline
  <2>2. \E stage \in {"applied", "not_selected"} : pipeline' = [pipeline EXCEPT ![<<p, j>>] = stage]
    BY <1>6 DEF MovePipeline
  <2>3. pipeline \in [People \X Postings -> Stages]
    BY DEF DirectoryTypeOK
  <2>4. ASSUME NEW r \in People, NEW k \in Postings, pipeline[<<r, k>>] # "none"
        PROVE  pipeline'[<<r, k>>] # "none"
    BY <2>2, <2>3, <2>4
  <2>5. Grows
    BY <2>4 DEF Grows, HasPipeline
  <2> QED
    BY <2>1, <2>5
<1> QED
  BY <1>2, <1>3, <1>4, <1>5, <1>6 DEF CommittedStep

LEMMA RequestsGoOn ==
    ASSUME DirectoryInv, NEW v \in Viewers,
           \/ SearchJobs(v) \/ ListMyApplications(v) \/ ListCompanyJobs(v)
           \/ ListProfessionals(v) \/ ListAccounts(v) \/ GetAccount(v)
           \/ GetPlatformIndicators(v) \/ ExportAccounts(v)
    PROVE  Settles(v) /\ AnswersHold(v)'
<1>1. DirectoryTypeOK /\ Requests /\ AnswersHold(v)
  BY DEF DirectoryInv
<1>2. CASE SearchJobs(v)
  BY <1>1, <1>2, SearchJobsReads, SearchGoesOn
<1>3. CASE ListMyApplications(v)
  BY <1>1, <1>3, ListMyApplicationsReads, ApplicationsGoOn
<1>4. CASE ListCompanyJobs(v)
  BY <1>1, <1>4, ListCompanyJobsReads, JobsGoOn
<1>5. CASE ListProfessionals(v)
  BY <1>1, <1>5, ListProfessionalsReads, ProfessionalsGoOn
<1>6. CASE ListAccounts(v)
  BY <1>1, <1>6, ListAccountsReads, AccountsGoOn
<1>7. CASE GetAccount(v)
  BY <1>1, <1>7, GetAccountReads, AccountGoesOn
<1>8. CASE GetPlatformIndicators(v)
  BY <1>1, <1>8, GetPlatformIndicatorsReads, IndicatorsGoOn
<1>9. CASE ExportAccounts(v)
  BY <1>1, <1>9, ExportAccountsReads, ExportGoesOn
<1> QED
  BY <1>2, <1>3, <1>4, <1>5, <1>6, <1>7, <1>8, <1>9

LEMMA DirectoryInvNext ==
    ASSUME DirectoryInv, [DirectoryNext]_directoryVars
    PROVE  DirectoryInv'
<1>1. DirectoryTypeOK /\ Requests /\ \A v \in Viewers : AnswersHold(v)
  BY DEF DirectoryInv
<1>2. DirectoryTypeOK'
  BY <1>1, DirectoryTypeNext
<1>3. CASE UNCHANGED directoryVars
  <2>1. UNCHANGED viewer /\ UNCHANGED shown /\ exported' = exported
    BY <1>3 DEF directoryVars
  <2>2. Requests'
    BY <1>1, <2>1 DEF Requests
  <2>3. \A v \in Viewers : Rests(v)
    BY <2>1 DEF Rests
  <2> QED
    BY <1>1, <1>2, <2>2, <2>3, AnswersRest DEF DirectoryInv
<1>4. CASE CommittedStep
  <2>1. Commit /\ Grows /\ guided \subseteq guided'
    BY <1>1, <1>4, CommitsGrow
  <2>2. /\ Requests' /\ UNCHANGED exported
        /\ \A v \in Viewers : IsDisturbed(viewer'[v], viewer[v])
    BY <1>1, <2>1, CommitDisturbs
  <2> QED
    BY <1>1, <1>2, <2>1, <2>2, AnswersAreDisturbed DEF DirectoryInv
<1>5. ASSUME NEW v \in Viewers, Settles(v), AnswersHold(v)'
      PROVE  DirectoryInv'
  <2>1. \A u \in Viewers \ {v} : Rests(u)
    BY <1>5 DEF Settles, Rests
  <2>2. \A u \in Viewers \ {v} : AnswersHold(u)'
    BY <1>1, <2>1, AnswersRest
  <2> QED
    BY <1>2, <1>5, <2>2 DEF DirectoryInv, Settles
<1>6. ASSUME NEW v \in Viewers, CloseView(v)
      PROVE  DirectoryInv'
  <2>1. /\ Requests' /\ UNCHANGED <<shown, exported, edits>>
        /\ \A u \in Viewers \ {v} : viewer'[u] = viewer[u]
        /\ viewer'[v].view = "none"
    BY <1>1, <1>6, CloseReads
  <2>2. AnswersHold(v)'
    BY <2>1, OnlyThisView
  <2>3. Settles(v)
    BY <2>1 DEF Settles
  <2> QED
    BY <1>5, <2>2, <2>3
<1>7. ASSUME NEW v \in Viewers,
             \/ SearchJobs(v) \/ ListMyApplications(v) \/ ListCompanyJobs(v)
             \/ ListProfessionals(v) \/ ListAccounts(v) \/ GetAccount(v)
             \/ GetPlatformIndicators(v) \/ ExportAccounts(v)
      PROVE  DirectoryInv'
  BY <1>5, <1>7, RequestsGoOn
<1> QED
  BY <1>3, <1>4, <1>6, <1>7, Zenon DEF DirectoryNext, CommittedStep

-----------------------------------------------------------------------------
\* What the answers say together.

LEMMA PeopleAreCounted ==
    ASSUME NEW S, NEW T \in SUBSET S, S \in SUBSET People
    PROVE  /\ IsFiniteSet(S) /\ IsFiniteSet(T) /\ Cardinality(S) \in Nat /\ Cardinality(T) \in Nat
           /\ Cardinality(T) <= Cardinality(S)
<1>1. IsFiniteSet(S)
  BY DirectoryAssumption, FS_Subset
<1> QED
  BY <1>1, FS_Subset, FS_CardinalityType

LEMMA SegmentsFit ==
    ASSUME NEW filter
    PROVE  /\ Cardinality(CandidatesWithoutPlacement(filter))
                 + Cardinality(CandidatesWithUnknownEmployment(filter))
                   <= Cardinality(Candidates(filter))
           /\ Cardinality(IncompleteResumes(filter)) <= Cardinality(Candidates(filter))
<1> DEFINE S == Candidates(filter)
           A == CandidatesWithoutPlacement(filter)
           B == CandidatesWithUnknownEmployment(filter)
           C == IncompleteResumes(filter)
<1>1. S \in SUBSET People
  BY DEF Candidates
<1>2. A \in SUBSET S /\ B \in SUBSET S /\ A \cap B = {} /\ A \cup B \in SUBSET S
  BY DEF CandidatesWithoutPlacement, CandidatesWithUnknownEmployment
<1>3. C \in SUBSET S
  BY DEF IncompleteResumes
<1> HIDE DEF S, A, B, C
<1>4. Cardinality(C) <= Cardinality(S)
  BY <1>1, <1>3, PeopleAreCounted
<1>5. Cardinality(A \cup B) <= Cardinality(S)
  BY <1>1, <1>2, PeopleAreCounted
<1>6. IsFiniteSet(A) /\ IsFiniteSet(B) /\ Cardinality(A) \in Nat /\ Cardinality(B) \in Nat
  BY <1>1, <1>2, PeopleAreCounted
<1>7. Cardinality(A \cup B) = Cardinality(A) + Cardinality(B) - Cardinality(A \cap B)
  BY <1>6, FS_Union
<1>8. Cardinality(A \cap B) = 0
  BY <1>2, FS_EmptySet
<1>9. Cardinality(A) + Cardinality(B) <= Cardinality(S)
  BY <1>5, <1>6, <1>7, <1>8
<1> QED
  BY <1>4, <1>9 DEF S, A, B, C

LEMMA ApplicantsFit ==
    ASSUME NEW j \in Postings
    PROVE  Cardinality({p \in People : HasPipeline(p, j)}) <= Cardinality(ApplicationsCounted)
<1> DEFINE S == {p \in People : HasPipeline(p, j)}
           T == ApplicationsCounted
           f == [p \in S |-> <<p, j>>]
<1>1. IsFiniteSet(People \X Postings)
  BY DirectoryAssumption, FS_Product
<1>2. T \in SUBSET (People \X Postings)
  BY DEF ApplicationsCounted
<1>3. IsFiniteSet(T)
  BY <1>1, <1>2, FS_Subset
<1>4. \A p \in S : <<p, j>> \in T
  BY DEF HasPipeline, ApplicationsCounted
<1> HIDE DEF S, T
<1>5. f \in Injection(S, T)
  BY <1>4 DEF Injection, IsInjective
<1> HIDE DEF f
<1>6. Cardinality(S) <= Cardinality(T)
  BY <1>3, <1>5, FS_Injection
<1> QED
  BY <1>6 DEF S, T

\* What an answer says is so whatever was committed while it was put together.
LEMMA ViewsAlwaysHold == DirectoryInv => ViewsHold
<1> SUFFICES ASSUME DirectoryInv
             PROVE  ViewsHold
  OBVIOUS
<1> SUFFICES ASSUME NEW v \in Viewers
             PROVE  LET got == viewer[v].got IN
                    /\ Answered(v, "search", 3) =>
                          \A i, j \in DOMAIN got[2] : i # j => got[2][i] # got[2][j]
                    /\ viewer[v].view = "applications" =>
                          \A k \in 2..Len(got) : \A i \in DOMAIN got[k].similar :
                              \A r \in got[1] : r.job # got[k].similar[i]
                    /\ Answered(v, "professionals", 2) /\ viewer[v].filter = "contacted" =>
                          \A i \in DOMAIN got[1] : got[1][i] \in got[2]
                    /\ Answered(v, "export", 2) =>
                          [by |-> v, rows |-> Cardinality(got[1])] \in exported
  BY DEF ViewsHold
<1>1. AnswersHold(v)
  BY DEF DirectoryInv
<1>2. Answered(v, "search", 3) =>
         \A i, j \in DOMAIN viewer[v].got[2] : i # j => viewer[v].got[2][i] # viewer[v].got[2][j]
  BY <1>1 DEF AnswersHold, SearchHolds, Answered, Distinct
<1>3. viewer[v].view = "applications" =>
         \A k \in 2..Len(viewer[v].got) : \A i \in DOMAIN viewer[v].got[k].similar :
             \A r \in viewer[v].got[1] : r.job # viewer[v].got[k].similar[i]
  BY <1>1 DEF AnswersHold, ApplicationsHold
<1>4. Answered(v, "professionals", 2) /\ viewer[v].filter = "contacted" =>
         \A i \in DOMAIN viewer[v].got[1] : viewer[v].got[1][i] \in viewer[v].got[2]
  BY <1>1 DEF AnswersHold, ProfessionalsHold, Answered
<1>5. Answered(v, "export", 2) =>
         [by |-> v, rows |-> Cardinality(viewer[v].got[1])] \in exported
  BY <1>1 DEF AnswersHold, ExportHolds, Answered
<1> QED
  BY <1>2, <1>3, <1>4, <1>5

\* What it says is the database's own state as long as nothing was.
LEMMA UndisturbedSearch ==
    ASSUME DirectoryTypeOK, NEW v \in Viewers, SearchHolds(v), ~ viewer[v].disturbed,
           Answered(v, "search", 3)
    PROVE  LET got == viewer[v].got IN
           /\ \A j \in DOMAIN got[3] : JobDetail(viewer[v].who, j).open
           /\ \A i, j \in DOMAIN got[2] : i < j =>
                 MatchSkills(got[3][got[2][i]], got[1]).matched
                     >= MatchSkills(got[3][got[2][j]], got[1]).matched
<1> DEFINE got == viewer[v].got
           skills == got[1]
           page == got[2]
<1>1. /\ page = SearchPage(skills, viewer[v].offset) /\ viewer[v].offset \in Nat
      /\ got[3] = RequiredSkills(Members(page))
  BY DEF SearchHolds, Answered
<1>2. /\ \A i \in DOMAIN page : page[i] \in OpenJobs
      /\ \A i, j \in DOMAIN page : i < j =>
            Cardinality(posting[page[i]].skills \cap skills)
                >= Cardinality(posting[page[j]].skills \cap skills)
  BY <1>1, SearchPageIs
<1> HIDE DEF got, skills, page
<1>3. /\ DOMAIN got[3] = Members(page)
      /\ \A i \in DOMAIN page : got[3][page[i]] = posting[page[i]].skills
  BY <1>1 DEF RequiredSkills, Members
<1>4. \A j \in DOMAIN got[3] : JobDetail(viewer[v].who, j).open
  <2>1. \A j \in DOMAIN got[3] : j \in OpenJobs
    BY <1>2, <1>3 DEF Members
  <2> QED
    BY <2>1 DEF OpenJobs, JobDetail
<1>5. \A i \in DOMAIN page :
         MatchSkills(got[3][page[i]], skills).matched = Cardinality(posting[page[i]].skills \cap skills)
  BY <1>3 DEF MatchSkills
<1> QED
  BY <1>2, <1>4, <1>5 DEF got, skills, page

LEMMA UndisturbedAccounts ==
    ASSUME DirectoryTypeOK, NEW v \in Viewers, AccountsHold(v), ~ viewer[v].disturbed,
           Answered(v, "accounts", 2)
    PROVE  LET got == viewer[v].got IN
           /\ viewer[v].offset + Len(got[1]) <= got[2] \/ got[1] = <<>>
           /\ \A i \in DOMAIN got[1] :
                 /\ viewer[v].filter = "complete" => got[1][i].missing = {}
                 /\ viewer[v].filter = "incomplete" => got[1][i].missing # {}
<1> DEFINE got == viewer[v].got
           offset == viewer[v].offset
           filter == viewer[v].filter
           S == FilteredCandidates(filter)
           page == AccountPage(filter, offset)
<1>1. /\ filter \in AccountFilters /\ offset \in Nat
      /\ got[1] = AccountSummaries(filter, offset) /\ got[2] = Cardinality(S)
  BY DEF AccountsHold, Answered
<1>2. S \in SUBSET People
  BY DEF FilteredCandidates
<1>3. \A p \in S : /\ filter = "complete" => MissingFields(p) = {}
                   /\ filter = "incomplete" => MissingFields(p) # {}
  <2>1. \A p \in People : ResumeComplete(p) <=> MissingFields(p) = {}
    BY RulesAlwaysAgree DEF RulesAgree
  <2> QED
    BY <2>1 DEF FilteredCandidates
<1>4. page = Rows(S, Ascending, offset, ViewLimit) /\ ViewLimit \in Nat
  BY DirectoryAssumption DEF AccountPage, PageFrom
<1>5. got[1] = SummariesOf(page)
  BY <1>1, Zenon DEF AccountSummaries, SummariesOf, AccountPage
<1> HIDE DEF got, offset, filter, S, page
<1>6. IsFiniteSet(S) /\ S \in SUBSET Int
  <2>1. IsFiniteSet(S)
    BY <1>2, DirectoryAssumption, FS_Subset
  <2> QED
    BY <1>2, <2>1, DirectoryAssumption
<1>7. /\ page \in Seq(S) /\ DOMAIN page = 1..Len(page) /\ Len(page) \in Nat
      /\ \A i \in DOMAIN page : page[i] \in S
      /\ page = <<>> \/ offset + Len(page) <= Cardinality(S)
  BY <1>1, <1>4, <1>6, AscendingIsAnOrder, PageRows
<1>8. /\ DOMAIN got[1] = 1..Len(page) /\ Len(got[1]) = Len(page)
      /\ \A i \in 1..Len(page) : got[1][i].missing = MissingFields(page[i])
  BY <1>5, <1>7 DEF SummariesOf
<1>9. page = <<>> => got[1] = <<>>
  BY <1>5, <1>7 DEF SummariesOf
<1> QED
  BY <1>1, <1>3, <1>7, <1>8, <1>9 DEF got, offset, filter

LEMMA UndisturbedAccount ==
    ASSUME DirectoryTypeOK, NEW v \in Viewers, AccountHolds(v), ~ viewer[v].disturbed,
           Answered(v, "account", 5)
    PROVE  AccountMissingFields(viewer[v].got) = MissingFields(viewer[v].who)
<1> DEFINE got == viewer[v].got
           p == viewer[v].who
<1>1. /\ p \in People /\ got[1] = person[p].text
      /\ \A step \in 2..4 : got[step] = person[p].section[SectionOf[step]]
  BY DEF AccountHolds, Answered
<1>2. /\ got[2] = person[p].section["experiences"] /\ got[3] = person[p].section["education"]
      /\ got[4] = person[p].section["skills"]
  BY <1>1 DEF SectionOf
<1>3. person[p].section = [f \in ResumeSections |-> person[p].section[f]]
  BY <1>1 DEF DirectoryTypeOK, Persons
<1>4. [experiences |-> got[2], education |-> got[3], skills |-> got[4]] = person[p].section
  BY <1>2, <1>3 DEF ResumeSections
<1> HIDE DEF got, p
<1>5. AccountMissingFields(got) = MissingFields(p)
  BY <1>1, <1>4, Zenon DEF AccountMissingFields, MissingFields
<1> QED
  BY <1>5 DEF got, p

LEMMA UndisturbedViewsAlwaysAgree == DirectoryInv => UndisturbedViewsAgree
<1> SUFFICES ASSUME DirectoryInv
             PROVE  UndisturbedViewsAgree
  OBVIOUS
<1>1. DirectoryTypeOK /\ \A v \in Viewers : AnswersHold(v)
  BY DEF DirectoryInv
<1> SUFFICES ASSUME NEW v \in Viewers, ~ viewer[v].disturbed
             PROVE  LET got == viewer[v].got IN
                    /\ Answered(v, "search", 3) =>
                          /\ \A j \in DOMAIN got[3] : JobDetail(viewer[v].who, j).open
                          /\ \A i, j \in DOMAIN got[2] : i < j =>
                                MatchSkills(got[3][got[2][i]], got[1]).matched
                                    >= MatchSkills(got[3][got[2][j]], got[1]).matched
                    /\ Answered(v, "accounts", 2) =>
                          /\ viewer[v].offset + Len(got[1]) <= got[2] \/ got[1] = <<>>
                          /\ \A i \in DOMAIN got[1] :
                                /\ viewer[v].filter = "complete" => got[1][i].missing = {}
                                /\ viewer[v].filter = "incomplete" => got[1][i].missing # {}
                    /\ Answered(v, "account", 5) =>
                          AccountMissingFields(got) = MissingFields(viewer[v].who)
                    /\ Answered(v, "indicators", 8) =>
                          got[6] + got[7] <= got[1] /\ got[8] <= got[1]
                    /\ Answered(v, "jobs", 3) =>
                          \A j \in got[1] : got[3][j] <= Cardinality(ApplicationsCounted)
  BY Zenon DEF UndisturbedViewsAgree
<1>2. AnswersHold(v)
  BY <1>1
<1>3. ASSUME Answered(v, "indicators", 8)
      PROVE  /\ viewer[v].got[6] + viewer[v].got[7] <= viewer[v].got[1]
             /\ viewer[v].got[8] <= viewer[v].got[1]
  <2> DEFINE f == viewer[v].filter
  <2>1. /\ viewer[v].got[1] = Cardinality(Candidates(f))
        /\ viewer[v].got[6] = Counted(6, f) /\ viewer[v].got[7] = Counted(7, f)
        /\ viewer[v].got[8] = Counted(8, f)
    BY <1>2, <1>3 DEF AnswersHold, IndicatorsHold, Answered
  <2>2. /\ Counted(6, f) = Cardinality(CandidatesWithoutPlacement(f))
        /\ Counted(7, f) = Cardinality(CandidatesWithUnknownEmployment(f))
        /\ Counted(8, f) = Cardinality(IncompleteResumes(f))
    BY DEF Counted
  <2> QED
    BY <2>1, <2>2, SegmentsFit
<1>4. ASSUME Answered(v, "jobs", 3)
      PROVE  \A j \in viewer[v].got[1] : viewer[v].got[3][j] <= Cardinality(ApplicationsCounted)
  <2>1. viewer[v].got[1] \subseteq Postings /\ viewer[v].got[3] = ApplicationCounts(viewer[v].got[1])
    BY <1>2, <1>4 DEF AnswersHold, JobsHold, Answered
  <2> QED
    BY <2>1, ApplicantsFit DEF ApplicationCounts
<1>5. Answered(v, "search", 3) =>
         /\ \A j \in DOMAIN viewer[v].got[3] : JobDetail(viewer[v].who, j).open
         /\ \A i, j \in DOMAIN viewer[v].got[2] : i < j =>
               MatchSkills(viewer[v].got[3][viewer[v].got[2][i]], viewer[v].got[1]).matched
                   >= MatchSkills(viewer[v].got[3][viewer[v].got[2][j]], viewer[v].got[1]).matched
  BY <1>1, <1>2, UndisturbedSearch DEF AnswersHold
<1>6. Answered(v, "accounts", 2) =>
         /\ viewer[v].offset + Len(viewer[v].got[1]) <= viewer[v].got[2] \/ viewer[v].got[1] = <<>>
         /\ \A i \in DOMAIN viewer[v].got[1] :
               /\ viewer[v].filter = "complete" => viewer[v].got[1][i].missing = {}
               /\ viewer[v].filter = "incomplete" => viewer[v].got[1][i].missing # {}
  BY <1>1, <1>2, UndisturbedAccounts DEF AnswersHold
<1>7. Answered(v, "account", 5) =>
         AccountMissingFields(viewer[v].got) = MissingFields(viewer[v].who)
  BY <1>1, <1>2, UndisturbedAccount DEF AnswersHold
<1> QED
  BY <1>3, <1>4, <1>5, <1>6, <1>7

\* Rules that are written twice agree in every state, no answer contradicts itself
\* whatever is committed while it is read, and one during which nothing was committed
\* agrees with the database it was read from.
THEOREM ViewsAlwaysAgree == DirectorySpec => [](DirectoryTypeOK /\ ViewsAgree)
<1>1. DirectoryInv => DirectoryTypeOK /\ ViewsAgree
  BY RulesAlwaysAgree, ViewsAlwaysHold, UndisturbedViewsAlwaysAgree DEF DirectoryInv, ViewsAgree
<1> QED
  BY <1>1, DirectoryInvInit, DirectoryInvNext, PTL DEF DirectorySpec

-----------------------------------------------------------------------------
\* The composition.  Each service takes its own steps in its own area, and none in
\* the others': whatever it promises by itself it promises here.

LEMMA StepsAreOwn ==
    ASSUME [ServicesNext]_<<area, contactVars, inboxVars, directoryVars, historyVars, seedVars>>
    PROVE  /\ [ContactNext]_contactVars /\ [InboxNext]_inboxVars
           /\ [DirectoryNext]_directoryVars /\ [HistoryNext]_historyVars /\ [SeedNext]_seedVars
<1>1. CASE UNCHANGED <<area, contactVars, inboxVars, directoryVars, historyVars, seedVars>>
  BY <1>1
<1>2. CASE area = "contacts" /\ ContactNext /\ Others("contacts")
  BY <1>2 DEF Others
<1>3. CASE area = "inbox" /\ InboxNext /\ Others("inbox")
  BY <1>3 DEF Others
<1>4. CASE area = "directory" /\ DirectoryNext /\ Others("directory")
  BY <1>4 DEF Others
<1>5. CASE area = "history" /\ HistoryNext /\ Others("history")
  BY <1>5 DEF Others
<1>6. CASE area = "seed" /\ SeedNext /\ Others("seed")
  BY <1>6 DEF Others
<1> QED
  BY <1>1, <1>2, <1>3, <1>4, <1>5, <1>6 DEF ServicesNext

\* The composition implements every service it is made of.
THEOREM ServicesAreIndependent ==
    ServicesSpec => ContactSpec /\ InboxSpec /\ DirectorySpec /\ HistorySpec /\ SeedSpec
<1>1. ServicesInit => ContactInit /\ InboxInit /\ DirectoryInit /\ HistoryInit /\ SeedInit
  BY DEF ServicesInit
<1> QED
  BY <1>1, StepsAreOwn, PTL
  DEF ServicesSpec, ContactSpec, InboxSpec, DirectorySpec, HistorySpec, SeedSpec

\* Every variable of every service keeps its type.
THEOREM ServicesAreTyped == ServicesSpec => []TypeOK
<1>1. InboxSpec => []InboxTypeOK
  BY InboxInvInit, InboxInvNext, InboxInvGives, PTL DEF InboxSpec
<1>2. ContactTypeOK /\ InboxTypeOK /\ DirectoryTypeOK /\ HistoryTypeOK /\ SeedTypeOK => TypeOK
  BY DEF TypeOK
<1> QED
  BY <1>1, <1>2, ServicesAreIndependent, ContactsAreTyped, ViewsAlwaysAgree, MigrationsKeep,
     SeedHolds, PTL

\* What the product shows of its database is consistent.
THEOREM WhatIsShownAlwaysAgrees == ServicesSpec => []WhatIsShownAgrees
<1>1. ViewsAgree => WhatIsShownAgrees
  BY DEF WhatIsShownAgrees
<1> QED
  BY <1>1, ServicesAreIndependent, ViewsAlwaysAgree, PTL

\* What people saved outlives migrations and seeds.
THEOREM HistoryIsAlwaysKept == ServicesSpec => []HistoryIsKept
<1>1. SelectionsSurvive /\ CatalogStaysWhole /\ TablesFit /\ SeedIsWhole => HistoryIsKept
  BY DEF HistoryIsKept
<1> QED
  BY <1>1, ServicesAreIndependent, MigrationsKeep, SeedHolds, PTL

=============================================================================
