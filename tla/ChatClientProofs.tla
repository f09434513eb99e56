--------------------------- MODULE ChatClientProofs ---------------------------
(***************************************************************************)
(* Proofs about ChatClient, for any turns, conversations and histories in  *)
(* flight: what a page shows is its conversation.                          *)
(***************************************************************************)
EXTENDS ChatClient, TLAPS

Roles   == {"user", "assistant"}
Events  == {"token", "done", "error", "end", "lost"}
Phases  == Unfinished \union {"unsent", "done", "failed", "left"}
Rows    == Turns \X Roles
Bubbles == [turn : Turns, role : Roles, look : {"plain", "empty", "text", "complete", "failed"}]
Views   == [conv : Routes, messages : Seq(Bubbles), streaming : BOOLEAN, loading : BOOLEAN]
Histories == [conv : Convs, state : {"sent", "ok", "failed"}, got : Seq(Rows), live : BOOLEAN]

ServerTypeOK ==
  /\ alive \in [Convs -> {"unused", "live", "gone"}]
  /\ stored \in [Convs -> Seq(Rows)]
  /\ phase \in [Turns -> Phases]
  /\ home \in [Turns -> Routes]
  /\ inbox \in [Turns -> Seq(Events)]

PageTypeOK ==
  /\ route \in Routes
  /\ going \in {<<>>} \union {<<r>> : r \in Routes}
  /\ view \in Views
  /\ reading \in Turns \union {NoTurn}
  /\ thread \in Seq(Turns)
  /\ loads \subseteq Histories

TypeOK == ServerTypeOK /\ PageTypeOK

\* The database has, or had, a question of t; its conversation is settled.
Asked(t) == phase[t] \notin {"unsent", "open"}

\* The answer of t is stored, until its conversation is deleted.
Kept(t) == Contains(stored[home[t]], <<t, "assistant">>) \/ alive[home[t]] = "gone"

\* s is of messages of c, each once.
ListOf(c, s) ==
  /\ \A i \in DOMAIN s : home[s[i][1]] = c /\ Asked(s[i][1])
  /\ \A i, j \in DOMAIN s : s[i] = s[j] => i = j

\* What the server stores.
RowsInv ==
  \A c \in Convs :
    /\ ListOf(c, stored[c])
    /\ \A i \in DOMAIN stored[c] :
         stored[c][i][2] = "assistant" => phase[stored[c][i][1]] \in {"saved", "done", "left"}

\* What it says of a turn.
TurnsInv ==
  \A t \in Turns :
    /\ phase[t] \in {"asked", "answering", "saved", "done", "failed"} => home[t] \in Convs
    /\ phase[t] \in {"saved", "done"} => Kept(t)
    /\ phase[t] = "unsent" => inbox[t] = <<>>
    /\ Contains(inbox[t], "done") => phase[t] = "done"

\* A history in flight is one of its conversation; at most one is live, for
\* the page that waits for it.
LoadInv ==
  \A l \in loads :
    /\ ListOf(l.conv, l.got)
    /\ \A i \in DOMAIN l.got : l.got[i][2] = "assistant" => Kept(l.got[i][1])
    /\ l.live => l.conv = route /\ view.loading
    /\ \A k \in loads : l.live /\ k.live => k = l

\* The page writes to one conversation and reads the stream it sent last.
PageInv ==
  /\ view.streaming <=> reading # NoTurn
  /\ view.loading => thread = <<>> /\ view.messages = <<>>
  /\ \A i \in DOMAIN thread : phase[thread[i]] # "unsent"
  /\ \A i, j \in DOMAIN thread : thread[i] = thread[j] => i = j
  /\ reading # NoTurn => thread # <<>> /\ reading = thread[Len(thread)]
  /\ route # New => view.conv = route /\ \A i \in DOMAIN thread : home[thread[i]] = route

\* What a bubble says of its turn.
BubbleInv ==
  \A i \in DOMAIN view.messages :
    LET m == view.messages[i] IN
    /\ phase[m.turn] # "unsent"
    /\ m.role = "user" => m.look = "plain"
    /\ m.look = "complete" => Asked(m.turn) /\ home[m.turn] \in Convs

\* A stream ends only after an event that fills its bubble.
EndInv ==
  reading # NoTurn =>
    \A i \in DOMAIN inbox[reading] : inbox[reading][i] = "end" =>
      IF i = 1 THEN ~Contains(view.messages, Bubble(reading, "assistant", "empty"))
      ELSE inbox[reading][i - 1] \in {"done", "error"}

Complete(t) == Contains(view.messages, Bubble(t, "assistant", "complete"))

\* The conversation the page writes to is that of its complete answers.
JoinInv ==
  /\ reading # NoTurn /\ view.conv # New => home[reading] = view.conv
  /\ \A i \in DOMAIN thread : Complete(thread[i]) => view.conv = home[thread[i]]

Inv ==
  /\ TypeOK /\ RowsInv /\ TurnsInv /\ LoadInv
  /\ PageInv /\ BubbleInv /\ EndInv /\ JoinInv
  /\ ShowsItsConversation /\ FollowUpsJoin

-----------------------------------------------------------------------------
(* Types.                                                                  *)

LEMMA MoveType ==
  ASSUME phase \in [Turns -> Phases], NEW t \in Turns, NEW label \in Phases, Move(t, label)
  PROVE  phase' \in [Turns -> Phases]
BY DEF Move

LEMMA EmitType ==
  ASSUME inbox \in [Turns -> Seq(Events)], NEW t \in Turns, NEW es \in Seq(Events), Emit(t, es)
  PROVE  inbox' \in [Turns -> Seq(Events)]
BY DEF Emit

LEMMA StoreType ==
  ASSUME stored \in [Convs -> Seq(Rows)], NEW t \in Turns, NEW role \in Roles, Store(t, role)
  PROVE  stored' \in [Convs -> Seq(Rows)]
<1>1. <<t, role>> \in Rows
  BY DEF Rows
<1>2. \A c \in Convs : stored'[c] = IF c = home'[t] THEN Append(stored[c], <<t, role>>) ELSE stored[c]
  BY DEF Store
<1>3. ASSUME NEW c \in Convs PROVE stored'[c] \in Seq(Rows)
  <2>1. stored[c] \in Seq(Rows) /\ Append(stored[c], <<t, role>>) \in Seq(Rows)
    BY <1>1
  <2> QED BY <1>2, <2>1
<1> QED BY <1>3 DEF Store

\* What the catch clause leaves.
LEMMA RemoveFacts ==
  ASSUME NEW S, NEW s \in Seq(S), NEW p \in DOMAIN s
  PROVE  /\ RemoveAt(s, p) \in Seq(S)
         /\ DOMAIN RemoveAt(s, p) = 1..(Len(s) - 1)
         /\ \A i \in 1..(Len(s) - 1) : RemoveAt(s, p)[i] = IF i < p THEN s[i] ELSE s[i + 1]
<1> DEFINE low  == SubSeq(s, 1, p - 1)
           high == SubSeq(s, p + 1, Len(s))
<1>1. p \in Nat /\ 1 <= p /\ p <= Len(s) /\ Len(s) \in Nat
  OBVIOUS
<1>2. low \in Seq(S) /\ Len(low) = p - 1 /\ \A i \in 1..(p - 1) : low[i] = s[i]
  BY <1>1
<1>3. high \in Seq(S) /\ Len(high) = Len(s) - p /\ \A i \in 1..(Len(s) - p) : high[i] = s[p + i]
  BY <1>1
<1>4. RemoveAt(s, p) = low \o high
  BY DEF RemoveAt
<1> HIDE DEF low, high
<1>5. low \o high \in Seq(S) /\ Len(low \o high) = Len(s) - 1
  BY <1>1, <1>2, <1>3
<1>6. ASSUME NEW i \in 1..(Len(s) - 1)
      PROVE  (low \o high)[i] = IF i < p THEN s[i] ELSE s[i + 1]
  <2>1. CASE i < p
    BY <1>1, <1>2, <1>3, <2>1
  <2>2. CASE ~(i < p)
    <3>1. (low \o high)[i] = high[i - (p - 1)]
      BY <1>1, <1>2, <1>3, <2>2
    <3>2. i - (p - 1) \in 1..(Len(s) - p) /\ p + (i - (p - 1)) = i + 1
      BY <1>1, <2>2
    <3> QED BY <1>3, <2>2, <3>1, <3>2
  <2> QED BY <2>1, <2>2
<1> QED BY <1>4, <1>5, <1>6

LEMMA LooksType ==
  ASSUME view \in Views, NEW t \in Turns, NEW look \in {"text", "complete", "failed"}
  PROVE  /\ Looks(t, look) \in Seq(Bubbles)
         /\ DOMAIN Looks(t, look) = DOMAIN view.messages
         /\ \A i \in DOMAIN view.messages :
              /\ Looks(t, look)[i].turn = view.messages[i].turn
              /\ Looks(t, look)[i].role = view.messages[i].role
              /\ Looks(t, look)[i].look =
                   IF view.messages[i].turn = t /\ view.messages[i].role = "assistant"
                   THEN look ELSE view.messages[i].look
<1>1. view.messages \in Seq(Bubbles)
  BY DEF Views
<1>2. DOMAIN Looks(t, look) = DOMAIN view.messages
  BY DEF Looks
<1>3. ASSUME NEW i \in DOMAIN view.messages
      PROVE  /\ Looks(t, look)[i] \in Bubbles
             /\ Looks(t, look)[i].turn = view.messages[i].turn
             /\ Looks(t, look)[i].role = view.messages[i].role
             /\ Looks(t, look)[i].look =
                   IF view.messages[i].turn = t /\ view.messages[i].role = "assistant"
                   THEN look ELSE view.messages[i].look
  <2> DEFINE m == view.messages[i]
  <2>1. m \in Bubbles
    BY <1>1
  <2>2. Looks(t, look)[i] = IF m.turn = t /\ m.role = "assistant" THEN [m EXCEPT !.look = look] ELSE m
    BY DEF Looks
  <2> HIDE DEF m
  <2>3. CASE m.turn = t /\ m.role = "assistant"
    <3>1. [m EXCEPT !.look = look] \in Bubbles
      BY <2>1 DEF Bubbles
    <3>2. [m EXCEPT !.look = look].turn = m.turn /\ [m EXCEPT !.look = look].role = m.role
          /\ [m EXCEPT !.look = look].look = look
      BY <2>1 DEF Bubbles
    <3> QED BY <2>2, <2>3, <3>1, <3>2 DEF m
  <2>4. CASE ~(m.turn = t /\ m.role = "assistant")
    BY <2>1, <2>2, <2>4 DEF m
  <2> QED BY <2>3, <2>4
<1>4. Looks(t, look) \in [1..Len(view.messages) -> Bubbles]
  <2>1. Looks(t, look) = [i \in DOMAIN view.messages |-> Looks(t, look)[i]]
    BY DEF Looks
  <2>2. DOMAIN view.messages = 1..Len(view.messages)
    BY <1>1
  <2> QED BY <1>3, <2>1, <2>2
<1>5. Looks(t, look) \in Seq(Bubbles)
  BY <1>1, <1>4
<1> QED BY <1>2, <1>3, <1>5

LEMMA RestoredType ==
  ASSUME NEW got \in Seq(Rows)
  PROVE  Restored(got) \in Seq(Bubbles)
<1>1. \A i \in DOMAIN got : Restored(got)[i] \in Bubbles
  BY DEF Restored, Bubble, Bubbles, Rows, Roles
<1> QED BY <1>1 DEF Restored

\* A bubble, and what useChat starts a page with.
LEMMA FreshType ==
  ASSUME NEW r \in Routes
  PROVE  /\ Fresh(r) \in Views /\ Fresh(r).conv = r /\ Fresh(r).messages = <<>>
         /\ Fresh(r).streaming = FALSE /\ (Fresh(r).loading <=> r # New)
<1>1. Fresh(r).loading \in BOOLEAN /\ (Fresh(r).loading <=> r # New)
  BY DEF Fresh
<1> DEFINE waits == r # New
<1>2. waits \in BOOLEAN /\ Fresh(r) = [conv |-> r, messages |-> <<>>, streaming |-> FALSE, loading |-> waits]
  BY DEF Fresh
<1> HIDE DEF waits
<1>3. Fresh(r) \in Views
  BY <1>2 DEF Views
<1> QED BY <1>1, <1>2, <1>3

LEMMA BubbleType ==
  ASSUME NEW t \in Turns, NEW role \in Roles,
         NEW look \in {"plain", "empty", "text", "complete", "failed"}
  PROVE  /\ Bubble(t, role, look) \in Bubbles
         /\ Bubble(t, role, look).turn = t /\ Bubble(t, role, look).role = role
         /\ Bubble(t, role, look).look = look
BY DEF Bubble, Bubbles

LEMMA PlaceholderType ==
  ASSUME view \in Views, NEW t \in Turns
  PROVE  WithoutPlaceholder(t) \in Seq(Bubbles)
<1> DEFINE empty == Bubble(t, "assistant", "empty")
           place == CHOOSE i \in DOMAIN view.messages : view.messages[i] = empty
<1>1. view.messages \in Seq(Bubbles)
  BY DEF Views
<1>2. CASE Contains(view.messages, empty)
  <2>1. place \in DOMAIN view.messages
    BY <1>1, <1>2 DEF Contains
  <2>2. WithoutPlaceholder(t) = RemoveAt(view.messages, place)
    BY <1>2 DEF WithoutPlaceholder
  <2> HIDE DEF place
  <2> QED BY <1>1, <2>1, <2>2, RemoveFacts
<1>3. CASE ~Contains(view.messages, empty)
  BY <1>1, <1>3 DEF WithoutPlaceholder
<1> QED BY <1>2, <1>3

LEMMA ReadType ==
  ASSUME TypeOK, NEW e \in Events, Event(e)
  PROVE  /\ reading \in Turns /\ inbox[reading] \in Seq(Events)
         /\ inbox[reading] # <<>> /\ Head(inbox[reading]) = e
         /\ Consume(reading) => inbox' \in [Turns -> Seq(Events)]
<1>1. reading \in Turns /\ inbox[reading] # <<>> /\ Head(inbox[reading]) = e
  BY DEF Event
<1>2. inbox \in [Turns -> Seq(Events)] /\ inbox[reading] \in Seq(Events)
  BY <1>1 DEF TypeOK, ServerTypeOK
<1>3. Tail(inbox[reading]) \in Seq(Events)
  BY <1>1, <1>2
<1> QED BY <1>1, <1>2, <1>3 DEF Consume

LEMMA InitType ==
  ASSUME ClientAssumption, Init
  PROVE  TypeOK
<1>1. ServerTypeOK
  BY DEF Init, ServerTypeOK, Phases, Unfinished, Routes
<1>2. New \in Routes /\ NoTurn \in {NoTurn} /\ <<>> \in Seq(Turns) /\ <<>> \in {<<>>}
  BY DEF Routes
<1>3. view \in Views
  BY <1>2, FreshType DEF Init
<1>4. PageTypeOK
  BY <1>2, <1>3 DEF Init, PageTypeOK
<1> QED BY <1>1, <1>4 DEF TypeOK

LEMMA ServeType ==
  ASSUME TypeOK, NEW t \in Turns, Serve(t)
  PROVE  TypeOK'
<1> USE DEF TypeOK
<1>0. ServerTypeOK /\ \A r \in Convs : r \in Routes
  BY DEF Routes
<1>1. CASE Ask(t)
  <2>1. UNCHANGED <<inbox, page, going, loads>> /\ Store(t, "user") /\ Move(t, "asked")
    BY <1>1 DEF Ask
  <2>2. alive' \in [Convs -> {"unused", "live", "gone"}] /\ home' \in [Turns -> Routes]
    BY <1>0, <1>1 DEF Ask, ServerTypeOK
  <2>3. stored' \in [Convs -> Seq(Rows)] /\ phase' \in [Turns -> Phases]
    BY <1>0, <2>1, StoreType, MoveType DEF ServerTypeOK, Roles, Phases, Unfinished
  <2> QED BY <1>0, <2>1, <2>2, <2>3 DEF ServerTypeOK, PageTypeOK, page
<1>2. CASE Token(t)
  <2>1. <<"token">> \in Seq(Events) /\ "answering" \in Phases
    BY DEF Events, Phases, Unfinished
  <2>2. phase' \in [Turns -> Phases] /\ inbox' \in [Turns -> Seq(Events)]
    BY <1>0, <1>2, <2>1, EmitType, MoveType DEF Token, ServerTypeOK
  <2> QED BY <1>0, <1>2, <2>2 DEF Token, ServerTypeOK, PageTypeOK, page
<1>3. CASE Save(t)
  <2>1. stored' \in [Convs -> Seq(Rows)] /\ phase' \in [Turns -> Phases]
    BY <1>0, <1>3, StoreType, MoveType DEF Save, ServerTypeOK, Roles, Phases, Unfinished
  <2> QED BY <1>0, <1>3, <2>1 DEF Save, ServerTypeOK, PageTypeOK, page
<1>4. CASE Done(t)
  <2>1. <<"done", "end">> \in Seq(Events) /\ "done" \in Phases
    BY DEF Events, Phases
  <2>2. phase' \in [Turns -> Phases] /\ inbox' \in [Turns -> Seq(Events)]
    BY <1>0, <1>4, <2>1, EmitType, MoveType DEF Done, ServerTypeOK
  <2> QED BY <1>0, <1>4, <2>2 DEF Done, ServerTypeOK, PageTypeOK, page
<1>5. CASE Fail(t)
  <2>1. <<"error", "end">> \in Seq(Events) /\ "failed" \in Phases
    BY DEF Events, Phases
  <2>2. phase' \in [Turns -> Phases] /\ inbox' \in [Turns -> Seq(Events)]
    BY <1>0, <1>5, <2>1, EmitType, MoveType DEF Fail, ServerTypeOK
  <2> QED BY <1>0, <1>5, <2>2 DEF Fail, ServerTypeOK, PageTypeOK, page
<1>6. CASE Break(t)
  <2>1. phase[t] \in Phases /\ "left" \in Phases
    BY <1>0 DEF ServerTypeOK, Phases
  <2>2. phase' \in [Turns -> Phases]
    BY <1>0, <1>6, <2>1 DEF Break, Move, ServerTypeOK
  <2>3. PICK n \in 0..Len(inbox[t]) :
          inbox' = [inbox EXCEPT ![t] = Append(SubSeq(@, 1, n), "lost")]
    BY <1>6 DEF Break
  <2>4. inbox[t] \in Seq(Events) /\ "lost" \in Events
    BY <1>0 DEF ServerTypeOK, Events
  <2>5. SubSeq(inbox[t], 1, n) \in Seq(Events)
    BY <2>4
  <2>6. inbox' \in [Turns -> Seq(Events)]
    BY <1>0, <2>3, <2>4, <2>5 DEF ServerTypeOK
  <2> QED BY <1>0, <1>6, <2>2, <2>6 DEF Break, ServerTypeOK, PageTypeOK, page
<1> QED BY <1>1, <1>2, <1>3, <1>4, <1>5, <1>6 DEF Serve

LEMMA LoadType ==
  ASSUME TypeOK, Load
  PROVE  TypeOK'
<1> USE DEF TypeOK
<1>1. PICK l \in loads : ServeHistory(l) \/ DeliverHistory(l)
  BY DEF Load
<1>2. l \in Histories /\ loads \subseteq Histories /\ stored[l.conv] \in Seq(Rows)
  BY DEF ServerTypeOK, PageTypeOK, Histories
<1>3. CASE ServeHistory(l)
  <2>1. [l EXCEPT !.state = "ok", !.got = stored[l.conv]] \in Histories
    BY <1>2 DEF Histories
  <2>2. [l EXCEPT !.state = "failed"] \in Histories
    BY <1>2 DEF Histories
  <2>3. loads' \subseteq Histories
    BY <1>2, <1>3, <2>1, <2>2 DEF ServeHistory
  <2> QED BY <1>3, <2>3 DEF ServeHistory, ServerTypeOK, PageTypeOK, server, page
<1>4. CASE DeliverHistory(l)
  <2>1. Restored(l.got) \in Seq(Bubbles) /\ view \in Views
    BY <1>2, RestoredType DEF Histories, PageTypeOK
  <2>2. view.messages \in Seq(Bubbles)
    BY <2>1 DEF Views
  <2>3. view' \in Views
    <3> DEFINE s == IF l.state = "ok" THEN Restored(l.got) ELSE view.messages
    <3>1. s \in Seq(Bubbles)
      BY <2>1, <2>2
    <3>2. view' = IF l.live THEN [view EXCEPT !.loading = FALSE, !.messages = s] ELSE view
      BY <1>4 DEF DeliverHistory
    <3> HIDE DEF s
    <3> QED BY <2>1, <3>1, <3>2 DEF Views
  <2> QED BY <1>2, <1>4, <2>3 DEF DeliverHistory, ServerTypeOK, PageTypeOK, server
<1> QED BY <1>1, <1>3, <1>4

LEMMA ReadStepType ==
  ASSUME TypeOK, Read
  PROVE  TypeOK'
<1>0. view \in Views /\ ServerTypeOK /\ PageTypeOK /\ view.messages \in Seq(Bubbles)
  BY DEF TypeOK, PageTypeOK, Views
<1>1. CASE ReadToken
  <2>1. reading \in Turns /\ inbox' \in [Turns -> Seq(Events)]
    BY <1>1, ReadType DEF ReadToken, Events
  <2>2. Looks(reading, "text") \in Seq(Bubbles)
    BY <1>0, <2>1, LooksType
  <2>3. view' \in Views
    BY <1>0, <1>1, <2>2 DEF ReadToken, Views
  <2> QED BY <1>0, <1>1, <2>1, <2>3 DEF ReadToken, TypeOK, ServerTypeOK, PageTypeOK, server
<1>2. CASE ReadDone
  <2>1. reading \in Turns /\ inbox' \in [Turns -> Seq(Events)]
    BY <1>2, ReadType DEF ReadDone, Events
  <2>2. Looks(reading, "complete") \in Seq(Bubbles) /\ home[reading] \in Routes
    BY <1>0, <2>1, LooksType DEF ServerTypeOK
  <2>3. view' \in Views
    BY <1>0, <1>2, <2>2 DEF ReadDone, Views
  <2>4. going' \in {<<>>} \union {<<r>> : r \in Routes}
    BY <1>0, <1>2, <2>2 DEF ReadDone, PageTypeOK
  <2> QED BY <1>0, <1>2, <2>1, <2>3, <2>4 DEF ReadDone, TypeOK, ServerTypeOK, PageTypeOK, server
<1>3. CASE ReadError
  <2>1. reading \in Turns /\ inbox' \in [Turns -> Seq(Events)]
    BY <1>3, ReadType DEF ReadError, Events
  <2>2. Looks(reading, "failed") \in Seq(Bubbles)
    BY <1>0, <2>1, LooksType
  <2>3. view' \in Views
    BY <1>0, <1>3, <2>2 DEF ReadError, Views
  <2> QED BY <1>0, <1>3, <2>1, <2>3 DEF ReadError, TypeOK, ServerTypeOK, PageTypeOK, server
<1>4. CASE ReadEnd
  <2>1. reading \in Turns /\ inbox' \in [Turns -> Seq(Events)]
    BY <1>4, ReadType DEF ReadEnd, Events
  <2>2. WithoutPlaceholder(reading) \in Seq(Bubbles)
    BY <1>0, <2>1, PlaceholderType
  <2>3. view' \in Views
    BY <1>0, <1>4, <2>2 DEF ReadEnd, Views
  <2> QED BY <1>0, <1>4, <2>1, <2>3 DEF ReadEnd, TypeOK, ServerTypeOK, PageTypeOK, server
<1> QED BY <1>1, <1>2, <1>3, <1>4 DEF Read

LEMMA ArriveType ==
  ASSUME TypeOK, Arrive
  PROVE  TypeOK'
<1> DEFINE r == going[1]
           new == [conv |-> r, state |-> "sent", got |-> <<>>, live |-> TRUE]
           cancelled == {[l EXCEPT !.live = FALSE] : l \in loads}
<1>1. r \in Routes /\ loads \subseteq Histories
  BY DEF TypeOK, PageTypeOK, Arrive
<1>2. cancelled \subseteq Histories
  <2>1. \A l \in loads : [l EXCEPT !.live = FALSE] \in Histories
    BY <1>1 DEF Histories
  <2> QED BY <2>1
<1>3. r # New => new \in Histories
  BY <1>1 DEF Histories, Routes
<1>4. loads' = IF r = New THEN cancelled ELSE cancelled \union {new}
  BY DEF Arrive
<1>5. loads' \subseteq Histories
  <2> HIDE DEF new, cancelled, r
  <2> QED BY <1>2, <1>3, <1>4
<1>6. view' \in Views /\ route' \in Routes
  BY <1>1, FreshType DEF Arrive
<1>7. <<>> \in Seq(Turns) /\ inbox' \in [Turns -> Seq(Events)]
  BY DEF Arrive
<1> QED BY <1>5, <1>6, <1>7 DEF Arrive, TypeOK, ServerTypeOK, PageTypeOK, server

LEMMA SendType ==
  ASSUME TypeOK, NEW t \in Turns, Send(t)
  PROVE  TypeOK'
<1> DEFINE pair == <<Bubble(t, "user", "plain"), Bubble(t, "assistant", "empty")>>
<1>0. view \in Views /\ ServerTypeOK /\ PageTypeOK /\ view.messages \in Seq(Bubbles) /\ view.conv \in Routes
  BY DEF TypeOK, PageTypeOK, Views
<1>1. pair \in Seq(Bubbles)
  BY BubbleType DEF Roles
<1>2. view' = [view EXCEPT !.streaming = TRUE, !.messages = @ \o pair]
  BY DEF Send
<1> HIDE DEF pair
<1>3. view' \in Views
  <2>1. view.messages \o pair \in Seq(Bubbles)
    BY <1>0, <1>1
  <2> DEFINE s == view.messages \o pair
  <2>2. view' = [view EXCEPT !.streaming = TRUE, !.messages = s]
    BY <1>2
  <2> HIDE DEF s
  <2>3. s \in Seq(Bubbles)
    BY <2>1 DEF s
  <2> QED BY <1>0, <2>2, <2>3 DEF Views
<1>4. phase' \in [Turns -> Phases] /\ home' \in [Turns -> Routes]
  BY <1>0, MoveType DEF Send, ServerTypeOK, Phases, Unfinished
<1>5. thread' \in Seq(Turns)
  BY <1>0 DEF Send, PageTypeOK
<1> QED BY <1>0, <1>3, <1>4, <1>5 DEF Send, TypeOK, ServerTypeOK, PageTypeOK

LEMMA TypeStep ==
  ASSUME TypeOK, [Next]_vars
  PROVE  TypeOK'
<1>1. CASE \E t \in Turns : Send(t) \/ Serve(t)
  BY <1>1, SendType, ServeType
<1>2. ASSUME NEW t \in Turns, Leave(t) PROVE TypeOK'
  <2>1. phase' \in [Turns -> Phases]
    BY <1>2, MoveType DEF Leave, TypeOK, ServerTypeOK, Phases
  <2> QED BY <1>2, <2>1 DEF Leave, TypeOK, ServerTypeOK, PageTypeOK, page
<1>3. CASE Read \/ Load \/ Arrive
  BY <1>3, ReadStepType, LoadType, ArriveType
<1>4. ASSUME NEW r \in Routes, Navigate(r) PROVE TypeOK'
  BY <1>4 DEF Navigate, TypeOK, ServerTypeOK, PageTypeOK, server, page
<1>5. CASE Stay
  BY <1>5 DEF Stay, TypeOK, ServerTypeOK, PageTypeOK, server, page
<1>6. ASSUME NEW c \in Convs, DeleteConversation(c) PROVE TypeOK'
  <2>1. stored' \in [Convs -> Seq(Rows)]
    BY <1>6 DEF DeleteConversation, TypeOK, ServerTypeOK
  <2>2. alive' \in [Convs -> {"unused", "live", "gone"}]
    BY <1>6 DEF DeleteConversation, TypeOK, ServerTypeOK
  <2> QED BY <1>6, <2>1, <2>2 DEF DeleteConversation, TypeOK, ServerTypeOK, PageTypeOK, page
<1>7. CASE UNCHANGED vars
  BY <1>7 DEF vars, server, page, TypeOK, ServerTypeOK, PageTypeOK
<1> QED BY <1>1, <1>2, <1>3, <1>4, <1>5, <1>6, <1>7 DEF Next

-----------------------------------------------------------------------------
(* What no step takes back: the conversation a turn has found, and the     *)
(* answer stored for it.                                                   *)

AskedNext(t) == phase'[t] \notin {"unsent", "open"}
KeptNext(t)  == Contains(stored'[home'[t]], <<t, "assistant">>) \/ alive'[home'[t]] = "gone"

Forward ==
  \A t \in Turns :
    /\ Asked(t) => AskedNext(t) /\ home'[t] = home[t]
    /\ phase[t] # "unsent" => phase'[t] # "unsent"
    /\ phase[t] # "unsent" /\ home[t] # New => home'[t] = home[t]
    /\ Asked(t) /\ home[t] \in Convs /\ Kept(t) => KeptNext(t)

LEMMA StoreFacts ==
  ASSUME stored \in [Convs -> Seq(Rows)], NEW t \in Turns, NEW role \in Roles, Store(t, role),
         NEW c \in Convs
  PROVE  /\ c # home'[t] => stored'[c] = stored[c]
         /\ c = home'[t] =>
              /\ stored'[c] = Append(stored[c], <<t, role>>)
              /\ DOMAIN stored'[c] = 1..(Len(stored[c]) + 1)
              /\ stored'[c][Len(stored[c]) + 1] = <<t, role>>
              /\ Contains(stored'[c], <<t, role>>)
         /\ Len(stored[c]) \in Nat /\ DOMAIN stored[c] = 1..Len(stored[c])
         /\ \A i \in DOMAIN stored[c] : stored'[c][i] = stored[c][i] /\ i \in DOMAIN stored'[c]
         /\ \A row : Contains(stored[c], row) => Contains(stored'[c], row)
<1>1. stored[c] \in Seq(Rows)
  OBVIOUS
<1>2. CASE c # home'[t]
  <2>1. stored'[c] = stored[c]
    BY <1>2 DEF Store
  <2> QED BY <1>1, <1>2, <2>1
<1>3. CASE c = home'[t]
  <2>1. stored'[c] = Append(stored[c], <<t, role>>)
    BY <1>3 DEF Store
  <2> DEFINE row == <<t, role>>
             s == stored[c]
  <2>2. s \in Seq(Rows) /\ stored'[c] = Append(s, row)
    BY <1>1, <2>1
  <2> HIDE DEF row, s
  <2>3. /\ Len(s) \in Nat /\ DOMAIN s = 1..Len(s) /\ DOMAIN Append(s, row) = 1..(Len(s) + 1)
        /\ Len(Append(s, row)) = Len(s) + 1
        /\ Append(s, row)[Len(s) + 1] = row
        /\ \A i \in 1..Len(s) : Append(s, row)[i] = s[i]
    BY <2>2
  <2>4. Contains(Append(s, row), row) /\ \A x : Contains(s, x) => Contains(Append(s, row), x)
    BY <2>3 DEF Contains
  <2>5. \A i \in DOMAIN s : Append(s, row)[i] = s[i] /\ i \in DOMAIN Append(s, row)
    BY <2>3
  <2> QED BY <1>3, <2>2, <2>3, <2>4, <2>5 DEF row, s
<1> QED BY <1>2, <1>3

\* The turn of a broken stream ends, or goes on.
LEMMA BreakPhase ==
  ASSUME phase \in [Turns -> Phases], NEW t \in Turns, Break(t)
  PROVE  \E label \in Phases :
           phase' = [phase EXCEPT ![t] = label] /\ label \in {phase[t], "left"}
<1>1. CASE phase' = phase
  BY <1>1
<1>2. CASE Move(t, "left")
  BY <1>2 DEF Move, Phases
<1> QED BY <1>1, <1>2 DEF Break

LEMMA ForwardStep ==
  ASSUME TypeOK, [Next]_vars
  PROVE  Forward
<1>0. /\ alive \in [Convs -> {"unused", "live", "gone"}] /\ stored \in [Convs -> Seq(Rows)]
      /\ phase \in [Turns -> Phases] /\ home \in [Turns -> Routes]
  BY DEF TypeOK, ServerTypeOK
<1>1. ASSUME NEW t \in Turns, Ask(t) PROVE Forward
  <2>1. PICK c \in Convs :
          /\ IF home[t] = New THEN alive[c] = "unused" ELSE c = home[t] /\ alive[c] = "live"
          /\ home' = [home EXCEPT ![t] = c]
          /\ alive' = [alive EXCEPT ![c] = "live"]
    BY <1>1 DEF Ask
  <2>2. phase[t] = "open" /\ phase' = [phase EXCEPT ![t] = "asked"] /\ Store(t, "user")
    BY <1>1 DEF Ask, Move
  <2>3. \A d \in Convs : alive[d] = "gone" => alive'[d] = "gone"
    BY <1>0, <2>1
  <2>4. \A d \in Convs : \A row : Contains(stored[d], row) => Contains(stored'[d], row)
    BY <1>0, <2>2, StoreFacts DEF Roles
  <2>5. \A u \in Turns : Asked(u) => AskedNext(u) /\ home'[u] = home[u]
    BY <1>0, <2>1, <2>2 DEF Asked, AskedNext
  <2>6. \A u \in Turns : phase[u] # "unsent" => phase'[u] # "unsent"
    BY <1>0, <2>2
  <2>7. \A u \in Turns : phase[u] # "unsent" /\ home[u] # New => home'[u] = home[u]
    BY <1>0, <2>1
  <2>8. \A u \in Turns : Asked(u) /\ home[u] \in Convs /\ Kept(u) => KeptNext(u)
    BY <2>3, <2>4, <2>5 DEF Kept, KeptNext
  <2> QED BY <2>5, <2>6, <2>7, <2>8 DEF Forward
<1>2. ASSUME NEW t \in Turns, Save(t) PROVE Forward
  <2>1. /\ phase' = [phase EXCEPT ![t] = "saved"] /\ Store(t, "assistant")
        /\ phase[t] \in {"asked", "answering"} /\ UNCHANGED <<home, alive>>
    BY <1>2 DEF Save, Move
  <2>2. \A d \in Convs : \A row : Contains(stored[d], row) => Contains(stored'[d], row)
    BY <1>0, <2>1, StoreFacts DEF Roles
  <2>3. \A u \in Turns : Asked(u) => AskedNext(u) /\ home'[u] = home[u]
    BY <1>0, <2>1 DEF Asked, AskedNext
  <2>4. \A u \in Turns : phase[u] # "unsent" => phase'[u] # "unsent"
    BY <1>0, <2>1
  <2>5. \A u \in Turns : Asked(u) /\ home[u] \in Convs /\ Kept(u) => KeptNext(u)
    BY <2>1, <2>2, <2>3 DEF Kept, KeptNext
  <2> QED BY <2>1, <2>3, <2>4, <2>5 DEF Forward
<1>3. ASSUME NEW t \in Turns, Token(t) \/ Done(t) \/ Fail(t) \/ Break(t) \/ Leave(t) PROVE Forward
  <2>1. /\ UNCHANGED <<alive, stored, home>>
        /\ \E label \in Phases :
             /\ phase' = [phase EXCEPT ![t] = label]
             /\ label \in {"unsent", "open"} => label = phase[t]
    <3>1. CASE Token(t)
      BY <3>1 DEF Token, Move, Asked, Phases, Unfinished
    <3>2. CASE Done(t)
      BY <3>2 DEF Done, Move, Asked, Phases, Unfinished
    <3>3. CASE Fail(t)
      BY <3>3 DEF Fail, Move, Asked, Phases, Unfinished
    <3>4. CASE Break(t)
      <4>1. PICK label \in Phases : phase' = [phase EXCEPT ![t] = label] /\ label \in {phase[t], "left"}
        BY <1>0, <3>4, BreakPhase
      <4>2. UNCHANGED <<alive, stored, home>>
        BY <3>4 DEF Break
      <4> QED BY <4>1, <4>2
    <3>5. CASE Leave(t)
      BY <3>5 DEF Leave, Move, Asked, Phases, Unfinished
    <3> QED BY <1>3, <3>1, <3>2, <3>3, <3>4, <3>5
  <2>2. \A u \in Turns : Asked(u) => AskedNext(u)
    BY <1>0, <2>1 DEF Asked, AskedNext
  <2>3. \A u \in Turns : phase[u] # "unsent" => phase'[u] # "unsent"
    BY <1>0, <2>1
  <2>4. \A u \in Turns : Kept(u) => KeptNext(u)
    BY <2>1 DEF Kept, KeptNext
  <2> QED BY <2>1, <2>2, <2>3, <2>4 DEF Forward
<1>4. ASSUME NEW c \in Convs, DeleteConversation(c) PROVE Forward
  <2>1. /\ UNCHANGED <<phase, home>> /\ alive' = [alive EXCEPT ![c] = "gone"]
        /\ stored' = [stored EXCEPT ![c] = <<>>]
    BY <1>4 DEF DeleteConversation
  <2>2. \A u \in Turns : Asked(u) => AskedNext(u)
    BY <2>1 DEF Asked, AskedNext
  <2>3. \A u \in Turns : home[u] \in Convs /\ Kept(u) => KeptNext(u)
    BY <1>0, <2>1 DEF Kept, KeptNext
  <2> QED BY <2>1, <2>2, <2>3 DEF Forward
<1>5. ASSUME NEW t \in Turns, Send(t) PROVE Forward
  <2>1. /\ phase[t] = "unsent" /\ phase' = [phase EXCEPT ![t] = "open"]
        /\ home' = [home EXCEPT ![t] = view.conv] /\ UNCHANGED <<alive, stored>>
    BY <1>5 DEF Send, Move
  <2>2. \A u \in Turns : Asked(u) => AskedNext(u) /\ home'[u] = home[u]
    BY <1>0, <2>1 DEF Asked, AskedNext
  <2>3. \A u \in Turns : phase[u] # "unsent" => phase'[u] # "unsent" /\ home'[u] = home[u]
    BY <1>0, <2>1
  <2>4. \A u \in Turns : Asked(u) /\ Kept(u) => KeptNext(u)
    BY <2>1, <2>2 DEF Kept, KeptNext
  <2> QED BY <2>2, <2>3, <2>4 DEF Forward
<1>6. CASE UNCHANGED server
  <2>1. \A u \in Turns : (Asked(u) => AskedNext(u)) /\ (Kept(u) => KeptNext(u))
    BY <1>6 DEF server, Asked, Kept, AskedNext, KeptNext
  <2> QED BY <1>6, <2>1 DEF server, Forward
<1>7. CASE Read
  BY <1>6, <1>7 DEF Read, ReadToken, ReadDone, ReadError, ReadEnd
<1>8. CASE Load
  BY <1>6, <1>8 DEF Load, ServeHistory, DeliverHistory
<1>9. CASE Arrive \/ Stay \/ \E r \in Routes : Navigate(r)
  BY <1>6, <1>9 DEF Arrive, Stay, Navigate
<1>10. CASE UNCHANGED vars
  BY <1>6, <1>10 DEF vars
<1> QED BY <1>1, <1>2, <1>3, <1>4, <1>5, <1>7, <1>8, <1>9, <1>10 DEF Next, Serve

-----------------------------------------------------------------------------
(* What the server stores and says.                                        *)

\* Rows of turns that have a conversation stay theirs.
LEMMA ListKept ==
  ASSUME Forward, NEW c, NEW s, s \in Seq(Rows), ListOf(c, s)
  PROVE  /\ \A i \in DOMAIN s : home'[s[i][1]] = c /\ AskedNext(s[i][1])
         /\ \A i, j \in DOMAIN s : s[i] = s[j] => i = j
<1>1. ASSUME NEW i \in DOMAIN s PROVE s[i][1] \in Turns
  <2>1. s[i] \in Turns \X Roles
    BY DEF Rows
  <2> QED BY <2>1
<1> QED BY <1>1 DEF ListOf, Forward

\* A row is added once: no row of the same turn and role is there.
LEMMA RowsStore ==
  ASSUME TypeOK, RowsInv, Forward, NEW t \in Turns, NEW role \in Roles, Store(t, role), AskedNext(t),
         \A c \in Convs : \A i \in DOMAIN stored[c] : stored[c][i] # <<t, role>>,
         \A u \in Turns : phase[u] \in {"saved", "done", "left"} => phase'[u] \in {"saved", "done", "left"},
         role = "assistant" => phase'[t] = "saved"
  PROVE  RowsInv'
<1>0. stored \in [Convs -> Seq(Rows)]
  BY DEF TypeOK, ServerTypeOK
<1>1. SUFFICES ASSUME NEW c \in Convs
               PROVE  /\ \A i \in DOMAIN stored'[c] : home'[stored'[c][i][1]] = c /\ AskedNext(stored'[c][i][1])
                      /\ \A i, j \in DOMAIN stored'[c] : stored'[c][i] = stored'[c][j] => i = j
                      /\ \A i \in DOMAIN stored'[c] : stored'[c][i][2] = "assistant" =>
                           phase'[stored'[c][i][1]] \in {"saved", "done", "left"}
  BY DEF RowsInv, ListOf, Asked, AskedNext
<1> DEFINE s == stored[c]
<1>2. s \in Seq(Rows) /\ ListOf(c, s)
  BY <1>0 DEF RowsInv
<1>3. /\ \A i \in DOMAIN s : home'[s[i][1]] = c /\ AskedNext(s[i][1])
      /\ \A i, j \in DOMAIN s : s[i] = s[j] => i = j
  BY <1>2, ListKept
<1>4. ASSUME NEW i \in DOMAIN s, s[i][2] = "assistant"
      PROVE  phase'[s[i][1]] \in {"saved", "done", "left"}
  <2>1. s[i] \in Turns \X Roles
    BY <1>2 DEF Rows
  <2> QED BY <1>4, <2>1 DEF RowsInv
<1>5. CASE c # home'[t]
  <2>1. stored'[c] = s
    BY <1>0, <1>5, StoreFacts
  <2> HIDE DEF s
  <2> QED BY <1>3, <1>4, <2>1
<1>6. CASE c = home'[t]
  <2> DEFINE n == Len(s)
             z == stored'[c]
  <2>1. /\ n \in Nat /\ DOMAIN s = 1..n /\ DOMAIN z = 1..(n + 1) /\ z[n + 1] = <<t, role>>
        /\ \A i \in 1..n : z[i] = s[i]
    BY <1>0, <1>6, StoreFacts
  <2>2. \A i \in 1..n : s[i] # <<t, role>>
    BY <2>1
  <2> HIDE DEF s, n, z
  <2>3. \A i \in DOMAIN z : i \in 1..n \/ i = n + 1
    BY <2>1
  <2>4. <<t, role>>[1] = t /\ <<t, role>>[2] = role
    OBVIOUS
  <2>5. \A i \in DOMAIN z : home'[z[i][1]] = c /\ AskedNext(z[i][1])
    BY <1>3, <1>6, <2>1, <2>3, <2>4
  <2>6. \A i, j \in DOMAIN z : z[i] = z[j] => i = j
    BY <1>3, <2>1, <2>2, <2>3
  <2>7. \A i \in DOMAIN z : z[i][2] = "assistant" => phase'[z[i][1]] \in {"saved", "done", "left"}
    BY <1>4, <2>1, <2>3, <2>4
  <2> QED BY <2>5, <2>6, <2>7 DEF z
<1> QED BY <1>5, <1>6

LEMMA RowsSame ==
  ASSUME TypeOK, RowsInv, Forward, 
         \A c \in Convs : stored'[c] = stored[c] \/ stored'[c] = <<>>,
         \A u \in Turns : phase[u] \in {"saved", "done", "left"} => phase'[u] \in {"saved", "done", "left"}
  PROVE  RowsInv'
<1>0. stored \in [Convs -> Seq(Rows)]
  BY DEF TypeOK, ServerTypeOK
<1>1. SUFFICES ASSUME NEW c \in Convs
               PROVE  /\ \A i \in DOMAIN stored'[c] : home'[stored'[c][i][1]] = c /\ AskedNext(stored'[c][i][1])
                      /\ \A i, j \in DOMAIN stored'[c] : stored'[c][i] = stored'[c][j] => i = j
                      /\ \A i \in DOMAIN stored'[c] : stored'[c][i][2] = "assistant" =>
                           phase'[stored'[c][i][1]] \in {"saved", "done", "left"}
  BY DEF RowsInv, ListOf, Asked, AskedNext
<1>2. CASE stored'[c] = <<>>
  BY <1>2
<1>3. CASE stored'[c] = stored[c]
  <2> DEFINE s == stored[c]
  <2>1. s \in Seq(Rows) /\ ListOf(c, s)
    BY <1>0 DEF RowsInv
  <2>2. /\ \A i \in DOMAIN s : home'[s[i][1]] = c /\ AskedNext(s[i][1])
        /\ \A i, j \in DOMAIN s : s[i] = s[j] => i = j
    BY <2>1, ListKept
  <2>3. ASSUME NEW i \in DOMAIN s, s[i][2] = "assistant"
        PROVE  phase'[s[i][1]] \in {"saved", "done", "left"}
    <3>1. s[i] \in Turns \X Roles
      BY <2>1 DEF Rows
    <3> QED BY <2>3, <3>1 DEF RowsInv
  <2> HIDE DEF s
  <2> QED BY <1>3, <2>2, <2>3 DEF s
<1> QED BY <1>2, <1>3

LEMMA RowsStep ==
  ASSUME TypeOK, RowsInv, TurnsInv, [Next]_vars
  PROVE  RowsInv'
<1>0. /\ alive \in [Convs -> {"unused", "live", "gone"}] /\ stored \in [Convs -> Seq(Rows)]
      /\ phase \in [Turns -> Phases] /\ home \in [Turns -> Routes] /\ Forward
  BY ForwardStep DEF TypeOK, ServerTypeOK
<1>1. ASSUME NEW t \in Turns, Ask(t) PROVE RowsInv'
  <2>1. phase[t] = "open" /\ phase' = [phase EXCEPT ![t] = "asked"] /\ Store(t, "user")
    BY <1>1 DEF Ask, Move
  <2>2. \A c \in Convs : \A i \in DOMAIN stored[c] : stored[c][i] # <<t, "user">>
    BY <2>1 DEF RowsInv, ListOf, Asked
  <2>3. AskedNext(t)
    BY <1>0, <2>1 DEF Asked, AskedNext
  <2>4. \A u \in Turns : phase[u] \in {"saved", "done", "left"} => phase'[u] \in {"saved", "done", "left"}
    BY <1>0, <2>1
  <2> QED BY <1>0, <2>1, <2>2, <2>3, <2>4, RowsStore DEF Roles
<1>2. ASSUME NEW t \in Turns, Save(t) PROVE RowsInv'
  <2>1. /\ phase' = [phase EXCEPT ![t] = "saved"] /\ Store(t, "assistant")
        /\ phase[t] \in {"asked", "answering"}
    BY <1>2 DEF Save, Move
  <2>2. \A c \in Convs : \A i \in DOMAIN stored[c] : stored[c][i] # <<t, "assistant">>
    BY <2>1 DEF RowsInv
  <2>3. AskedNext(t) /\ phase'[t] = "saved"
    BY <1>0, <2>1 DEF Asked, AskedNext
  <2>4. \A u \in Turns : phase[u] \in {"saved", "done", "left"} => phase'[u] \in {"saved", "done", "left"}
    BY <1>0, <2>1
  <2> QED BY <1>0, <2>1, <2>2, <2>3, <2>4, RowsStore DEF Roles
<1>3. ASSUME NEW t \in Turns, Token(t) \/ Done(t) \/ Fail(t) \/ Break(t) \/ Leave(t) \/ Send(t)
      PROVE  RowsInv'
  <2>1. UNCHANGED stored
    BY <1>3 DEF Token, Done, Fail, Break, Leave, Send
  <2>2. \A u \in Turns : phase[u] \in {"saved", "done", "left"} => phase'[u] \in {"saved", "done", "left"}
    <3>1. CASE Token(t)
      BY <1>0, <3>1 DEF Token, Move
    <3>2. CASE Done(t)
      BY <1>0, <3>2 DEF Done, Move
    <3>3. CASE Fail(t)
      BY <1>0, <3>3 DEF Fail, Move
    <3>4. CASE Break(t)
      BY <1>0, <3>4 DEF Break, Move
    <3>5. CASE Leave(t)
      BY <1>0, <3>5 DEF Leave, Move
    <3>6. CASE Send(t)
      BY <1>0, <3>6 DEF Send, Move
    <3> QED BY <1>3, <3>1, <3>2, <3>3, <3>4, <3>5, <3>6
  <2> QED BY <1>0, <2>1, <2>2, RowsSame
<1>4. ASSUME NEW c \in Convs, DeleteConversation(c) PROVE RowsInv'
  <2>1. UNCHANGED phase /\ stored' = [stored EXCEPT ![c] = <<>>]
    BY <1>4 DEF DeleteConversation
  <2>2. \A d \in Convs : stored'[d] = stored[d] \/ stored'[d] = <<>>
    BY <1>0, <2>1
  <2> QED BY <1>0, <2>1, <2>2, RowsSame
<1>5. CASE UNCHANGED server
  BY <1>0, <1>5, RowsSame DEF server
<1>6. CASE Read \/ Load \/ Arrive \/ Stay \/ (\E r \in Routes : Navigate(r)) \/ UNCHANGED vars
  BY <1>5, <1>6 DEF Read, ReadToken, ReadDone, ReadError, ReadEnd, Load, ServeHistory, DeliverHistory,
                    Arrive, Stay, Navigate, vars
<1> QED BY <1>1, <1>2, <1>3, <1>4, <1>6 DEF Next, Serve

LEMMA InboxFacts ==
  ASSUME NEW s \in Seq(Events), NEW x
  PROVE  /\ ~Contains(<<>>, x)
         /\ s # <<>> => /\ Contains(Tail(s), x) => Contains(s, x)
                        /\ Contains(s, Head(s))
         /\ \A e \in Events : Contains(s \o <<e>>, x) => Contains(s, x) \/ x = e
         /\ \A e \in Events, f \in Events : Contains(s \o <<e, f>>, x) => Contains(s, x) \/ x = e \/ x = f
         /\ \A n \in 0..Len(s) : Contains(Append(SubSeq(s, 1, n), "lost"), x) => Contains(s, x) \/ x = "lost"
<1>1. ~Contains(<<>>, x)
  BY DEF Contains
<1>2. ASSUME s # <<>>
      PROVE  (Contains(Tail(s), x) => Contains(s, x)) /\ Contains(s, Head(s))
  <2>1. Len(s) \in Nat /\ Len(s) >= 1 /\ Head(s) = s[1] /\ Len(Tail(s)) = Len(s) - 1
        /\ \A i \in 1..Len(Tail(s)) : Tail(s)[i] = s[i + 1] /\ i + 1 \in 1..Len(s)
    BY <1>2
  <2> QED BY <2>1 DEF Contains
<1>3. ASSUME NEW e \in Events, Contains(s \o <<e>>, x)
      PROVE  Contains(s, x) \/ x = e
  <2>1. Len(s \o <<e>>) = Len(s) + 1 /\ Len(s) \in Nat /\ (s \o <<e>>)[Len(s) + 1] = e
        /\ \A i \in 1..Len(s) : (s \o <<e>>)[i] = s[i]
    OBVIOUS
  <2>2. PICK i \in 1..Len(s \o <<e>>) : (s \o <<e>>)[i] = x
    BY <1>3 DEF Contains
  <2>3. i \in 1..Len(s) \/ i = Len(s) + 1
    BY <2>1
  <2> QED BY <2>1, <2>2, <2>3 DEF Contains
<1>4. ASSUME NEW e \in Events, NEW f \in Events, Contains(s \o <<e, f>>, x)
      PROVE  Contains(s, x) \/ x = e \/ x = f
  <2>1. Len(s \o <<e, f>>) = Len(s) + 2 /\ Len(s) \in Nat /\ (s \o <<e, f>>)[Len(s) + 1] = e
        /\ (s \o <<e, f>>)[Len(s) + 2] = f
        /\ \A i \in 1..Len(s) : (s \o <<e, f>>)[i] = s[i]
    OBVIOUS
  <2>2. PICK i \in 1..Len(s \o <<e, f>>) : (s \o <<e, f>>)[i] = x
    BY <1>4 DEF Contains
  <2>3. i \in 1..Len(s) \/ i = Len(s) + 1 \/ i = Len(s) + 2
    BY <2>1
  <2> QED BY <2>1, <2>2, <2>3 DEF Contains
<1>5. ASSUME NEW n \in 0..Len(s), Contains(Append(SubSeq(s, 1, n), "lost"), x)
      PROVE  Contains(s, x) \/ x = "lost"
  <2> DEFINE p == SubSeq(s, 1, n)
  <2>1. Len(p) = n /\ p \in Seq(Events) /\ \A i \in 1..n : p[i] = s[i] /\ i \in 1..Len(s)
    OBVIOUS
  <2> HIDE DEF p
  <2>2. Len(Append(p, "lost")) = n + 1 /\ n \in Nat /\ Append(p, "lost")[n + 1] = "lost"
        /\ \A i \in 1..n : Append(p, "lost")[i] = p[i]
    BY <2>1
  <2>3. PICK i \in 1..Len(Append(p, "lost")) : Append(p, "lost")[i] = x
    BY <1>5 DEF Contains, p
  <2>4. i \in 1..n \/ i = n + 1
    BY <2>2
  <2> QED BY <2>1, <2>2, <2>3, <2>4 DEF Contains
<1> QED BY <1>1, <1>2, <1>3, <1>4, <1>5

TurnNext(t) ==
  /\ phase'[t] \in {"asked", "answering", "saved", "done", "failed"} => home'[t] \in Convs
  /\ phase'[t] \in {"saved", "done"} => KeptNext(t)
  /\ phase'[t] = "unsent" => inbox'[t] = <<>>
  /\ Contains(inbox'[t], "done") => phase'[t] = "done"

\* A turn whose server does nothing, whatever is read of its events.
LEMMA TurnIdle ==
  ASSUME TypeOK, TurnsInv, Forward, NEW t \in Turns, phase'[t] = phase[t],
         inbox[t] = <<>> => inbox'[t] = <<>>,
         Contains(inbox'[t], "done") => Contains(inbox[t], "done")
  PROVE  TurnNext(t)
<1>1. phase[t] \in {"asked", "answering", "saved", "done", "failed"} =>
        Asked(t) /\ home[t] \in Convs /\ home'[t] = home[t]
  BY DEF TurnsInv, Asked, Forward
<1>2. phase[t] \in {"saved", "done"} => KeptNext(t)
  BY <1>1 DEF TurnsInv, Forward
<1> QED BY <1>1, <1>2 DEF TurnNext, TurnsInv

LEMMA EmitFacts ==
  ASSUME inbox \in [Turns -> Seq(Events)], NEW t \in Turns, NEW es \in Seq(Events), Emit(t, es)
  PROVE  /\ inbox'[t] = IF Reaches(t) THEN inbox[t] \o es ELSE inbox[t]
         /\ \A u \in Turns \ {t} : inbox'[u] = inbox[u]
<1> DEFINE new == IF Reaches(t) THEN inbox[t] \o es ELSE inbox[t]
<1>1. inbox' = [inbox EXCEPT ![t] = new]
  BY DEF Emit
<1> HIDE DEF new
<1>2. inbox'[t] = new /\ \A u \in Turns \ {t} : inbox'[u] = inbox[u]
  BY <1>1
<1> QED BY <1>2 DEF new

LEMMA ReadConsumes ==
  ASSUME TypeOK, Read
  PROVE  /\ reading \in Turns /\ inbox[reading] \in Seq(Events) /\ inbox[reading] # <<>>
         /\ inbox' = [inbox EXCEPT ![reading] = Tail(@)] /\ UNCHANGED server
<1>1. \E e \in Events : Event(e)
  BY DEF Read, ReadToken, ReadDone, ReadError, ReadEnd, Events
<1>2. reading \in Turns /\ inbox[reading] \in Seq(Events) /\ inbox[reading] # <<>>
  BY <1>1, ReadType
<1>3. Consume(reading) /\ UNCHANGED server
  BY DEF Read, ReadToken, ReadDone, ReadError, ReadEnd
<1> QED BY <1>2, <1>3 DEF Consume

LEMMA TurnsStep ==
  ASSUME TypeOK, TurnsInv, PageInv, [Next]_vars
  PROVE  TurnsInv'
<1>0. /\ alive \in [Convs -> {"unused", "live", "gone"}] /\ stored \in [Convs -> Seq(Rows)]
      /\ phase \in [Turns -> Phases] /\ home \in [Turns -> Routes] /\ inbox \in [Turns -> Seq(Events)]
      /\ Forward
  BY ForwardStep DEF TypeOK, ServerTypeOK
<1>1. SUFFICES ASSUME NEW u \in Turns PROVE TurnNext(u)
  BY DEF TurnsInv, TurnNext, Kept, KeptNext
<1>2. CASE phase'[u] = phase[u] /\ inbox'[u] = inbox[u]
  BY <1>0, <1>2, TurnIdle
<1>3. ASSUME NEW t \in Turns, Ask(t) PROVE TurnNext(u)
  <2>1. PICK c \in Convs : home' = [home EXCEPT ![t] = c]
    BY <1>3 DEF Ask
  <2>2. phase[t] = "open" /\ phase' = [phase EXCEPT ![t] = "asked"] /\ inbox' = inbox
    BY <1>3 DEF Ask, Move
  <2>3. CASE u = t
    <3>1. phase'[u] = "asked" /\ home'[u] \in Convs
      BY <1>0, <2>1, <2>2, <2>3
    <3>2. ~Contains(inbox'[u], "done")
      BY <2>2, <2>3 DEF TurnsInv
    <3> QED BY <3>1, <3>2 DEF TurnNext
  <2>4. CASE u # t
    BY <1>0, <1>2, <2>2, <2>4
  <2> QED BY <2>3, <2>4
<1>4. ASSUME NEW t \in Turns, Token(t) \/ Fail(t) PROVE TurnNext(u)
  <2>1. /\ phase[t] \in {"asked", "answering"} /\ home' = home
        /\ \E label \in {"answering", "failed"} : phase' = [phase EXCEPT ![t] = label]
        /\ Emit(t, <<"token">>) \/ Emit(t, <<"error", "end">>)
    BY <1>4 DEF Token, Fail, Move
  <2>2. <<"token">> \in Seq(Events) /\ <<"error", "end">> \in Seq(Events)
        /\ {"token", "error", "end"} \subseteq Events
    BY DEF Events
  <2>3. CASE u = t
    <3>1. phase'[u] \in {"answering", "failed"} /\ home'[u] \in Convs
      BY <1>0, <2>1, <2>3 DEF TurnsInv
    <3>2. inbox'[t] = inbox[t] \/ inbox'[t] = inbox[t] \o <<"token">> \/ inbox'[t] = inbox[t] \o <<"error", "end">>
      BY <1>0, <2>1, <2>2, EmitFacts
    <3>3. ~Contains(inbox[t], "done") /\ inbox[t] \in Seq(Events)
      BY <1>0, <2>1 DEF TurnsInv
    <3>4. ~Contains(inbox[t] \o <<"token">>, "done") /\ ~Contains(inbox[t] \o <<"error", "end">>, "done")
      BY <2>2, <3>3, InboxFacts
    <3> QED BY <2>3, <3>1, <3>2, <3>3, <3>4 DEF TurnNext
  <2>4. CASE u # t
    <3>1. inbox'[u] = inbox[u]
      BY <1>0, <2>1, <2>2, <2>4, EmitFacts
    <3> QED BY <1>0, <1>2, <2>1, <2>4, <3>1
  <2> QED BY <2>3, <2>4
<1>5. ASSUME NEW t \in Turns, Save(t) PROVE TurnNext(u)
  <2>1. /\ phase[t] \in {"asked", "answering"} /\ home' = home /\ inbox' = inbox
        /\ phase' = [phase EXCEPT ![t] = "saved"] /\ Store(t, "assistant")
    BY <1>5 DEF Save, Move
  <2>2. CASE u = t
    <3>1. phase'[u] = "saved" /\ home'[u] \in Convs /\ ~Contains(inbox'[u], "done")
      BY <1>0, <2>1, <2>2 DEF TurnsInv
    <3>2. Contains(stored'[home'[u]], <<u, "assistant">>)
      BY <1>0, <2>1, <2>2, <3>1, StoreFacts DEF Roles
    <3> QED BY <3>1, <3>2 DEF TurnNext, KeptNext
  <2>3. CASE u # t
    BY <1>0, <1>2, <2>1, <2>3
  <2> QED BY <2>2, <2>3
<1>6. ASSUME NEW t \in Turns, Done(t) PROVE TurnNext(u)
  <2>1. /\ phase[t] = "saved" /\ UNCHANGED <<home, alive, stored>>
        /\ phase' = [phase EXCEPT ![t] = "done"] /\ Emit(t, <<"done", "end">>)
    BY <1>6 DEF Done, Move
  <2>2. CASE u = t
    <3>1. phase'[u] = "done" /\ home'[u] \in Convs /\ KeptNext(u)
      BY <1>0, <2>1, <2>2 DEF TurnsInv, Kept, KeptNext
    <3> QED BY <3>1 DEF TurnNext
  <2>3. CASE u # t
    <3>1. <<"done", "end">> \in Seq(Events)
      BY DEF Events
    <3>2. inbox'[u] = inbox[u]
      BY <1>0, <2>1, <2>3, <3>1, EmitFacts
    <3> QED BY <1>0, <1>2, <2>1, <2>3, <3>2
  <2> QED BY <2>2, <2>3
<1>7. ASSUME NEW t \in Turns, Break(t) PROVE TurnNext(u)
  <2>0. PICK label \in Phases : phase' = [phase EXCEPT ![t] = label] /\ label \in {phase[t], "left"}
    BY <1>0, <1>7, BreakPhase
  <2>1. /\ reading = t /\ UNCHANGED <<home, alive, stored>>
        /\ phase[t] \notin Unfinished => phase' = phase
    BY <1>7 DEF Break, Reaches
  <2>2. PICK n \in 0..Len(inbox[t]) :
          inbox' = [inbox EXCEPT ![t] = Append(SubSeq(@, 1, n), "lost")]
    BY <1>7 DEF Break
  <2>3. CASE u = t
    <3>1. phase[t] # "unsent"
      <4>1. reading # NoTurn \/ t = NoTurn
        BY <2>1
      <4> QED BY <2>1, <4>1, ClientAssumption DEF PageInv, TypeOK, PageTypeOK
    <3>2. inbox'[t] = Append(SubSeq(inbox[t], 1, n), "lost") /\ inbox[t] \in Seq(Events)
      BY <1>0, <2>2
    <3>3. Contains(inbox'[t], "done") => Contains(inbox[t], "done")
      BY <3>2, InboxFacts
    <3>4. phase'[t] = "left" \/ phase'[t] = phase[t]
      BY <1>0, <2>0
    <3>5. Contains(inbox'[t], "done") => phase'[t] = "done"
      BY <1>0, <2>1, <3>3 DEF TurnsInv, Unfinished
    <3>6. phase'[t] \in {"saved", "done"} => KeptNext(t)
      BY <2>1, <3>4 DEF TurnsInv, Kept, KeptNext
    <3> QED BY <2>1, <2>3, <3>1, <3>4, <3>5, <3>6 DEF TurnNext, TurnsInv
  <2>4. CASE u # t
    BY <1>0, <1>2, <2>0, <2>2, <2>4
  <2> QED BY <2>3, <2>4
<1>8. ASSUME NEW t \in Turns, Leave(t) PROVE TurnNext(u)
  <2>1. phase[t] \in Unfinished /\ inbox' = inbox /\ phase' = [phase EXCEPT ![t] = "left"]
    BY <1>8 DEF Leave, Move
  <2>2. CASE u = t
    <3>1. phase'[u] = "left" /\ ~Contains(inbox'[u], "done")
      BY <1>0, <2>1, <2>2 DEF TurnsInv, Unfinished
    <3> QED BY <3>1 DEF TurnNext
  <2>3. CASE u # t
    BY <1>0, <1>2, <2>1, <2>3
  <2> QED BY <2>2, <2>3
<1>9. ASSUME NEW t \in Turns, Send(t) PROVE TurnNext(u)
  <2>1. phase[t] = "unsent" /\ inbox' = inbox /\ phase' = [phase EXCEPT ![t] = "open"]
    BY <1>9 DEF Send, Move
  <2>2. CASE u = t
    <3>1. phase'[u] = "open" /\ inbox'[u] = <<>>
      BY <1>0, <2>1, <2>2 DEF TurnsInv
    <3>2. ~Contains(inbox'[u], "done")
      BY <3>1 DEF Contains
    <3> QED BY <3>1, <3>2 DEF TurnNext
  <2>3. CASE u # t
    BY <1>0, <1>2, <2>1, <2>3
  <2> QED BY <2>2, <2>3
<1>10. CASE Read
  <2>1. /\ reading \in Turns /\ inbox[reading] \in Seq(Events) /\ inbox[reading] # <<>>
        /\ inbox' = [inbox EXCEPT ![reading] = Tail(@)] /\ phase' = phase
    BY <1>10, ReadConsumes DEF server
  <2>2. CASE u = reading
    <3>1. inbox'[u] = Tail(inbox[u])
      BY <1>0, <2>1, <2>2
    <3>2. Contains(inbox'[u], "done") => Contains(inbox[u], "done")
      BY <2>1, <2>2, <3>1, InboxFacts
    <3> QED BY <1>0, <2>1, <2>2, <3>2, TurnIdle
  <2>3. CASE u # reading
    BY <1>0, <1>2, <2>1, <2>3
  <2> QED BY <2>2, <2>3
<1>11. CASE Arrive
  <2>1. inbox'[u] = <<>> /\ phase' = phase
    BY <1>11 DEF Arrive, server
  <2>2. ~Contains(inbox'[u], "done")
    BY <2>1 DEF Contains
  <2> QED BY <1>0, <2>1, <2>2, TurnIdle
<1>12. CASE Load \/ Stay \/ (\E r \in Routes : Navigate(r)) \/ (\E c \in Convs : DeleteConversation(c))
            \/ UNCHANGED vars
  BY <1>2, <1>12 DEF Load, ServeHistory, DeliverHistory, Stay, Navigate, DeleteConversation, vars, server
<1> QED BY <1>3, <1>4, <1>5, <1>6, <1>7, <1>8, <1>9, <1>10, <1>11, <1>12 DEF Next, Serve

-----------------------------------------------------------------------------
(* A page that does nothing: what it shows stays true of the server.       *)

LEMMA Members ==
  ASSUME TypeOK
  PROVE  /\ view.messages \in Seq(Bubbles) /\ view.conv \in Routes
         /\ \A i \in DOMAIN view.messages :
              /\ view.messages[i] \in Bubbles /\ view.messages[i].turn \in Turns
              /\ view.messages[i].role \in Roles
         /\ thread \in Seq(Turns)
         /\ \A i \in DOMAIN thread : thread[i] \in Turns
         /\ \A l \in loads : l.conv \in Convs /\ l.got \in Seq(Rows)
                             /\ \A i \in DOMAIN l.got : l.got[i][1] \in Turns /\ l.got[i][2] \in Roles
<1>1. view.messages \in Seq(Bubbles) /\ view.conv \in Routes /\ thread \in Seq(Turns) /\ loads \subseteq Histories
  BY DEF TypeOK, PageTypeOK, Views
<1>2. ASSUME NEW i \in DOMAIN view.messages
      PROVE  view.messages[i] \in Bubbles /\ view.messages[i].turn \in Turns /\ view.messages[i].role \in Roles
  <2>1. view.messages[i] \in Bubbles
    BY <1>1
  <2> QED BY <2>1 DEF Bubbles
<1>3. ASSUME NEW l \in loads
      PROVE  l.conv \in Convs /\ l.got \in Seq(Rows)
             /\ \A i \in DOMAIN l.got : l.got[i][1] \in Turns /\ l.got[i][2] \in Roles
  <2>1. l.conv \in Convs /\ l.got \in Seq(Rows)
    BY <1>1 DEF Histories
  <2>2. \A i \in DOMAIN l.got : l.got[i] \in Turns \X Roles
    BY <2>1 DEF Rows
  <2> QED BY <2>1, <2>2
<1> QED BY <1>1, <1>2, <1>3

LEMMA LoadKept ==
  ASSUME TypeOK, LoadInv, Forward, loads' \subseteq loads,
         \A l \in loads' : l.live => route' = route /\ view'.loading = view.loading
  PROVE  LoadInv'
<1>1. SUFFICES ASSUME NEW l \in loads'
               PROVE  /\ \A i \in DOMAIN l.got : home'[l.got[i][1]] = l.conv /\ AskedNext(l.got[i][1])
                      /\ \A i, j \in DOMAIN l.got : l.got[i] = l.got[j] => i = j
                      /\ \A i \in DOMAIN l.got : l.got[i][2] = "assistant" => KeptNext(l.got[i][1])
                      /\ l.live => l.conv = route' /\ view'.loading
                      /\ \A k \in loads' : l.live /\ k.live => k = l
  BY DEF LoadInv, ListOf, Asked, Kept, AskedNext, KeptNext
<1>2. l \in loads /\ l.conv \in Convs /\ l.got \in Seq(Rows) /\ ListOf(l.conv, l.got)
      /\ \A i \in DOMAIN l.got : l.got[i][1] \in Turns
  BY Members DEF LoadInv
<1>3. /\ \A i \in DOMAIN l.got : home'[l.got[i][1]] = l.conv /\ AskedNext(l.got[i][1])
      /\ \A i, j \in DOMAIN l.got : l.got[i] = l.got[j] => i = j
  BY <1>2, ListKept
<1>4. \A i \in DOMAIN l.got : l.got[i][2] = "assistant" => KeptNext(l.got[i][1])
  BY <1>2 DEF LoadInv, ListOf, Forward
<1>5. l.live => l.conv = route' /\ view'.loading
  BY <1>2 DEF LoadInv
<1>6. \A k \in loads' : l.live /\ k.live => k = l
  BY <1>2 DEF LoadInv
<1> QED BY <1>3, <1>4, <1>5, <1>6

LEMMA PageKept ==
  ASSUME TypeOK, PageInv, BubbleInv, JoinInv, ShowsItsConversation, FollowUpsJoin, Forward, UNCHANGED page
  PROVE  PageInv' /\ BubbleInv' /\ JoinInv' /\ ShowsItsConversation' /\ FollowUpsJoin'
<1>0. UNCHANGED <<route, view, reading, thread>>
  BY DEF page
<1>1. PageInv'
  BY <1>0, Members DEF PageInv, Forward
<1>2. BubbleInv'
  <2>1. \A i \in DOMAIN view.messages : view.messages[i].look = "complete" =>
          AskedNext(view.messages[i].turn) /\ home'[view.messages[i].turn] \in Convs
    BY Members DEF BubbleInv, Forward
  <2> QED BY <1>0, <2>1, Members DEF BubbleInv, Forward, Asked, AskedNext
<1>3. \A i \in DOMAIN view.messages : view.messages[i].look = "complete" =>
        home'[view.messages[i].turn] = home[view.messages[i].turn] /\ home[view.messages[i].turn] \in Convs
  BY Members DEF BubbleInv, Forward
<1>4. \A i \in DOMAIN thread : Complete(thread[i]) =>
        home'[thread[i]] = home[thread[i]] /\ home[thread[i]] \in Convs
  <2>1. SUFFICES ASSUME NEW i \in DOMAIN thread, Complete(thread[i])
                 PROVE  home'[thread[i]] = home[thread[i]] /\ home[thread[i]] \in Convs
    OBVIOUS
  <2>2. PICK k \in 1..Len(view.messages) : view.messages[k] = Bubble(thread[i], "assistant", "complete")
    BY <2>1 DEF Complete, Contains
  <2>3. k \in DOMAIN view.messages /\ view.messages[k].look = "complete" /\ view.messages[k].turn = thread[i]
    BY <2>2, Members DEF Bubble
  <2> QED BY <1>3, <2>3
<1>5. JoinInv'
  <2>1. ASSUME reading # NoTurn, view.conv # New PROVE home'[reading] = view.conv
    <3>1. reading \in Turns /\ home[reading] = view.conv /\ phase[reading] # "unsent"
      <4>1. thread # <<>> /\ reading = thread[Len(thread)] /\ thread \in Seq(Turns)
        BY <2>1, Members DEF PageInv
      <4>2. Len(thread) \in DOMAIN thread
        BY <4>1
      <4> QED BY <2>1, <4>1, <4>2, Members DEF PageInv, JoinInv
    <3> QED BY <2>1, <3>1 DEF Forward
  <2> QED BY <1>0, <1>4, <2>1 DEF JoinInv, Complete
<1>6. ShowsItsConversation'
  <2>1. \A i \in DOMAIN view.messages : view.messages[i].look = "complete" => KeptNext(view.messages[i].turn)
    BY Members DEF BubbleInv, ShowsItsConversation, Forward, Kept
  <2>2. route # New => \A i \in DOMAIN view.messages : home'[view.messages[i].turn] = route
    BY Members DEF BubbleInv, ShowsItsConversation, Forward
  <2> QED BY <1>0, <2>1, <2>2 DEF ShowsItsConversation, KeptNext
<1>7. FollowUpsJoin'
  <2>1. ASSUME NEW i \in DOMAIN thread, NEW j \in DOMAIN thread, i < j, Complete(thread[i])
        PROVE  home'[thread[j]] = home'[thread[i]]
    <3>1. home[thread[j]] = home[thread[i]] /\ home[thread[i]] \in Convs
      BY <1>4, <2>1 DEF FollowUpsJoin, Complete
    <3>2. home[thread[j]] # New
      BY <3>1, ClientAssumption
    <3> QED BY <1>4, <2>1, <3>1, <3>2, Members DEF PageInv, Forward
  <2> QED BY <1>0, <2>1 DEF FollowUpsJoin, Complete
<1> QED BY <1>1, <1>2, <1>5, <1>6, <1>7

-----------------------------------------------------------------------------
(* The handlers of the page.                                               *)

PageParts == PageInv /\ BubbleInv /\ JoinInv /\ ShowsItsConversation /\ FollowUpsJoin

CompleteNext(t) == Contains(view'.messages, Bubble(t, "assistant", "complete"))

\* What the page shows, one fact each.
LEMMA Shown ==
  ASSUME ShowsItsConversation
  PROVE  /\ \A i, j \in DOMAIN view.messages :
              /\ view.messages[i].turn = view.messages[j].turn
              /\ view.messages[i].role = view.messages[j].role
              => i = j
         /\ \A i \in DOMAIN view.messages :
              IF route = New THEN Contains(thread, view.messages[i].turn)
              ELSE home[view.messages[i].turn] = route
         /\ \A i \in DOMAIN view.messages :
              view.messages[i].look = "complete" => Kept(view.messages[i].turn)
         /\ \A i \in DOMAIN view.messages :
              view.messages[i].look = "empty" => reading = view.messages[i].turn
BY DEF ShowsItsConversation, Kept

LEMMA ReadingFacts ==
  ASSUME TypeOK, PageInv, reading \in Turns
  PROVE  /\ reading # NoTurn /\ view.streaming /\ ~view.loading
         /\ Len(thread) \in DOMAIN thread /\ thread[Len(thread)] = reading
         /\ phase[reading] # "unsent"
         /\ route # New => home[reading] = route
<1>1. reading # NoTurn
  BY ClientAssumption
<1>2. thread # <<>> /\ thread \in Seq(Turns) /\ reading = thread[Len(thread)] /\ view.streaming
  BY <1>1, Members DEF PageInv
<1>3. Len(thread) \in DOMAIN thread
  BY <1>2
<1> QED BY <1>1, <1>2, <1>3 DEF PageInv

LEMMA SendFacts ==
  ASSUME TypeOK, NEW t \in Turns, Send(t)
  PROVE  /\ Len(view.messages) \in Nat /\ DOMAIN view.messages = 1..Len(view.messages)
         /\ DOMAIN view'.messages = 1..(Len(view.messages) + 2)
         /\ \A i \in 1..Len(view.messages) : view'.messages[i] = view.messages[i]
         /\ view'.messages[Len(view.messages) + 1] = Bubble(t, "user", "plain")
         /\ view'.messages[Len(view.messages) + 2] = Bubble(t, "assistant", "empty")
         /\ view'.conv = view.conv /\ ~view'.loading /\ view'.streaming
         /\ Len(thread) \in Nat /\ DOMAIN thread = 1..Len(thread)
         /\ Len(thread') = Len(thread) + 1 /\ DOMAIN thread' = 1..(Len(thread) + 1)
         /\ \A i \in 1..Len(thread) : thread'[i] = thread[i]
         /\ thread'[Len(thread) + 1] = t
<1> DEFINE u == Bubble(t, "user", "plain")
           a == Bubble(t, "assistant", "empty")
           s == view.messages
<1>1. view \in Views /\ s \in Seq(Bubbles) /\ thread \in Seq(Turns)
  BY Members DEF TypeOK, PageTypeOK
<1>2. view' = [view EXCEPT !.streaming = TRUE, !.messages = s \o <<u, a>>] /\ ~view.loading
      /\ thread' = Append(thread, t)
  BY DEF Send, MayWrite
<1> HIDE DEF u, a
<1>3. view'.messages = s \o <<u, a>> /\ view'.conv = view.conv /\ ~view'.loading /\ view'.streaming
  BY <1>1, <1>2 DEF Views
<1> HIDE DEF s
<1>4. /\ Len(s) \in Nat /\ DOMAIN s = 1..Len(s) /\ DOMAIN (s \o <<u, a>>) = 1..(Len(s) + 2)
      /\ \A i \in 1..Len(s) : (s \o <<u, a>>)[i] = s[i]
      /\ (s \o <<u, a>>)[Len(s) + 1] = u /\ (s \o <<u, a>>)[Len(s) + 2] = a
  BY <1>1
<1>5. /\ Len(thread) \in Nat /\ DOMAIN thread = 1..Len(thread)
      /\ Len(thread') = Len(thread) + 1 /\ DOMAIN thread' = 1..(Len(thread) + 1)
      /\ \A i \in 1..Len(thread) : thread'[i] = thread[i]
      /\ thread'[Len(thread) + 1] = t
  BY <1>1, <1>2
<1> QED BY <1>3, <1>4, <1>5 DEF s, u, a

LEMMA SendStep ==
  ASSUME TypeOK, PageParts, Forward, NEW t \in Turns, Send(t)
  PROVE  PageParts'
<1> USE DEF PageParts
<1> DEFINE n == Len(view.messages)
           k == Len(thread)
           m == view'.messages
<1>1. /\ phase[t] = "unsent" /\ phase'[t] = "open" /\ home'[t] = view.conv
      /\ reading' = t /\ UNCHANGED <<alive, stored, route>> /\ t # NoTurn
      /\ \A u \in Turns \ {t} : home'[u] = home[u]
  BY ClientAssumption DEF Send, Move, TypeOK, ServerTypeOK
<1>2. reading = NoTurn
  BY DEF Send, MayWrite, PageInv
<1>3. /\ n \in Nat /\ DOMAIN view.messages = 1..n /\ DOMAIN m = 1..(n + 2)
      /\ \A i \in 1..n : m[i] = view.messages[i]
      /\ m[n + 1] = Bubble(t, "user", "plain") /\ m[n + 2] = Bubble(t, "assistant", "empty")
      /\ view'.conv = view.conv /\ ~view'.loading /\ view'.streaming
      /\ k \in Nat /\ DOMAIN thread = 1..k /\ Len(thread') = k + 1 /\ DOMAIN thread' = 1..(k + 1)
      /\ \A i \in 1..k : thread'[i] = thread[i]
      /\ thread'[k + 1] = t
  BY SendFacts
<1>4. /\ \A i \in 1..n : view.messages[i].turn \in Turns /\ view.messages[i].turn # t
      /\ \A i \in 1..k : thread[i] \in Turns /\ thread[i] # t
  <2>1. \A i \in 1..n : view.messages[i].turn \in Turns /\ phase[view.messages[i].turn] # "unsent"
    BY <1>3, Members DEF BubbleInv
  <2>2. \A i \in 1..k : thread[i] \in Turns /\ phase[thread[i]] # "unsent"
    BY <1>3, Members DEF PageInv
  <2> QED BY <1>1, <2>1, <2>2
<1>5. /\ m[n + 1].turn = t /\ m[n + 1].role = "user" /\ m[n + 1].look = "plain"
      /\ m[n + 2].turn = t /\ m[n + 2].role = "assistant" /\ m[n + 2].look = "empty"
  BY <1>3 DEF Bubble
<1> HIDE DEF n, k, m
<1>6. \A i \in DOMAIN m : i \in 1..n \/ i = n + 1 \/ i = n + 2
  BY <1>3
<1>7. \A i \in DOMAIN thread' : i \in 1..k \/ i = k + 1
  BY <1>3
<1>8. PageInv'
  <2>1. \A i \in DOMAIN thread' : phase'[thread'[i]] # "unsent"
    BY <1>1, <1>3, <1>4, <1>7 DEF PageInv, Forward
  <2>2. \A i, j \in DOMAIN thread' : thread'[i] = thread'[j] => i = j
    BY <1>3, <1>4, <1>7 DEF PageInv
  <2>3. route' # New => view'.conv = route' /\ \A i \in DOMAIN thread' : home'[thread'[i]] = route'
    BY <1>1, <1>3, <1>4, <1>7 DEF PageInv
  <2>4. thread' # <<>> /\ reading' = thread'[Len(thread')]
    BY <1>1, <1>3
  <2> QED BY <1>1, <1>3, <2>1, <2>2, <2>3, <2>4 DEF PageInv
<1>9. BubbleInv'
  <2>1. ASSUME NEW i \in 1..n
        PROVE  /\ phase'[m[i].turn] # "unsent"
               /\ m[i].role = "user" => m[i].look = "plain"
               /\ m[i].look = "complete" => AskedNext(m[i].turn) /\ home'[m[i].turn] \in Convs
    BY <1>3, <1>4 DEF BubbleInv, Forward
  <2>2. \A i \in DOMAIN m :
          /\ phase'[m[i].turn] # "unsent"
          /\ m[i].role = "user" => m[i].look = "plain"
          /\ m[i].look = "complete" => AskedNext(m[i].turn) /\ home'[m[i].turn] \in Convs
    BY <1>1, <1>5, <1>6, <2>1
  <2> QED BY <2>2 DEF BubbleInv, m, Asked, AskedNext
<1>10. \A u \in Turns : CompleteNext(u) => Complete(u) /\ u # t
  <2>1. SUFFICES ASSUME NEW u \in Turns, Contains(m, Bubble(u, "assistant", "complete"))
                 PROVE  Complete(u) /\ u # t
    BY DEF CompleteNext, m
  <2>2. PICK i \in 1..Len(m) : m[i] = Bubble(u, "assistant", "complete")
    BY <2>1 DEF Contains
  <2>3. m[i].turn = u /\ m[i].look = "complete"
    BY <2>2 DEF Bubble
  <2>4. m \in Seq(Bubbles)
    BY SendType, Members DEF m, TypeOK, PageTypeOK, Views
  <2>5. i \in DOMAIN m
    BY <2>4
  <2>6. i \in 1..n
    BY <1>5, <1>6, <2>3, <2>5
  <2>7. Len(view.messages) = n
    BY DEF n
  <2> QED BY <1>3, <1>4, <2>2, <2>3, <2>6, <2>7 DEF Complete, Contains
<1>11. JoinInv'
  <2>1. \A i \in DOMAIN thread' : CompleteNext(thread'[i]) => view'.conv = home'[thread'[i]]
    BY <1>1, <1>3, <1>4, <1>7, <1>10 DEF JoinInv
  <2> QED BY <1>1, <1>3, <2>1 DEF JoinInv, Complete, CompleteNext
<1>12. ShowsItsConversation'
  <2>1. \A i, j \in DOMAIN m : m[i].turn = m[j].turn /\ m[i].role = m[j].role => i = j
    <3>1. \A i, j \in 1..n : m[i].turn = m[j].turn /\ m[i].role = m[j].role => i = j
      <4>1. \A i, j \in DOMAIN view.messages :
              /\ view.messages[i].turn = view.messages[j].turn
              /\ view.messages[i].role = view.messages[j].role
              => i = j
        BY Shown
      <4>2. DOMAIN view.messages = 1..n /\ \A i \in 1..n : m[i] = view.messages[i]
        BY <1>3
      <4> QED BY <4>1, <4>2
    <3>2. \A i \in 1..n : m[i].turn # t
      BY <1>3, <1>4
    <3> QED BY <1>5, <1>6, <3>1, <3>2
  <2>2. ASSUME NEW i \in DOMAIN m
        PROVE  IF route' = New THEN Contains(thread', m[i].turn) ELSE home'[m[i].turn] = route'
    <3>1. CASE i \in 1..n
      <4>1. IF route = New THEN Contains(thread, m[i].turn) ELSE home[m[i].turn] = route
        BY <1>3, <3>1, Shown
      <4>2. m[i].turn \in Turns /\ m[i].turn # t
        BY <1>3, <1>4, <3>1
      <4>3. Contains(thread, m[i].turn) => Contains(thread', m[i].turn)
        <5>1. k = Len(thread)
          BY DEF k
        <5> QED BY <1>3, <5>1 DEF Contains
      <4> QED BY <1>1, <4>1, <4>2, <4>3
    <3>2. CASE i \in {n + 1, n + 2}
      <4>1. m[i].turn = t
        BY <1>5, <3>2
      <4>2. Contains(thread', t)
        BY <1>3 DEF Contains
      <4>3. route # New => view.conv = route
        BY DEF PageInv
      <4> QED BY <1>1, <4>1, <4>2, <4>3
    <3> QED BY <1>6, <3>1, <3>2
  <2>3. \A i \in DOMAIN m : m[i].look = "complete" => KeptNext(m[i].turn)
    <3>1. \A i \in 1..n : m[i].look = "complete" => KeptNext(m[i].turn)
      BY <1>3, <1>4, Shown DEF BubbleInv, Forward
    <3> QED BY <1>5, <1>6, <3>1
  <2>4. \A i \in DOMAIN m : m[i].look = "empty" => reading' = m[i].turn
    <3>1. \A i \in 1..n : m[i].look # "empty"
      BY <1>2, <1>3, <1>4, Shown, ClientAssumption
    <3> QED BY <1>1, <1>5, <1>6, <3>1
  <2> QED BY <2>1, <2>2, <2>3, <2>4 DEF ShowsItsConversation, KeptNext, m
<1>13. FollowUpsJoin'
  <2>1. ASSUME NEW i \in DOMAIN thread', NEW j \in DOMAIN thread', i < j, CompleteNext(thread'[i])
        PROVE  home'[thread'[j]] = home'[thread'[i]]
    <3>1. i \in 1..k
      BY <1>3, <1>7, <2>1
    <3>2. Complete(thread[i]) /\ thread'[i] = thread[i] /\ thread[i] # t
      BY <1>3, <1>4, <1>10, <2>1, <3>1
    <3>3. CASE j \in 1..k
      BY <1>1, <1>3, <1>4, <2>1, <3>1, <3>2, <3>3 DEF FollowUpsJoin, Complete
    <3>4. CASE j = k + 1
      BY <1>1, <1>3, <1>4, <3>1, <3>2, <3>4 DEF JoinInv
    <3> QED BY <1>7, <3>3, <3>4
  <2> QED BY <2>1 DEF FollowUpsJoin, CompleteNext
<1> QED BY <1>8, <1>9, <1>11, <1>12, <1>13

\* Each bubble of the next list stands at f[i] in this one; only the bubble of
\* the turn being read may look different.
Repainted(f) ==
  \A i \in DOMAIN view'.messages :
    /\ f[i] \in DOMAIN view.messages
    /\ view'.messages[i].turn = view.messages[f[i]].turn
    /\ view'.messages[i].role = view.messages[f[i]].role
    /\ \/ view'.messages[i].look = view.messages[f[i]].look
       \/ /\ view'.messages[i].turn = reading /\ view'.messages[i].role = "assistant"
          /\ view'.messages[i].look # "empty"
          /\ view'.messages[i].look = "complete" => phase[reading] = "done" /\ view'.conv = home[reading]
    /\ \A j \in DOMAIN view'.messages : f[i] = f[j] => i = j

\* The stream is read on, or it has ended and no bubble waits for it.
ReadOn ==
  \/ reading' = reading /\ view'.streaming = view.streaming
  \/ /\ reading' = NoTurn /\ ~view'.streaming
     /\ \A i \in DOMAIN view'.messages : view'.messages[i].look # "empty"

LEMMA RepaintKeeps ==
  ASSUME TypeOK, TypeOK', TurnsInv, PageParts, UNCHANGED <<server, route, thread>>, reading \in Turns,
         NEW f, Repainted(f), ReadOn,
         view'.conv = view.conv \/ view'.conv = home[reading], view'.loading = view.loading
  PROVE  PageParts'
<1> USE DEF PageParts
<1> DEFINE m == view.messages
           p == view'.messages
<1>0. UNCHANGED <<alive, stored, phase, home, route, thread>>
  BY DEF server
<1>1. /\ reading # NoTurn /\ view.streaming /\ ~view.loading
      /\ Len(thread) \in DOMAIN thread /\ thread[Len(thread)] = reading
      /\ phase[reading] # "unsent"
      /\ route # New => home[reading] = route
  BY ReadingFacts
<1>2. phase[reading] = "done" => home[reading] \in Convs /\ Kept(reading) /\ Asked(reading)
  BY DEF TurnsInv, Asked
<1>3. ASSUME NEW i \in DOMAIN p
      PROVE  /\ f[i] \in DOMAIN m /\ p[i].turn = m[f[i]].turn /\ p[i].role = m[f[i]].role
             /\ \/ p[i].look = m[f[i]].look
                \/ /\ p[i].turn = reading /\ p[i].role = "assistant" /\ p[i].look # "empty"
                   /\ p[i].look = "complete" => phase[reading] = "done" /\ view'.conv = home[reading]
             /\ \A j \in DOMAIN p : f[i] = f[j] => i = j
             /\ p[i].turn \in Turns
  BY Members DEF Repainted
<1>4. PageInv'
  <2>1. route # New => view'.conv = route
    BY <1>1 DEF PageInv
  <2>2. reading' # NoTurn => reading' = reading
    BY DEF ReadOn
  <2>3. view'.streaming <=> reading' # NoTurn
    BY <1>1 DEF ReadOn
  <2> QED BY <1>0, <1>1, <2>1, <2>2, <2>3 DEF PageInv
<1>5. ASSUME NEW i \in DOMAIN m
      PROVE  /\ phase[m[i].turn] # "unsent"
             /\ m[i].role = "user" => m[i].look = "plain"
             /\ m[i].look = "complete" => Asked(m[i].turn) /\ home[m[i].turn] \in Convs
  BY DEF BubbleInv
<1> HIDE DEF m, p
<1>6. BubbleInv'
  <2>1. \A i \in DOMAIN p :
          /\ phase[p[i].turn] # "unsent"
          /\ p[i].role = "user" => p[i].look = "plain"
          /\ p[i].look = "complete" => Asked(p[i].turn) /\ home[p[i].turn] \in Convs
    <3>1. SUFFICES ASSUME NEW i \in DOMAIN p
                   PROVE  /\ phase[p[i].turn] # "unsent"
                          /\ p[i].role = "user" => p[i].look = "plain"
                          /\ p[i].look = "complete" => Asked(p[i].turn) /\ home[p[i].turn] \in Convs
      OBVIOUS
    <3> QED BY <1>2, <1>3, <1>5
  <2> QED BY <1>0, <2>1 DEF BubbleInv, p, Asked
<1>7. ASSUME NEW u \in Turns, CompleteNext(u)
      PROVE  Complete(u) \/ (u = reading /\ view'.conv = home[reading])
  <2>1. PICK i \in 1..Len(p) : p[i] = Bubble(u, "assistant", "complete")
    BY <1>7 DEF CompleteNext, Contains, p
  <2>2. p \in Seq(Bubbles) /\ m \in Seq(Bubbles)
    BY Members DEF p, m, TypeOK, PageTypeOK, Views
  <2>3. i \in DOMAIN p /\ p[i].turn = u /\ p[i].role = "assistant" /\ p[i].look = "complete"
    BY <2>1, <2>2 DEF Bubble
  <2>4. CASE p[i].look = m[f[i]].look
    <3>1. f[i] \in DOMAIN m /\ m[f[i]] \in Bubbles /\ m[f[i]].turn = u /\ m[f[i]].role = "assistant"
          /\ m[f[i]].look = "complete"
      BY <1>3, <2>2, <2>3, <2>4
    <3>2. m[f[i]] = Bubble(u, "assistant", "complete")
      BY <3>1 DEF Bubbles, Bubble
    <3>3. Complete(u)
      BY <2>2, <3>1, <3>2 DEF Complete, Contains, m
    <3> QED BY <3>3
  <2>5. CASE p[i].look # m[f[i]].look
    BY <1>3, <2>3, <2>5
  <2> QED BY <2>4, <2>5
<1>8. \A i \in DOMAIN thread : thread[i] \in Turns /\ (Complete(thread[i]) => home[thread[i]] = view.conv)
  BY Members DEF JoinInv
<1>9. \A i \in DOMAIN thread : Complete(thread[i]) => home[thread[i]] \in Convs
  <2>1. SUFFICES ASSUME NEW i \in DOMAIN thread, Complete(thread[i]) PROVE home[thread[i]] \in Convs
    OBVIOUS
  <2>2. PICK k \in 1..Len(m) : m[k] = Bubble(thread[i], "assistant", "complete")
    BY <2>1 DEF Complete, Contains, m
  <2>3. m \in Seq(Bubbles)
    BY Members DEF m
  <2>4. k \in DOMAIN m /\ m[k].look = "complete" /\ m[k].turn = thread[i]
    BY <2>2, <2>3 DEF Bubble
  <2> QED BY <1>5, <2>4
<1>10. JoinInv'
  <2>1. ASSUME NEW i \in DOMAIN thread, CompleteNext(thread[i])
        PROVE  view'.conv = home[thread[i]]
    <3>1. CASE Complete(thread[i])
      <4>1. view.conv = home[thread[i]] /\ view.conv # New
        BY <1>8, <1>9, <3>1, ClientAssumption
      <4>2. home[reading] = view.conv
        BY <1>1, <4>1 DEF JoinInv
      <4> QED BY <4>1, <4>2
    <3>2. CASE ~Complete(thread[i])
      BY <1>7, <1>8, <2>1, <3>2
    <3> QED BY <3>1, <3>2
  <2>2. reading' # NoTurn /\ view'.conv # New => home[reading'] = view'.conv
    BY <1>1 DEF ReadOn, JoinInv
  <2> QED BY <1>0, <2>1, <2>2 DEF JoinInv, Complete, CompleteNext
<1>11. ShowsItsConversation'
  <2>1. \A i, j \in DOMAIN p : p[i].turn = p[j].turn /\ p[i].role = p[j].role => i = j
    <3>1. \A i, j \in DOMAIN m : m[i].turn = m[j].turn /\ m[i].role = m[j].role => i = j
      BY Shown DEF m
    <3>2. SUFFICES ASSUME NEW i \in DOMAIN p, NEW j \in DOMAIN p,
                          p[i].turn = p[j].turn, p[i].role = p[j].role
                   PROVE  i = j
      OBVIOUS
    <3>3. f[i] = f[j]
      BY <1>3, <3>1, <3>2
    <3> QED BY <1>3, <3>3
  <2>2. \A i \in DOMAIN p : IF route = New THEN Contains(thread, p[i].turn) ELSE home[p[i].turn] = route
    <3>1. \A i \in DOMAIN m : IF route = New THEN Contains(thread, m[i].turn) ELSE home[m[i].turn] = route
      BY Shown DEF m
    <3> QED BY <1>3, <3>1
  <2>3. \A i \in DOMAIN p : p[i].look = "complete" => Kept(p[i].turn)
    <3>1. \A i \in DOMAIN m : m[i].look = "complete" => Kept(m[i].turn)
      BY Shown DEF m
    <3> QED BY <1>2, <1>3, <3>1
  <2>4. \A i \in DOMAIN p : p[i].look = "empty" => reading' = p[i].turn
    <3>1. \A i \in DOMAIN m : m[i].look = "empty" => reading = m[i].turn
      BY Shown DEF m
    <3> QED BY <1>3, <3>1 DEF ReadOn, p
  <2> QED BY <1>0, <2>1, <2>2, <2>3, <2>4 DEF ShowsItsConversation, p, Kept
<1>12. FollowUpsJoin'
  <2>1. ASSUME NEW i \in DOMAIN thread, NEW j \in DOMAIN thread, i < j, CompleteNext(thread[i])
        PROVE  home[thread[j]] = home[thread[i]]
    <3>1. thread[i] # reading
      <4>1. thread \in Seq(Turns) /\ Len(thread) \in Nat /\ i # Len(thread)
        BY <2>1, Members
      <4> QED BY <1>1, <4>1 DEF PageInv
    <3>2. Complete(thread[i])
      BY <1>7, <1>8, <2>1, <3>1
    <3> QED BY <2>1, <3>2 DEF FollowUpsJoin, Complete
  <2> QED BY <1>0, <2>1 DEF FollowUpsJoin, CompleteNext
<1> QED BY <1>4, <1>6, <1>10, <1>11, <1>12

\* The catch clause takes out the placeholder, and nothing else.
LEMMA PlaceholderGone ==
  ASSUME TypeOK, ShowsItsConversation, reading \in Turns
  PROVE  \E f : \A i \in DOMAIN WithoutPlaceholder(reading) :
           /\ f[i] \in DOMAIN view.messages
           /\ WithoutPlaceholder(reading)[i] = view.messages[f[i]]
           /\ WithoutPlaceholder(reading)[i] # Bubble(reading, "assistant", "empty")
           /\ \A j \in DOMAIN WithoutPlaceholder(reading) : f[i] = f[j] => i = j
<1> DEFINE m == view.messages
           empty == Bubble(reading, "assistant", "empty")
           place == CHOOSE i \in DOMAIN m : m[i] = empty
           s == WithoutPlaceholder(reading)
<1>1. m \in Seq(Bubbles) /\ DOMAIN m = 1..Len(m) /\ Len(m) \in Nat
  BY Members
<1>2. s = IF Contains(m, empty) THEN RemoveAt(m, place) ELSE m
  BY DEF WithoutPlaceholder
<1>3. CASE Contains(m, empty)
  <2>1. place \in DOMAIN m /\ m[place] = empty
    BY <1>1, <1>3 DEF Contains
  <2>2. \A i \in DOMAIN m : m[i] = empty => i = place
    <3>1. empty.turn = reading /\ empty.role = "assistant"
      BY DEF Bubble
    <3> HIDE DEF empty, place
    <3> QED BY <2>1, <3>1, Shown
  <2> HIDE DEF m, empty, place, s
  <2>3. /\ DOMAIN s = 1..(Len(m) - 1)
        /\ \A i \in 1..(Len(m) - 1) : s[i] = IF i < place THEN m[i] ELSE m[i + 1]
    BY <1>1, <1>2, <1>3, <2>1, RemoveFacts
  <2> DEFINE f == [i \in 1..(Len(m) - 1) |-> IF i < place THEN i ELSE i + 1]
  <2>4. ASSUME NEW i \in 1..(Len(m) - 1)
        PROVE  f[i] \in DOMAIN m /\ s[i] = m[f[i]] /\ f[i] # place
    BY <1>1, <2>1, <2>3
  <2>5. \A i, j \in 1..(Len(m) - 1) : f[i] = f[j] => i = j
    BY <1>1, <2>1
  <2> HIDE DEF f
  <2>6. \A i \in 1..(Len(m) - 1) : s[i] # empty
    BY <2>2, <2>4
  <2>7. \A i \in DOMAIN s : f[i] \in DOMAIN m /\ s[i] = m[f[i]] /\ s[i] # empty
                            /\ \A j \in DOMAIN s : f[i] = f[j] => i = j
    BY <2>3, <2>4, <2>5, <2>6
  <2> QED BY <2>7 DEF m, s, empty
<1>4. CASE ~Contains(m, empty)
  <2> DEFINE f == [i \in DOMAIN m |-> i]
  <2>1. s = m
    BY <1>2, <1>4
  <2>2. \A i \in DOMAIN m : m[i] # empty
    BY <1>1, <1>4 DEF Contains
  <2>3. \A i \in DOMAIN s : f[i] \in DOMAIN m /\ s[i] = m[f[i]] /\ s[i] # empty
                            /\ \A j \in DOMAIN s : f[i] = f[j] => i = j
    BY <2>1, <2>2
  <2> QED BY <2>3
<1> QED BY <1>3, <1>4

\* A bubble that waits is the placeholder of the turn being read.
LEMMA EmptyIsPlaceholder ==
  ASSUME TypeOK, PageParts, NEW i \in DOMAIN view.messages, view.messages[i].look = "empty"
  PROVE  view.messages[i] = Bubble(reading, "assistant", "empty")
<1>1. view.messages[i] \in Bubbles
  BY Members
<1>2. view.messages[i].turn = reading
  BY Shown DEF PageParts
<1>3. view.messages[i].role = "assistant"
  BY <1>1 DEF PageParts, BubbleInv, Bubbles, Roles
<1> QED BY <1>1, <1>2, <1>3 DEF Bubbles, Bubble

\* What one event changes.
LEMMA LooksRepaint ==
  ASSUME TypeOK, reading \in Turns, NEW look \in {"text", "complete", "failed"},
         view'.messages = Looks(reading, look),
         look = "complete" => phase[reading] = "done" /\ view'.conv = home[reading]
  PROVE  \E f : Repainted(f)
<1> DEFINE m == view.messages
           f == [i \in DOMAIN m |-> i]
<1>1. view \in Views
  BY DEF TypeOK, PageTypeOK
<1>2. DOMAIN Looks(reading, look) = DOMAIN m
  BY <1>1, LooksType
<1>3. ASSUME NEW i \in DOMAIN m
      PROVE  /\ Looks(reading, look)[i].turn = m[i].turn
             /\ Looks(reading, look)[i].role = m[i].role
             /\ Looks(reading, look)[i].look =
                  IF m[i].turn = reading /\ m[i].role = "assistant" THEN look ELSE m[i].look
  BY <1>1, LooksType
<1>4. Repainted(f)
  BY <1>2, <1>3 DEF Repainted
<1> QED BY <1>4

LEMMA ReadStep ==
  ASSUME TypeOK, TypeOK', TurnsInv, EndInv, PageParts, Read
  PROVE  PageParts'
<1>1. view \in Views
  BY DEF TypeOK, PageTypeOK
<1>2. CASE ReadToken
  <2>1. /\ reading \in Turns /\ UNCHANGED <<server, route, thread, reading>>
        /\ view' = [view EXCEPT !.messages = Looks(reading, "text")]
    BY <1>2, ReadType DEF ReadToken, Events
  <2>2. view'.messages = Looks(reading, "text") /\ view'.conv = view.conv /\ view'.loading = view.loading
        /\ view'.streaming = view.streaming
    BY <1>1, <2>1 DEF Views
  <2>3. PICK f : Repainted(f)
    BY <2>1, <2>2, LooksRepaint
  <2>4. ReadOn
    BY <2>1, <2>2 DEF ReadOn
  <2> QED BY <2>1, <2>2, <2>3, <2>4, RepaintKeeps
<1>3. CASE ReadError
  <2>1. /\ reading \in Turns /\ UNCHANGED <<server, route, thread, reading>>
        /\ view' = [view EXCEPT !.messages = Looks(reading, "failed")]
    BY <1>3, ReadType DEF ReadError, Events
  <2>2. view'.messages = Looks(reading, "failed") /\ view'.conv = view.conv /\ view'.loading = view.loading
        /\ view'.streaming = view.streaming
    BY <1>1, <2>1 DEF Views
  <2>3. PICK f : Repainted(f)
    BY <2>1, <2>2, LooksRepaint
  <2>4. ReadOn
    BY <2>1, <2>2 DEF ReadOn
  <2> QED BY <2>1, <2>2, <2>3, <2>4, RepaintKeeps
<1>4. CASE ReadDone
  <2>1. /\ reading \in Turns /\ UNCHANGED <<server, route, thread, reading>>
        /\ view' = [view EXCEPT !.messages = Looks(reading, "complete"), !.conv = home[reading]]
        /\ inbox[reading] \in Seq(Events) /\ inbox[reading] # <<>> /\ Head(inbox[reading]) = "done"
    BY <1>4, ReadType DEF ReadDone, Events
  <2>2. view'.messages = Looks(reading, "complete") /\ view'.conv = home[reading] /\ view'.loading = view.loading
        /\ view'.streaming = view.streaming
    BY <1>1, <2>1 DEF Views
  <2>3. phase[reading] = "done"
    <3>1. Contains(inbox[reading], "done")
      BY <2>1, InboxFacts
    <3> QED BY <2>1, <3>1 DEF TurnsInv
  <2>4. PICK f : Repainted(f)
    BY <2>1, <2>2, <2>3, LooksRepaint
  <2>5. ReadOn
    BY <2>1, <2>2 DEF ReadOn
  <2> QED BY <2>1, <2>2, <2>4, <2>5, RepaintKeeps
<1>5. CASE ReadEnd
  <2>0. reading \in Turns /\ inbox[reading] \in Seq(Events) /\ inbox[reading] # <<>>
    BY <1>5, ReadType DEF ReadEnd, Events
  <2>1. /\ UNCHANGED <<server, route, thread>> /\ reading' = NoTurn
        /\ view' = [view EXCEPT !.streaming = FALSE,
                       !.messages = IF Event("lost") THEN WithoutPlaceholder(reading) ELSE view.messages]
    BY <1>5 DEF ReadEnd
  <2>2. view'.messages = (IF Event("lost") THEN WithoutPlaceholder(reading) ELSE view.messages)
        /\ view'.conv = view.conv /\ view'.loading = view.loading /\ ~view'.streaming
    BY <1>1, <2>1 DEF Views
  <2>3. CASE Event("lost")
    <3>1. view'.messages = WithoutPlaceholder(reading)
      BY <2>2, <2>3
    <3>2. PICK f : \A i \in DOMAIN WithoutPlaceholder(reading) :
            /\ f[i] \in DOMAIN view.messages
            /\ WithoutPlaceholder(reading)[i] = view.messages[f[i]]
            /\ WithoutPlaceholder(reading)[i] # Bubble(reading, "assistant", "empty")
            /\ \A j \in DOMAIN WithoutPlaceholder(reading) : f[i] = f[j] => i = j
      BY <2>0, PlaceholderGone DEF PageParts
    <3>3. Repainted(f)
      BY <3>1, <3>2 DEF Repainted
    <3>4. \A i \in DOMAIN view'.messages : view'.messages[i].look # "empty"
      BY <3>1, <3>2, EmptyIsPlaceholder
    <3>5. ReadOn
      BY <2>1, <2>2, <3>4 DEF ReadOn
    <3> QED BY <2>0, <2>1, <2>2, <3>3, <3>5, RepaintKeeps
  <2>4. CASE ~Event("lost")
    <3>1. view'.messages = view.messages /\ Head(inbox[reading]) = "end"
      BY <1>5, <2>2, <2>4 DEF ReadEnd, Event
    <3>2. ~Contains(view.messages, Bubble(reading, "assistant", "empty"))
      <4>1. 1 \in DOMAIN inbox[reading] /\ inbox[reading][1] = "end"
        BY <2>0, <3>1
      <4>2. reading # NoTurn
        BY <2>0, ClientAssumption
      <4> QED BY <4>1, <4>2 DEF EndInv
    <3>3. \A i \in DOMAIN view'.messages : view'.messages[i].look # "empty"
      <4>1. DOMAIN view.messages = 1..Len(view.messages)
        BY Members
      <4> QED BY <3>1, <3>2, <4>1, EmptyIsPlaceholder DEF Contains
    <3>4. ReadOn
      BY <2>1, <2>2, <3>3 DEF ReadOn
    <3> DEFINE f == [i \in DOMAIN view.messages |-> i]
    <3>5. Repainted(f)
      BY <3>1 DEF Repainted
    <3> HIDE DEF f
    <3> QED BY <2>0, <2>1, <2>2, <3>4, <3>5, RepaintKeeps
  <2> QED BY <2>3, <2>4
<1> QED BY <1>2, <1>3, <1>4, <1>5 DEF Read

LEMMA ArriveStep ==
  ASSUME TypeOK, Arrive
  PROVE  PageParts' /\ EndInv'
<1> DEFINE r == going[1]
<1>1. r \in Routes /\ route' = r /\ view' = Fresh(r) /\ reading' = NoTurn /\ thread' = <<>>
  BY DEF TypeOK, PageTypeOK, Arrive
<1> HIDE DEF r
<1>2. view'.messages = <<>> /\ view'.conv = r /\ ~view'.streaming
  BY <1>1, FreshType
<1>3. DOMAIN view'.messages = {} /\ DOMAIN thread' = {}
  BY <1>1, <1>2
<1> QED BY <1>1, <1>2, <1>3
        DEF PageParts, PageInv, BubbleInv, JoinInv, ShowsItsConversation, FollowUpsJoin, EndInv

\* What a history shows.
LEMMA RestoredFacts ==
  ASSUME NEW got \in Seq(Rows)
  PROVE  /\ DOMAIN Restored(got) = DOMAIN got
         /\ \A i \in DOMAIN got :
              /\ Restored(got)[i].turn = got[i][1] /\ Restored(got)[i].role = got[i][2]
              /\ Restored(got)[i].look = IF got[i][2] = "user" THEN "plain" ELSE "complete"
BY DEF Restored, Bubble

LEMMA DeliverStep ==
  ASSUME TypeOK, PageParts, LoadInv, NEW l \in loads, DeliverHistory(l)
  PROVE  PageParts'
<1>0. UNCHANGED <<server, route, reading, thread>>
  BY DEF DeliverHistory
<1>1. CASE ~l.live
  <2>1. UNCHANGED page /\ UNCHANGED server
    BY <1>0, <1>1 DEF DeliverHistory, page
  <2> QED BY <2>1 DEF page, server, PageParts, PageInv, BubbleInv, JoinInv, ShowsItsConversation,
                      FollowUpsJoin, Asked, Complete
<1>2. CASE l.live
  <2>1. /\ l.conv = route /\ view.loading /\ ListOf(route, l.got)
        /\ \A i \in DOMAIN l.got : l.got[i][2] = "assistant" => Kept(l.got[i][1])
    BY <1>2 DEF LoadInv
  <2>2. /\ l.conv \in Convs /\ l.got \in Seq(Rows) /\ view \in Views
        /\ \A i \in DOMAIN l.got : l.got[i][1] \in Turns /\ l.got[i][2] \in Roles
    BY Members DEF TypeOK, PageTypeOK
  <2>3. thread = <<>> /\ view.messages = <<>> /\ reading = NoTurn
    BY <2>1 DEF PageParts, PageInv
  <2> DEFINE s == IF l.state = "ok" THEN Restored(l.got) ELSE <<>>
             p == view'.messages
  <2>4. view' = [view EXCEPT !.loading = FALSE, !.messages = s]
    BY <1>2, <2>3 DEF DeliverHistory
  <2> HIDE DEF s
  <2>5. p = s /\ view'.conv = view.conv /\ ~view'.loading /\ view'.streaming = view.streaming
    BY <2>2, <2>4 DEF Views
  <2>6. ASSUME NEW i \in DOMAIN p
        PROVE  /\ i \in DOMAIN l.got /\ p[i].turn = l.got[i][1] /\ p[i].role = l.got[i][2]
               /\ p[i].look = IF l.got[i][2] = "user" THEN "plain" ELSE "complete"
    <3>1. l.state = "ok" /\ p = Restored(l.got)
      BY <2>5 DEF s
    <3> QED BY <2>2, <3>1, RestoredFacts
  <2> HIDE DEF p
  <2>7. ASSUME NEW i \in DOMAIN p
        PROVE  /\ Asked(p[i].turn) /\ home[p[i].turn] = route /\ route \in Convs
               /\ p[i].role = "user" => p[i].look = "plain"
               /\ p[i].look = "complete" => Kept(p[i].turn)
               /\ p[i].look # "empty"
               /\ \A j \in DOMAIN p : p[i].turn = p[j].turn /\ p[i].role = p[j].role => i = j
    <3>1. Asked(p[i].turn) /\ home[p[i].turn] = route
      BY <2>1, <2>6 DEF ListOf
    <3>2. p[i].look = "complete" => p[i].role = "assistant"
      BY <2>2, <2>6 DEF Roles
    <3>3. p[i].look = "complete" => Kept(p[i].turn)
      BY <2>1, <2>6, <3>2
    <3>4. ASSUME NEW j \in DOMAIN p, p[i].turn = p[j].turn, p[i].role = p[j].role
          PROVE  i = j
      <4>1. l.got[i][1] = l.got[j][1] /\ l.got[i][2] = l.got[j][2] /\ i \in DOMAIN l.got /\ j \in DOMAIN l.got
        BY <2>6, <3>4
      <4>2. l.got[i] \in Turns \X Roles /\ l.got[j] \in Turns \X Roles
        BY <2>2, <4>1 DEF Rows
      <4>3. l.got[i] = l.got[j]
        BY <4>1, <4>2
      <4> QED BY <2>1, <4>1, <4>3 DEF ListOf
    <3> QED BY <2>1, <2>2, <2>6, <3>1, <3>3, <3>4
  <2>8. PageInv'
    BY <1>0, <2>3, <2>5 DEF PageParts, PageInv, server
  <2>9. BubbleInv'
    BY <1>0, <2>7 DEF BubbleInv, Asked, server, p
  <2>10. JoinInv' /\ FollowUpsJoin'
    BY <1>0, <2>3 DEF JoinInv, FollowUpsJoin
  <2>11. ShowsItsConversation'
    <3>1. UNCHANGED <<alive, stored, home, route>> /\ route # New
      BY <1>0, <2>1, <2>2, ClientAssumption DEF server
    <3> QED BY <2>7, <3>1 DEF ShowsItsConversation, Kept, p
  <2> QED BY <2>8, <2>9, <2>10, <2>11 DEF PageParts
<1> QED BY <1>1, <1>2

-----------------------------------------------------------------------------
(* Histories in flight, and the end of a stream.                           *)

LEMMA ServeLoad ==
  ASSUME TypeOK, RowsInv, LoadInv, NEW l \in loads, ServeHistory(l)
  PROVE  LoadInv'
<1> DEFINE ok   == [l EXCEPT !.state = "ok", !.got = stored[l.conv]]
           fail == [l EXCEPT !.state = "failed"]
           old  == loads \ {l}
<1>0. /\ UNCHANGED <<server, route, view>> /\ l \in Histories /\ l.conv \in Convs
      /\ stored[l.conv] \in Seq(Rows)
  BY Members DEF ServeHistory, page, TypeOK, ServerTypeOK, PageTypeOK
<1>1. /\ ok.conv = l.conv /\ ok.live = l.live /\ ok.got = stored[l.conv]
      /\ fail.conv = l.conv /\ fail.live = l.live /\ fail.got = l.got
  BY <1>0 DEF Histories
<1>2. loads' = old \union {ok} \/ loads' = old \union {fail}
  BY DEF ServeHistory
<1>3. ListOf(l.conv, stored[l.conv])
  BY <1>0 DEF RowsInv
<1>4. ASSUME NEW i \in DOMAIN stored[l.conv], stored[l.conv][i][2] = "assistant"
      PROVE  Kept(stored[l.conv][i][1])
  <2> DEFINE s == stored[l.conv]
  <2>1. s \in Seq(Rows) /\ home[s[i][1]] = l.conv
    BY <1>0, <1>3 DEF ListOf
  <2>2. s[i] \in Turns \X Roles
    BY <2>1 DEF Rows
  <2>3. s[i] = <<s[i][1], "assistant">>
    BY <1>4, <2>2
  <2>4. Contains(s, <<s[i][1], "assistant">>)
    BY <2>1, <2>3 DEF Contains
  <2> QED BY <2>1, <2>4 DEF Kept
<1>5. \A k \in loads : /\ ListOf(k.conv, k.got)
                       /\ \A i \in DOMAIN k.got : k.got[i][2] = "assistant" => Kept(k.got[i][1])
                       /\ k.live => k.conv = route /\ view.loading
                       /\ \A h \in loads : k.live /\ h.live => h = k
  BY DEF LoadInv
<1> HIDE DEF ok, fail
<1>6. ASSUME NEW x, x = ok \/ x = fail, loads' = old \union {x}
      PROVE  LoadInv'
  <2>1. /\ ListOf(x.conv, x.got) /\ x.live = l.live
        /\ \A i \in DOMAIN x.got : x.got[i][2] = "assistant" => Kept(x.got[i][1])
        /\ x.live => x.conv = route /\ view.loading
    BY <1>1, <1>3, <1>4, <1>5, <1>6
  <2>2. \A k \in loads' : /\ ListOf(k.conv, k.got)
                          /\ \A i \in DOMAIN k.got : k.got[i][2] = "assistant" => Kept(k.got[i][1])
                          /\ k.live => k.conv = route /\ view.loading
                          /\ \A h \in loads' : k.live /\ h.live => h = k
    BY <1>5, <1>6, <2>1
  <2> QED BY <1>0, <2>2 DEF LoadInv, ListOf, Asked, Kept, server
<1> QED BY <1>2, <1>6

LEMMA ArriveLoad ==
  ASSUME TypeOK, LoadInv, Arrive
  PROVE  LoadInv'
<1> DEFINE r == going[1]
           new == [conv |-> r, state |-> "sent", got |-> <<>>, live |-> TRUE]
           cancelled == {[l EXCEPT !.live = FALSE] : l \in loads}
<1>0. /\ UNCHANGED server /\ r \in Routes /\ route' = r /\ view' = Fresh(r)
      /\ loads' = IF r = New THEN cancelled ELSE cancelled \union {new}
  BY DEF TypeOK, PageTypeOK, Arrive
<1>1. ASSUME NEW k \in cancelled
      PROVE  /\ ListOf(k.conv, k.got) /\ ~k.live
             /\ \A i \in DOMAIN k.got : k.got[i][2] = "assistant" => Kept(k.got[i][1])
  <2>1. PICK l \in loads : k = [l EXCEPT !.live = FALSE]
    OBVIOUS
  <2>2. l \in Histories
    BY DEF TypeOK, PageTypeOK
  <2>3. k.conv = l.conv /\ k.got = l.got /\ ~k.live
    BY <2>1, <2>2 DEF Histories
  <2> QED BY <2>3 DEF LoadInv
<1>2. /\ new.conv = r /\ new.live /\ DOMAIN new.got = {}
  OBVIOUS
<1>3. view'.loading <=> r # New
  BY <1>0, FreshType
<1> HIDE DEF new, cancelled
<1>4. \A k \in loads' : k \in cancelled \/ (k = new /\ r # New)
  BY <1>0
<1>5. \A k \in loads' : /\ ListOf(k.conv, k.got)
                        /\ \A i \in DOMAIN k.got : k.got[i][2] = "assistant" => Kept(k.got[i][1])
                        /\ k.live => k.conv = r /\ r # New
                        /\ \A h \in loads' : k.live /\ h.live => h = k
  BY <1>1, <1>2, <1>4 DEF ListOf
<1> QED BY <1>0, <1>3, <1>5 DEF LoadInv, ListOf, Asked, Kept, server

LEMMA LoadStep ==
  ASSUME TypeOK, RowsInv, LoadInv, PageInv, [Next]_vars
  PROVE  LoadInv'
<1>0. Forward
  BY ForwardStep
<1>1. CASE UNCHANGED <<page, loads>>
  BY <1>0, <1>1, LoadKept DEF page
<1>2. CASE \E t \in Turns : Send(t) \/ Serve(t) \/ Leave(t)
  <2>1. CASE \E t \in Turns : Send(t)
    <3>1. loads' = loads /\ route' = route /\ ~view.loading /\ ~view'.loading
      BY <2>1, SendFacts DEF Send, MayWrite
    <3>2. \A l \in loads : ~l.live
      BY <3>1 DEF LoadInv
    <3> QED BY <1>0, <3>1, <3>2, LoadKept
  <2> QED BY <1>1, <1>2, <2>1 DEF Serve, Ask, Token, Save, Done, Fail, Break, Leave
<1>3. CASE Read
  <2>1. view \in Views /\ reading \in Turns
    BY <1>3, ReadConsumes DEF TypeOK, PageTypeOK
  <2>2. loads' = loads /\ route' = route
    BY <1>3 DEF Read, ReadToken, ReadDone, ReadError, ReadEnd
  <2>3. \A l \in loads : ~l.live
    BY <2>1, ReadingFacts DEF LoadInv
  <2> QED BY <1>0, <2>2, <2>3, LoadKept
<1>4. ASSUME NEW l \in loads, DeliverHistory(l) PROVE LoadInv'
  <2>1. loads' = loads \ {l} /\ route' = route
    BY <1>4 DEF DeliverHistory
  <2>2. CASE l.live
    <3>1. \A k \in loads' : ~k.live
      BY <2>1, <2>2 DEF LoadInv
    <3> QED BY <1>0, <2>1, <3>1, LoadKept
  <2>3. CASE ~l.live
    <3>1. view' = view
      BY <1>4, <2>3 DEF DeliverHistory
    <3> QED BY <1>0, <2>1, <3>1, LoadKept
  <2> QED BY <2>2, <2>3
<1>5. CASE Load
  BY <1>4, <1>5, ServeLoad DEF Load
<1>6. CASE Stay \/ (\E r \in Routes : Navigate(r)) \/ (\E c \in Convs : DeleteConversation(c)) \/ UNCHANGED vars
  BY <1>1, <1>6 DEF Stay, Navigate, DeleteConversation, vars
<1> QED BY <1>2, <1>3, <1>5, <1>6, ArriveLoad DEF Next

EndsWell(s) == \A i \in DOMAIN s : s[i] = "end" /\ i # 1 => s[i - 1] \in {"done", "error"}

AtEnd(s) == s # <<>> /\ s[1] = "end"

Filled == ~Contains(view.messages, Bubble(reading, "assistant", "empty"))

LEMMA EndParts ==
  ASSUME reading # NoTurn, inbox[reading] \in Seq(Events)
  PROVE  EndInv <=> EndsWell(inbox[reading]) /\ (AtEnd(inbox[reading]) => Filled)
<1>1. inbox[reading] # <<>> <=> 1 \in DOMAIN inbox[reading]
  OBVIOUS
<1> QED BY <1>1 DEF EndInv, EndsWell, AtEnd, Filled

LEMMA EndOnly ==
  ASSUME NEW s \in Seq(Events), EndsWell(s), NEW e \in {"done", "error"}
  PROVE  /\ EndsWell(s \o <<"token">>) /\ (AtEnd(s \o <<"token">>) => AtEnd(s))
         /\ EndsWell(s \o <<e, "end">>) /\ (AtEnd(s \o <<e, "end">>) => AtEnd(s))
<1>0. Len(s) \in Nat /\ DOMAIN s = 1..Len(s) /\ (s # <<>> <=> Len(s) > 0)
  OBVIOUS
<1>1. /\ DOMAIN (s \o <<"token">>) = 1..(Len(s) + 1) /\ (s \o <<"token">>)[Len(s) + 1] = "token"
      /\ \A i \in 1..Len(s) : (s \o <<"token">>)[i] = s[i]
  OBVIOUS
<1>2. /\ DOMAIN (s \o <<e, "end">>) = 1..(Len(s) + 2)
      /\ (s \o <<e, "end">>)[Len(s) + 1] = e /\ (s \o <<e, "end">>)[Len(s) + 2] = "end"
      /\ \A i \in 1..Len(s) : (s \o <<e, "end">>)[i] = s[i]
  OBVIOUS
<1> DEFINE a == s \o <<"token">>
           b == s \o <<e, "end">>
           n == Len(s)
<1> HIDE DEF a, b, n
<1>3. EndsWell(a) /\ (AtEnd(a) => AtEnd(s))
  <2>1. n \in Nat /\ DOMAIN s = 1..n /\ DOMAIN a = 1..(n + 1) /\ a[n + 1] = "token" /\ \A i \in 1..n : a[i] = s[i]
        /\ (s # <<>> <=> n > 0)
    BY <1>0, <1>1 DEF a, n
  <2>2. ASSUME NEW i \in DOMAIN a, a[i] = "end", i # 1 PROVE a[i - 1] \in {"done", "error"}
    <3>1. i \in 1..n /\ i - 1 \in 1..n
      BY <2>1, <2>2
    <3> QED BY <2>1, <2>2, <3>1 DEF EndsWell
  <2>3. AtEnd(a) => AtEnd(s)
    BY <2>1 DEF AtEnd
  <2> QED BY <2>2, <2>3 DEF EndsWell
<1>4. EndsWell(b) /\ (AtEnd(b) => AtEnd(s))
  <2>1. n \in Nat /\ DOMAIN s = 1..n /\ DOMAIN b = 1..(n + 2) /\ b[n + 1] = e /\ b[n + 2] = "end"
        /\ (\A i \in 1..n : b[i] = s[i]) /\ (s # <<>> <=> n > 0)
    BY <1>0, <1>2 DEF b, n
  <2>2. ASSUME NEW i \in DOMAIN b, b[i] = "end", i # 1 PROVE b[i - 1] \in {"done", "error"}
    <3>1. i \in 1..n \/ i = n + 2
      BY <2>1, <2>2
    <3>2. CASE i \in 1..n
      <4>1. i - 1 \in 1..n
        BY <2>1, <2>2, <3>2
      <4> QED BY <2>1, <2>2, <3>2, <4>1 DEF EndsWell
    <3>3. CASE i = n + 2
      <4>1. i - 1 = n + 1
        BY <2>1, <3>3
      <4> QED BY <2>1, <4>1
    <3> QED BY <3>1, <3>2, <3>3
  <2>3. AtEnd(b) => AtEnd(s)
    BY <2>1 DEF AtEnd
  <2> QED BY <2>2, <2>3 DEF EndsWell
<1> QED BY <1>3, <1>4 DEF a, b

LEMMA EndCut ==
  ASSUME NEW s \in Seq(Events), EndsWell(s)
  PROVE  /\ \A n \in 0..Len(s) : /\ EndsWell(Append(SubSeq(s, 1, n), "lost"))
                                 /\ AtEnd(Append(SubSeq(s, 1, n), "lost")) => AtEnd(s)
         /\ s # <<>> /\ Head(s) # "end" => /\ EndsWell(Tail(s))
                                           /\ AtEnd(Tail(s)) => Head(s) \in {"done", "error"}
<1>1. ASSUME NEW n \in 0..Len(s)
      PROVE  /\ EndsWell(Append(SubSeq(s, 1, n), "lost"))
             /\ AtEnd(Append(SubSeq(s, 1, n), "lost")) => AtEnd(s)
  <2> DEFINE p == SubSeq(s, 1, n)
             a == Append(p, "lost")
  <2>1. p \in Seq(Events) /\ Len(p) = n /\ n \in Nat /\ \A i \in 1..n : p[i] = s[i] /\ i \in DOMAIN s
    OBVIOUS
  <2> HIDE DEF p
  <2>2. DOMAIN a = 1..(n + 1) /\ a[n + 1] = "lost" /\ \A i \in 1..n : a[i] = s[i]
    BY <2>1
  <2> HIDE DEF a
  <2>3. ASSUME NEW i \in DOMAIN a, a[i] = "end", i # 1 PROVE a[i - 1] \in {"done", "error"}
    <3>1. i \in 1..n /\ i - 1 \in 1..n
      BY <2>1, <2>2, <2>3
    <3> QED BY <2>1, <2>2, <2>3, <3>1 DEF EndsWell
  <2>4. AtEnd(a) => AtEnd(s)
    BY <2>1, <2>2 DEF AtEnd
  <2> QED BY <2>3, <2>4 DEF EndsWell, a, p
<1>2. ASSUME s # <<>>, Head(s) # "end"
      PROVE  /\ EndsWell(Tail(s))
             /\ AtEnd(Tail(s)) => Head(s) \in {"done", "error"}
  <2> DEFINE z == Tail(s)
  <2>1. /\ Len(s) \in Nat /\ DOMAIN s = 1..Len(s) /\ Len(s) >= 1 /\ Head(s) = s[1]
        /\ DOMAIN z = 1..(Len(s) - 1) /\ Len(z) = Len(s) - 1 /\ z \in Seq(Events)
        /\ \A i \in 1..(Len(s) - 1) : z[i] = s[i + 1]
    BY <1>2
  <2> HIDE DEF z
  <2>2. ASSUME NEW i \in DOMAIN z, z[i] = "end", i # 1 PROVE z[i - 1] \in {"done", "error"}
    <3>1. i + 1 \in DOMAIN s /\ i - 1 \in DOMAIN z /\ (i + 1) - 1 = i /\ (i - 1) + 1 = i /\ i + 1 # 1
      BY <2>1, <2>2
    <3>2. s[i] \in {"done", "error"}
      BY <2>1, <2>2, <3>1 DEF EndsWell
    <3> QED BY <2>1, <3>1, <3>2
  <2>3. ASSUME AtEnd(z) PROVE Head(s) \in {"done", "error"}
    <3>1. z # <<>> /\ z[1] = "end"
      BY <2>3 DEF AtEnd
    <3>2. 1 \in 1..(Len(s) - 1) /\ 2 \in DOMAIN s /\ s[2] = "end"
      BY <2>1, <3>1
    <3>3. \A i \in DOMAIN s : i = 2 /\ s[i] = "end" => s[i - 1] \in {"done", "error"} /\ i - 1 = 1
      BY DEF EndsWell
    <3> QED BY <2>1, <3>2, <3>3
  <2> QED BY <2>2, <2>3 DEF EndsWell, z
<1> QED BY <1>1, <1>2

LEMMA EndSame ==
  ASSUME EndInv, reading' = reading, UNCHANGED view, inbox'[reading] = inbox[reading]
  PROVE  EndInv'
BY DEF EndInv

\* What a change of the inbox and of the bubbles must keep.
LEMMA EndChange ==
  ASSUME TypeOK, TypeOK', reading' = reading, reading \in Turns,
         EndsWell(inbox'[reading]),
         AtEnd(inbox'[reading]) =>
           ~Contains(view'.messages, Bubble(reading, "assistant", "empty"))
  PROVE  EndInv'
<1>1. inbox'[reading] \in Seq(Events)
  BY DEF TypeOK, ServerTypeOK
<1>2. inbox'[reading] # <<>> <=> 1 \in DOMAIN inbox'[reading]
  BY <1>1
<1> QED BY <1>2 DEF EndInv, EndsWell, AtEnd

LEMMA EndStep ==
  ASSUME TypeOK, TypeOK', TurnsInv, LoadInv, PageParts, EndInv, [Next]_vars
  PROVE  EndInv'
<1>0. inbox \in [Turns -> Seq(Events)] /\ view \in Views
  BY DEF TypeOK, ServerTypeOK, PageTypeOK
<1>1. ASSUME NEW t \in Turns, NEW e \in {"done", "error"}, UNCHANGED page,
             Emit(t, <<"token">>) \/ Emit(t, <<e, "end">>)
      PROVE  EndInv'
  <2>1. <<"token">> \in Seq(Events) /\ <<e, "end">> \in Seq(Events)
    BY DEF Events
  <2>2. UNCHANGED <<view, reading>>
    BY <1>1 DEF page
  <2>3. CASE Reaches(t)
    <3>0. reading = t
      BY <2>3 DEF Reaches
    <3>1. inbox'[t] = inbox[t] \o <<"token">> \/ inbox'[t] = inbox[t] \o <<e, "end">>
      BY <1>0, <1>1, <2>1, <2>3, EmitFacts
    <3>2. EndsWell(inbox[t]) /\ (AtEnd(inbox[t]) => Filled) /\ inbox[t] \in Seq(Events)
      BY <1>0, <3>0, EndParts, ClientAssumption
    <3>3. EndsWell(inbox'[t]) /\ (AtEnd(inbox'[t]) => AtEnd(inbox[t]))
      BY <3>1, <3>2, EndOnly
    <3> QED BY <2>2, <3>0, <3>2, <3>3, EndChange DEF Filled
  <2>4. CASE ~Reaches(t) /\ reading \in Turns
    <3>1. inbox'[reading] = inbox[reading]
      BY <1>0, <1>1, <2>1, <2>4, EmitFacts
    <3> QED BY <2>2, <3>1, EndSame
  <2>5. CASE reading = NoTurn
    BY <2>2, <2>5 DEF EndInv
  <2> QED BY <2>3, <2>4, <2>5 DEF TypeOK, PageTypeOK
<1>2. ASSUME NEW t \in Turns, Token(t) \/ Done(t) \/ Fail(t) PROVE EndInv'
  <2>1. UNCHANGED page /\ \E e \in {"done", "error"} : Emit(t, <<"token">>) \/ Emit(t, <<e, "end">>)
    BY <1>2 DEF Token, Done, Fail
  <2> QED BY <1>1, <2>1
<1>3. ASSUME NEW t \in Turns, Break(t) PROVE EndInv'
  <2>1. PICK n \in 0..Len(inbox[t]) :
          inbox' = [inbox EXCEPT ![t] = Append(SubSeq(@, 1, n), "lost")]
    BY <1>3 DEF Break
  <2>2. reading = t /\ UNCHANGED <<view, reading>>
    BY <1>3 DEF Break, Reaches, page
  <2>3. inbox'[t] = Append(SubSeq(inbox[t], 1, n), "lost")
    BY <1>0, <2>1
  <2>4. EndsWell(inbox[t]) /\ (AtEnd(inbox[t]) => Filled) /\ inbox[t] \in Seq(Events)
    BY <1>0, <2>2, EndParts, ClientAssumption
  <2>5. EndsWell(inbox'[t]) /\ (AtEnd(inbox'[t]) => AtEnd(inbox[t]))
    BY <2>3, <2>4, EndCut
  <2> QED BY <2>2, <2>4, <2>5, EndChange DEF Filled
<1>4. ASSUME NEW t \in Turns, Send(t) PROVE EndInv'
  <2>1. inbox'[t] = <<>> /\ reading' = t
    BY <1>4 DEF Send, TurnsInv
  <2>2. DOMAIN inbox'[t] = {}
    BY <2>1
  <2> QED BY <2>1, <2>2 DEF EndInv
<1>5. ASSUME NEW look \in {"text", "complete", "failed"}, NEW e \in {"token", "done", "error"},
             e = "token" <=> look = "text",
             Event(e), Consume(reading), reading' = reading, view'.messages = Looks(reading, look)
      PROVE  EndInv'
  <2>1. reading \in Turns /\ inbox[reading] \in Seq(Events) /\ inbox[reading] # <<>> /\ Head(inbox[reading]) = e
    BY <1>5, ReadType DEF Events
  <2>2. inbox'[reading] = Tail(inbox[reading])
    BY <1>0, <1>5, <2>1 DEF Consume
  <2>3. EndsWell(inbox[reading])
    BY <2>1, EndParts, ClientAssumption
  <2>4. EndsWell(inbox'[reading]) /\ (AtEnd(inbox'[reading]) => e \in {"done", "error"})
    BY <2>1, <2>2, <2>3, EndCut
  <2>5. ASSUME look # "text" PROVE ~Contains(view'.messages, Bubble(reading, "assistant", "empty"))
    <3>1. SUFFICES ASSUME NEW i \in 1..Len(view'.messages),
                          view'.messages[i] = Bubble(reading, "assistant", "empty")
                   PROVE  FALSE
      BY DEF Contains
    <3>2. view'.messages[i].turn = reading /\ view'.messages[i].role = "assistant" /\ view'.messages[i].look = "empty"
      BY <3>1 DEF Bubble
    <3>3. i \in DOMAIN view.messages
      BY <1>0, <1>5, <2>1, LooksType, Members
    <3> QED BY <1>0, <1>5, <2>1, <2>5, <3>2, <3>3, LooksType
  <2> QED BY <1>5, <2>1, <2>4, <2>5, EndChange
<1>6. CASE ReadToken
  <2>1. view'.messages = Looks(reading, "text")
    BY <1>0, <1>6 DEF ReadToken, Views
  <2> QED BY <1>5, <1>6, <2>1 DEF ReadToken
<1>7. CASE ReadDone
  <2>1. view'.messages = Looks(reading, "complete")
    BY <1>0, <1>7 DEF ReadDone, Views
  <2> QED BY <1>5, <1>7, <2>1 DEF ReadDone
<1>8. CASE ReadError
  <2>1. view'.messages = Looks(reading, "failed")
    BY <1>0, <1>8 DEF ReadError, Views
  <2> QED BY <1>5, <1>8, <2>1 DEF ReadError
<1>9. CASE ReadEnd
  BY <1>9 DEF ReadEnd, EndInv
<1>10. ASSUME NEW l \in loads, DeliverHistory(l) PROVE EndInv'
  <2>1. UNCHANGED <<inbox, reading>>
    BY <1>10 DEF DeliverHistory
  <2>2. CASE reading = NoTurn
    BY <2>1, <2>2 DEF EndInv
  <2>3. CASE reading # NoTurn
    <3>1. ~l.live
      BY <2>3 DEF LoadInv, PageParts, PageInv
    <3>2. UNCHANGED view
      BY <1>10, <3>1 DEF DeliverHistory
    <3> QED BY <2>1, <3>2, EndSame
  <2> QED BY <2>2, <2>3
<1>11. CASE UNCHANGED <<inbox, page>>
  BY <1>11, EndSame DEF page
<1>12. ASSUME NEW t \in Turns, Ask(t) \/ Save(t) \/ Leave(t) PROVE EndInv'
  BY <1>11, <1>12 DEF Ask, Save, Leave
<1>13. ASSUME NEW l \in loads, ServeHistory(l) PROVE EndInv'
  BY <1>11, <1>13 DEF ServeHistory
<1>14. CASE Stay \/ (\E r \in Routes : Navigate(r)) \/ (\E c \in Convs : DeleteConversation(c)) \/ UNCHANGED vars
  BY <1>11, <1>14 DEF Stay, Navigate, DeleteConversation, vars
<1> QED BY <1>2, <1>3, <1>4, <1>6, <1>7, <1>8, <1>9, <1>10, <1>12, <1>13, <1>14, ArriveStep
        DEF Next, Serve, Read, Load

-----------------------------------------------------------------------------
(* The invariant.                                                          *)

LEMMA InitInv ==
  ASSUME Init
  PROVE  Inv
<1>1. TypeOK
  BY InitType, ClientAssumption
<1>2. DOMAIN view.messages = {} /\ DOMAIN thread = {} /\ view.conv = New /\ ~view.streaming /\ ~view.loading
  <2>1. New \in Routes /\ view = Fresh(New) /\ thread = <<>>
    BY DEF Init, Routes
  <2>2. view.messages = <<>> /\ view.conv = New /\ ~view.streaming /\ ~view.loading
    BY <2>1, FreshType
  <2> QED BY <2>1, <2>2
<1>3. (\A c \in Convs : DOMAIN stored[c] = {}) /\ \A t \in Turns : phase[t] = "unsent" /\ inbox[t] = <<>>
  BY DEF Init
<1>4. \A t \in Turns : ~Contains(inbox[t], "done")
  BY <1>3 DEF Contains
<1>5. RowsInv /\ TurnsInv
  BY <1>3, <1>4 DEF RowsInv, ListOf, TurnsInv
<1>6. LoadInv /\ PageInv /\ BubbleInv /\ EndInv
  BY <1>2 DEF Init, LoadInv, PageInv, BubbleInv, EndInv
<1>7. JoinInv /\ ShowsItsConversation /\ FollowUpsJoin
  BY <1>2 DEF Init, JoinInv, ShowsItsConversation, FollowUpsJoin
<1> QED BY <1>1, <1>5, <1>6, <1>7 DEF Inv

LEMMA PagePartsStep ==
  ASSUME TypeOK, TypeOK', TurnsInv, LoadInv, EndInv, PageParts, Forward, [Next]_vars
  PROVE  PageParts'
<1>1. CASE UNCHANGED page
  BY <1>1, PageKept DEF PageParts
<1>2. ASSUME NEW t \in Turns, Send(t) PROVE PageParts'
  BY <1>2, SendStep
<1>3. ASSUME NEW t \in Turns, Serve(t) \/ Leave(t) PROVE PageParts'
  BY <1>1, <1>3 DEF Serve, Ask, Token, Save, Done, Fail, Break, Leave
<1>4. ASSUME NEW l \in loads, DeliverHistory(l) PROVE PageParts'
  BY <1>4, DeliverStep
<1>5. ASSUME NEW l \in loads, ServeHistory(l) PROVE PageParts'
  BY <1>1, <1>5 DEF ServeHistory
<1>6. CASE Read
  BY <1>6, ReadStep
<1>7. CASE Arrive
  BY <1>7, ArriveStep
<1>8. CASE Stay \/ (\E r \in Routes : Navigate(r)) \/ (\E c \in Convs : DeleteConversation(c)) \/ UNCHANGED vars
  BY <1>1, <1>8 DEF Stay, Navigate, DeleteConversation, vars
<1> QED BY <1>2, <1>3, <1>4, <1>5, <1>6, <1>7, <1>8 DEF Next, Load

LEMMA InvStep ==
  ASSUME Inv, [Next]_vars
  PROVE  Inv'
<1>1. TypeOK /\ RowsInv /\ TurnsInv /\ LoadInv /\ PageInv /\ EndInv /\ PageParts
  BY DEF Inv, PageParts
<1>2. TypeOK' /\ Forward
  BY <1>1, TypeStep, ForwardStep
<1>3. RowsInv' /\ TurnsInv' /\ LoadInv'
  BY <1>1, RowsStep, TurnsStep, LoadStep
<1>4. EndInv' /\ PageParts'
  BY <1>1, <1>2, EndStep, PagePartsStep
<1> QED BY <1>2, <1>3, <1>4 DEF Inv, PageParts

(***************************************************************************)
(* What every step of the page, the server and the router leaves true of   *)
(* bubbles, rows, loads and the stream being read, all of it together:     *)
(* each part is needed to carry another over some step.                    *)
(***************************************************************************)
THEOREM ClientInvariant == Spec => []Inv
<1>1. Init => Inv
  BY InitInv
<1>2. Inv /\ [Next]_vars => Inv'
  BY InvStep
<1> QED BY <1>1, <1>2, PTL DEF Spec

(***************************************************************************)
(* Whatever the network, the server and the user do with the pages before  *)
(* it, a page of useChat shows the messages of its own conversation, each  *)
(* once; an answer it calls complete is in the database until its          *)
(* conversation is deleted; and no bubble waits for a stream that nobody   *)
(* reads.                                                                  *)
(***************************************************************************)
THEOREM PageShowsItsConversation == Spec => []ShowsItsConversation
BY ClientInvariant, PTL DEF Inv

(***************************************************************************)
(* A message sent from a page of useChat after a complete answer belongs   *)
(* to the answer's conversation: a new conversation's id is known to the   *)
(* page at once, although the router still has to replace it.              *)
(***************************************************************************)
THEOREM FollowUpsStay == Spec => []FollowUpsJoin
BY ClientInvariant, PTL DEF Inv

=============================================================================
