--------------------------- MODULE ChatTurnProofs ---------------------------
(***************************************************************************)
(* Proofs about ChatTurn: what is stored of an answer, and that every turn *)
(* keeps the promise of TurnProtocol.                                      *)
(***************************************************************************)
EXTENDS ChatTurn, FiniteSetTheorems, TLAPS

\* The steps of a turn after which its answer may be stored.
Later == {"report", "closed", "left"}

\* What is known of one turn: until PersistCommit nothing of its answer is
\* stored or counted, and only a closed turn was told that it is done.
TurnInv(t) ==
  /\ pc[t] \notin Later => usage[t] = 0 /\ Answer(t) \notin messages
  /\ usage[t] <= 1
  /\ usage[t] = 1 => convs[conv[t]] \in {"live", "gone"}
  /\ Answer(t) \in messages => usage[t] = 1
  /\ usage[t] = 1 /\ convs[conv[t]] = "live" => Answer(t) \in messages
  /\ pc[t] # "closed" => ~Answered(t)

\* CitationsMatch for one turn.
CitedInv(t) ==
  \A k \in Chunks :
    <<t, k>> \in citations <=> Answer(t) \in messages /\ k \in cited[t] /\ k \in chunks

ChatInv == TypeOK /\ \A t \in Turns : TurnInv(t) /\ CitedInv(t)

-----------------------------------------------------------------------------
(* Types.                                                                  *)

\* An event sequence stays one when an event is appended.
LEMMA SayType ==
  ASSUME NEW t \in Turns, NEW e \in {"token", "done", "error"}, Say(t, e),
         events \in [Turns -> Seq({"token", "done", "error"})]
  PROVE  events' \in [Turns -> Seq({"token", "done", "error"})]
BY DEF Say

\* Dropping the draft of a turn keeps the type of convs.
LEMMA DropType ==
  ASSUME NEW t \in Turns, DropDraft(t), convs \in [Convs -> {"unused", "draft", "live", "gone"}]
  PROVE  /\ convs' \in [Convs -> {"unused", "draft", "live", "gone"}]
         /\ \A c \in Convs : convs[c] \in {"live", "gone"} => convs'[c] = convs[c]
         /\ \A c \in Convs : convs'[c] = "live" => convs[c] = "live"
BY DEF DropDraft

\* Forgetting its locals keeps their types.
LEMMA ForgetType ==
  ASSUME NEW t \in Turns, Forget(t), TypeOK
  PROVE  /\ known' \in [Turns -> SUBSET Turns]
         /\ history' \in [Turns -> SUBSET Msgs]
         /\ context' \in [Turns -> SUBSET Chunks]
BY DEF Forget, TypeOK

\* The messages of a turn, and a transaction that starts.
LEMMA MsgType == \A t \in Turns : Question(t) \in Msgs /\ Answer(t) \in Msgs
BY DEF Question, Answer, Msgs, Roles

LEMMA StartType ==
  ASSUME TypeOK, NEW x \in Msgs
  PROVE  Append(started, x) \in Seq(Msgs)
BY DEF TypeOK

\* Every step keeps the types.
LEMMA TypeStep == TypeOK /\ [Next]_vars => TypeOK'
<1> SUFFICES ASSUME TypeOK, [Next]_vars PROVE TypeOK'
  OBVIOUS
<1>1. ASSUME NEW t \in Turns, Begin(t) PROVE TypeOK'
  <2>1. started' \in Seq(Msgs)
    BY <1>1, MsgType, StartType DEF Begin
  <2>2. known' \in [Turns -> SUBSET Turns] /\ conv' \in [Turns -> Convs \union {None}]
    BY <1>1 DEF Begin, TypeOK
  <2>3. convs' \in [Convs -> {"unused", "draft", "live", "gone"}]
    BY <1>1 DEF Begin, TypeOK
  <2>4. pc' \in [Turns -> Label]
    <3>1. \E label \in {"history", "refused"} : Goto(t, label)
      BY <1>1 DEF Begin
    <3> QED BY <3>1 DEF TypeOK, Goto, Label, Ended
  <2>5. \A u \in Turns : pc'[u] # "idle" => conv'[u] \in Convs
    BY <1>1 DEF Begin, TypeOK, Goto
  <2> QED BY <1>1, <2>1, <2>2, <2>3, <2>4, <2>5 DEF Begin, TypeOK
<1>2. ASSUME NEW t \in Turns, LoadHistory(t) PROVE TypeOK'
  BY <1>2 DEF LoadHistory, TypeOK, Goto, Label, content, Newest, MessagesOf
<1>3. ASSUME NEW t \in Turns, OpenCommit(t) PROVE TypeOK'
  BY <1>3, MsgType DEF OpenCommit, TypeOK, Goto, Label, locals
<1>4. ASSUME NEW t \in Turns, OpenFail(t) PROVE TypeOK'
  BY <1>4, DropType, ForgetType DEF OpenFail, TypeOK, Goto, Label, Ended
<1>5. ASSUME NEW t \in Turns, Retrieve(t) PROVE TypeOK'
  <2>1. started' \in Seq(Msgs)
    <3>1. started' = Append(started, Answer(t)) \/ started' = started
      BY <1>5 DEF Retrieve
    <3>2. started \in Seq(Msgs) /\ Append(started, Answer(t)) \in Seq(Msgs)
      BY MsgType, StartType DEF TypeOK
    <3> QED BY <3>1, <3>2
  <2>2. context' \in [Turns -> SUBSET Chunks]
    BY <1>5 DEF Retrieve, TypeOK
  <2> QED BY <1>5, <2>1, <2>2 DEF Retrieve, TypeOK, Goto, Label, content
<1>6. ASSUME NEW t \in Turns, Token(t) PROVE TypeOK'
  BY <1>6, SayType DEF Token, TypeOK, content, locals
<1>7. ASSUME NEW t \in Turns, Generated(t) PROVE TypeOK'
  <2>1. cited' \in [Turns -> SUBSET Chunks]
    BY <1>7 DEF Generated, TypeOK
  <2> QED BY <1>7, <2>1, ForgetType DEF Generated, TypeOK, Goto, Label, content
<1>8. ASSUME NEW t \in Turns, GenerationFail(t) PROVE TypeOK'
  BY <1>8, ForgetType, SayType DEF GenerationFail, TypeOK, Goto, Label, Ended, content
<1>9. ASSUME NEW t \in Turns, PersistCommit(t) PROVE TypeOK'
  <2>1. started' \in Seq(Msgs)
    BY <1>9, MsgType, StartType DEF PersistCommit, TypeOK
  <2>2. messages' \subseteq Msgs /\ citations' \subseteq Turns \X Chunks
    BY <1>9, MsgType DEF PersistCommit, TypeOK
  <2>3. usage' \in [Turns -> Nat]
    BY <1>9 DEF PersistCommit, TypeOK
  <2> QED BY <1>9, <2>1, <2>2, <2>3 DEF PersistCommit, TypeOK, Goto, Label, locals
<1>10. ASSUME NEW t \in Turns, PersistFail(t) PROVE TypeOK'
  BY <1>10, SayType DEF PersistFail, TypeOK, Goto, Label, Ended, content, locals
<1>11. ASSUME NEW t \in Turns, Report(t) PROVE TypeOK'
  BY <1>11, SayType DEF Report, TypeOK, Goto, Label, Ended, content, locals
<1>12. ASSUME NEW t \in Turns, Leave(t) PROVE TypeOK'
  BY <1>12, DropType, ForgetType DEF Leave, TypeOK, Goto, Label, Ended
<1>13. ASSUME NEW c \in Convs, DeleteConversation(c) PROVE TypeOK'
  BY <1>13 DEF DeleteConversation, TypeOK, locals
<1>14. ASSUME NEW k \in Chunks, RemoveChunk(k) PROVE TypeOK'
  BY <1>14 DEF RemoveChunk, TypeOK, locals
<1>15. CASE UNCHANGED vars
  BY <1>15 DEF vars, content, locals, TypeOK
<1> QED
  BY <1>1, <1>2, <1>3, <1>4, <1>5, <1>6, <1>7, <1>8, <1>9, <1>10, <1>11, <1>12, <1>13, <1>14,
     <1>15 DEF Next, Turn

-----------------------------------------------------------------------------
(* What is stored of an answer.                                            *)

\* What a step of turn t leaves alone.
Frame(t) ==
  /\ chunks' = chunks
  /\ \A c \in Convs : convs[c] \in {"live", "gone"} => convs'[c] = convs[c]
  /\ \A c \in Convs : convs'[c] = "live" => convs[c] \in {"draft", "live"}
  /\ \A u \in Turns : u # t =>
       /\ pc'[u] = pc[u]
       /\ conv'[u] = conv[u]
       /\ cited'[u] = cited[u]
       /\ events'[u] = events[u]
       /\ usage'[u] = usage[u]
       /\ Answer(u) \in messages' <=> Answer(u) \in messages
       /\ \A k \in Chunks : <<u, k>> \in citations' <=> <<u, k>> \in citations

\* A step of one turn is framed.
LEMMA OnlyOneMoves ==
  ASSUME TypeOK, NEW t \in Turns, Begin(t) \/ Turn(t) \/ Leave(t)
  PROVE  Frame(t)
<1> USE DEF Frame, Goto, Answer, TypeOK
<1>1. CASE Begin(t)
  BY <1>1 DEF Begin
<1>2. CASE LoadHistory(t)
  BY <1>2 DEF LoadHistory, content
<1>3. CASE OpenCommit(t)
  BY <1>3 DEF OpenCommit, locals, Question
<1>4. CASE OpenFail(t)
  BY <1>4, DropType DEF OpenFail
<1>5. CASE Retrieve(t)
  BY <1>5 DEF Retrieve, content
<1>6. CASE Token(t)
  BY <1>6 DEF Token, Say, content, locals
<1>7. CASE Generated(t)
  BY <1>7 DEF Generated, content
<1>8. CASE GenerationFail(t)
  BY <1>8 DEF GenerationFail, Say, content
<1>9. CASE PersistCommit(t)
  BY <1>9 DEF PersistCommit, locals
<1>10. CASE PersistFail(t)
  BY <1>10 DEF PersistFail, Say, content, locals
<1>11. CASE Report(t)
  BY <1>11 DEF Report, Say, content, locals
<1>12. CASE Leave(t)
  BY <1>12, DropType DEF Leave
<1> QED
  BY <1>1, <1>2, <1>3, <1>4, <1>5, <1>6, <1>7, <1>8, <1>9, <1>10, <1>11, <1>12 DEF Turn

\* A framed step keeps what is known of the other turns.
LEMMA OthersKept ==
  ASSUME ChatInv, NEW t \in Turns, Frame(t)
  PROVE  \A u \in Turns : u # t => TurnInv(u)' /\ CitedInv(u)'
<1> SUFFICES ASSUME NEW u \in Turns, u # t PROVE TurnInv(u)' /\ CitedInv(u)'
  OBVIOUS
<1>1. /\ pc'[u] = pc[u] /\ conv'[u] = conv[u] /\ events'[u] = events[u] /\ usage'[u] = usage[u]
      /\ Answer(u) \in messages' <=> Answer(u) \in messages
  BY DEF Frame
<1>2. Answered(u)' <=> Answered(u)
  BY <1>1 DEF Answered
<1>3. pc[u] = "idle" => usage[u] = 0
  BY DEF ChatInv, TurnInv, Later
<1>4. usage[u] \in Nat
  BY DEF ChatInv, TypeOK
<1>5. TurnInv(u)'
  <2>1. TurnInv(u) /\ (pc[u] # "idle" => conv[u] \in Convs)
    BY DEF ChatInv, TypeOK
  <2> QED BY <1>1, <1>2, <1>3, <1>4, <2>1 DEF TurnInv, Frame, Answer
<1>6. CitedInv(u)'
  BY <1>1 DEF ChatInv, CitedInv, Frame, Answer
<1> QED BY <1>5, <1>6

\* A step of turn t keeps what is known of t.
LEMMA OwnKept ==
  ASSUME ChatInv, NEW t \in Turns, Begin(t) \/ Turn(t) \/ Leave(t)
  PROVE  TurnInv(t)' /\ CitedInv(t)'
<1>0. TypeOK /\ TurnInv(t) /\ CitedInv(t)
  BY DEF ChatInv
<1>a. Question(t) # Answer(t)
  BY DEF Question, Answer
<1> USE <1>0, <1>a DEF TypeOK, TurnInv, CitedInv, Goto, Later
<1>1. CASE Begin(t)
  <2>1. /\ pc'[t] \in {"history", "refused"}
        /\ conv'[t] \in Convs
        /\ UNCHANGED <<messages, citations, usage, chunks, cited, events>>
    BY <1>1 DEF Begin
  <2>2. pc[t] = "idle"
    BY <1>1 DEF Begin
  <2>3. ~Answered(t)'
    BY <2>1, <2>2 DEF Answered
  <2>4. Answer(t) \notin messages'
    BY <2>1, <2>2 DEF Answer
  <2>5. usage[t] = 0 /\ usage'[t] = 0
    BY <2>1, <2>2
  <2>6. TurnInv(t)'
    BY <2>1, <2>3, <2>4, <2>5
  <2>7. CitedInv(t)'
    BY <2>1, <2>2 DEF Answer
  <2> QED BY <2>6, <2>7
<1>2. CASE LoadHistory(t)
  BY <1>2 DEF LoadHistory, content, Answered, Answer
<1>3. CASE OpenCommit(t)
  BY <1>3 DEF OpenCommit, locals, Answered, Question, Answer
<1>4. CASE OpenFail(t)
  <2>1. /\ pc[t] \in {"history", "open"}
        /\ pc'[t] = "refused"
        /\ UNCHANGED <<messages, conv, citations, usage, chunks, cited, events>>
    BY <1>4 DEF OpenFail
  <2>2. ~Answered(t)'
    BY <2>1 DEF Answered
  <2>3. TurnInv(t)'
    BY <2>1, <2>2 DEF Answer
  <2>4. CitedInv(t)'
    BY <2>1 DEF Answer
  <2> QED BY <2>3, <2>4
<1>5. CASE Retrieve(t)
  BY <1>5 DEF Retrieve, content, Answered, Answer
<1>6. CASE Token(t)
  <2>1. ~Answered(t)'
    BY <1>6 DEF Token, Say, Answered
  <2> QED BY <1>6, <2>1 DEF Token, content, locals, Answer
<1>7. CASE Generated(t)
  BY <1>7 DEF Generated, content, Answered, Answer
<1>8. CASE GenerationFail(t)
  BY <1>8 DEF GenerationFail, Say, content, Answer
<1>9. CASE PersistCommit(t)
  BY <1>9 DEF PersistCommit, Saveable, locals, Answered, Answer
<1>10. CASE PersistFail(t)
  BY <1>10 DEF PersistFail, Say, content, locals, Answer
<1>11. CASE Report(t)
  BY <1>11 DEF Report, Say, content, locals, Answer
<1>12. CASE Leave(t)
  BY <1>12, DropType DEF Leave, Answered, Answer, Ended
<1> QED
  BY <1>1, <1>2, <1>3, <1>4, <1>5, <1>6, <1>7, <1>8, <1>9, <1>10, <1>11, <1>12 DEF Turn

\* The invariant is inductive.
LEMMA ChatStep == ChatInv /\ [Next]_vars => ChatInv'
<1> SUFFICES ASSUME ChatInv, [Next]_vars PROVE ChatInv'
  OBVIOUS
<1>1. TypeOK /\ TypeOK'
  BY TypeStep DEF ChatInv
<1>2. ASSUME NEW t \in Turns, Begin(t) \/ Turn(t) \/ Leave(t) PROVE ChatInv'
  BY <1>1, <1>2, OnlyOneMoves, OthersKept, OwnKept DEF ChatInv
<1>3. ASSUME NEW c \in Convs, DeleteConversation(c) PROVE ChatInv'
  <2> SUFFICES ASSUME NEW t \in Turns PROVE TurnInv(t)' /\ CitedInv(t)'
    BY <1>1 DEF ChatInv
  <2>1. Answer(t) \in messages' <=> Answer(t) \in messages /\ conv[t] # c
    BY <1>3 DEF DeleteConversation, Answer
  <2>2. \A k \in Chunks : <<t, k>> \in citations' <=> <<t, k>> \in citations /\ conv[t] # c
    BY <1>3 DEF DeleteConversation
  <2>3. TurnInv(t)'
    BY <1>1, <1>3, <2>1 DEF ChatInv, TurnInv, DeleteConversation, locals, TypeOK, Answered, Answer
  <2>4. CitedInv(t)'
    BY <1>3, <2>1, <2>2 DEF ChatInv, CitedInv, DeleteConversation, locals, Answer
  <2> QED BY <2>3, <2>4
<1>4. ASSUME NEW k \in Chunks, RemoveChunk(k) PROVE ChatInv'
  <2> SUFFICES ASSUME NEW t \in Turns PROVE TurnInv(t)' /\ CitedInv(t)'
    BY <1>1 DEF ChatInv
  <2>1. TurnInv(t)'
    BY <1>4 DEF ChatInv, TurnInv, RemoveChunk, locals, Answered, Answer
  <2>2. CitedInv(t)'
    BY <1>4 DEF ChatInv, CitedInv, RemoveChunk, locals, Answer
  <2> QED BY <2>1, <2>2
<1>5. CASE UNCHANGED vars
  BY <1>5 DEF ChatInv, TypeOK, TurnInv, CitedInv, vars, content, locals, Answered, Answer
<1> QED BY <1>2, <1>3, <1>4, <1>5 DEF Next

LEMMA ChatInit == Init => ChatInv
BY DEF Init, ChatInv, TypeOK, TurnInv, CitedInv, Label, Answered, Later

\* The types, and what the label of a turn says of its rows, counts and events.
THEOREM ChatInvariant == Spec => []ChatInv
BY ChatInit, ChatStep, PTL DEF Spec

\* Every variable keeps its type.
THEOREM TypeCorrect == Spec => []TypeOK
BY ChatInvariant, PTL DEF ChatInv

\* Stored citations are the cited chunks that still have a row, for any turns,
\* deletions, re-ingestions, failures and disconnects (the foreign keys of
\* message_citations and the single transaction of stream_chat_turn).
THEOREM CitationsAlwaysMatch == Spec => []CitationsMatch
<1>1. ChatInv => CitationsMatch
  <2> SUFFICES ASSUME ChatInv, NEW t \in Turns
                PROVE  {k \in Chunks : <<t, k>> \in citations} =
                         IF Answer(t) \in messages THEN cited[t] \intersect chunks ELSE {}
    BY DEF CitationsMatch
  <2>1. CitedInv(t) /\ chunks \subseteq Chunks
    BY DEF ChatInv, TypeOK
  <2> QED BY <2>1 DEF CitedInv
<1> QED BY <1>1, ChatInvariant, PTL

\* The ledger counts each saved answer once and nothing else.
THEOREM UsageAlwaysMatches == Spec => []UsageMatchesAnswers
<1>1. ChatInv => UsageMatchesAnswers
  BY DEF ChatInv, TurnInv, UsageMatchesAnswers
<1> QED BY <1>1, ChatInvariant, PTL

-----------------------------------------------------------------------------
(* Answers follow their questions.                                         *)

HasStarted(x) == \E i \in DOMAIN started : started[i] = x

Generating == {"retrieve", "generate", "persist"}

\* A question starts before its answer does, and is stored as long as the
\* conversation lives once the turn generates.
OrderInv(t) ==
  /\ pc[t] # "idle" => HasStarted(Question(t))
  /\ HasStarted(Answer(t)) => After(Question(t), Answer(t))
  /\ pc[t] \in Generating => convs[conv[t]] \in {"live", "gone"}
  /\ pc[t] \in Generating /\ convs[conv[t]] = "live" => Question(t) \in messages
  /\ Answer(t) \in messages => Question(t) \in messages /\ HasStarted(Answer(t))

\* Transactions only start: what has started stays, in its order, and the one
\* that starts comes after all others.
LEMMA StartsKept ==
  ASSUME started \in Seq(Msgs), NEW z \in Msgs, started' = Append(started, z)
  PROVE  /\ \A x : HasStarted(x)' <=> HasStarted(x) \/ x = z
         /\ \A x, y : After(x, y) => After(x, y)'
         /\ \A x : HasStarted(x) => After(x, z)'
<1>1. /\ DOMAIN started = 1..Len(started) /\ Len(started) \in Nat
      /\ DOMAIN started' = 1..(Len(started) + 1)
      /\ started'[Len(started) + 1] = z
      /\ \A i \in 1..Len(started) : started'[i] = started[i]
  OBVIOUS
<1>2. ASSUME NEW x PROVE HasStarted(x)' <=> HasStarted(x) \/ x = z
  BY <1>1 DEF HasStarted
<1>3. ASSUME NEW x, NEW y, After(x, y) PROVE After(x, y)'
  BY <1>1, <1>3 DEF After
<1>4. ASSUME NEW x, HasStarted(x) PROVE After(x, z)'
  BY <1>1, <1>4 DEF After, HasStarted
<1> QED BY <1>2, <1>3, <1>4

\* A step starts at most one transaction: the question of a turn that begins,
\* or the answer of one that has.
LEMMA StartStep ==
  ASSUME ChatInv, [Next]_vars
  PROVE  \/ started' = started
         \/ \E u \in Turns : started' = Append(started, Question(u)) /\ pc[u] = "idle"
         \/ \E u \in Turns : started' = Append(started, Answer(u)) /\ pc[u] # "idle"
<1>1. ASSUME NEW u \in Turns, Begin(u) \/ Turn(u) \/ Leave(u)
      PROVE  \/ started' = started
             \/ started' = Append(started, Question(u)) /\ pc[u] = "idle"
             \/ started' = Append(started, Answer(u)) /\ pc[u] # "idle"
  BY <1>1 DEF Begin, Turn, LoadHistory, OpenCommit, OpenFail, Retrieve, Token, Generated,
     GenerationFail, PersistCommit, PersistFail, Report, Leave
<1> QED
  BY <1>1 DEF Next, DeleteConversation, RemoveChunk, vars

\* The order of questions and answers is kept by every step.
LEMMA StartOrder ==
  ASSUME ChatInv, \A t \in Turns : OrderInv(t), [Next]_vars, NEW t \in Turns
  PROVE  /\ HasStarted(Question(t)) => HasStarted(Question(t))'
         /\ HasStarted(Answer(t)) => HasStarted(Answer(t))'
         /\ HasStarted(Answer(t))' => After(Question(t), Answer(t))'
<1>1. /\ \A u, v \in Turns : Question(u) # Answer(v)
      /\ \A u, v \in Turns : Answer(u) = Answer(v) => u = v
  BY DEF Question, Answer
<1>2. started \in Seq(Msgs) /\ OrderInv(t)
  BY DEF ChatInv, TypeOK
<1>3. CASE started' = started
  BY <1>2, <1>3 DEF HasStarted, After, OrderInv
<1>4. ASSUME NEW u \in Turns, NEW z \in {Question(u), Answer(u)}, started' = Append(started, z)
      PROVE  /\ \A x : HasStarted(x)' <=> HasStarted(x) \/ x = z
             /\ \A x, y : After(x, y) => After(x, y)'
             /\ \A x : HasStarted(x) => After(x, z)'
  <2>1. z \in Msgs
    BY MsgType
  <2> QED BY <1>2, <1>4, <2>1, StartsKept
<1>5. CASE \E u \in Turns : started' = Append(started, Question(u))
  BY <1>1, <1>2, <1>4, <1>5 DEF OrderInv
<1>6. CASE \E u \in Turns : started' = Append(started, Answer(u)) /\ pc[u] # "idle"
  <2>1. PICK u \in Turns : started' = Append(started, Answer(u)) /\ pc[u] # "idle"
    BY <1>6
  <2>2. HasStarted(Question(u))
    BY <2>1 DEF OrderInv
  <2> QED BY <1>1, <1>2, <1>4, <2>1, <2>2 DEF OrderInv
<1> QED BY <1>3, <1>5, <1>6, StartStep

\* OrderInv is inductive relative to ChatInv.
LEMMA OrderStep ==
  ASSUME ChatInv, \A t \in Turns : OrderInv(t), [Next]_vars, NEW t \in Turns
  PROVE  OrderInv(t)'
<1>0. /\ TypeOK /\ TurnInv(t) /\ OrderInv(t)
      /\ \A u, v \in Turns : Question(u) # Answer(v) /\ (Question(u) = Question(v) => u = v)
      /\ \A u, v \in Turns : Answer(u) = Answer(v) => u = v
  BY DEF ChatInv, Question, Answer
<1>1. /\ HasStarted(Question(t)) => HasStarted(Question(t))'
      /\ HasStarted(Answer(t)) => HasStarted(Answer(t))'
      /\ HasStarted(Answer(t))' => After(Question(t), Answer(t))'
  BY StartOrder
<1> DEFINE Stored == /\ pc[t] \in Generating => convs[conv[t]] \in {"live", "gone"}
                     /\ pc[t] \in Generating /\ convs[conv[t]] = "live" => Question(t) \in messages
                     /\ Answer(t) \in messages => Question(t) \in messages
<1>2. ASSUME pc[t] = "idle" => HasStarted(Question(t))' \/ pc'[t] = "idle",
             Stored',
             Answer(t) \in messages' => Answer(t) \in messages \/ HasStarted(Answer(t))'
      PROVE  OrderInv(t)'
  BY <1>0, <1>1, <1>2 DEF OrderInv
<1> HIDE DEF Stored
<1>3. ASSUME NEW u \in Turns, Begin(u) \/ Turn(u) \/ Leave(u), u # t PROVE OrderInv(t)'
  <2>1. Frame(u)
    BY <1>0, <1>3, OnlyOneMoves
  <2>2. Question(t) \in messages => Question(t) \in messages'
    BY <1>3 DEF Begin, Turn, LoadHistory, OpenCommit, OpenFail, Retrieve, Token, Generated,
       GenerationFail, PersistCommit, PersistFail, Report, Leave, content
  <2>3. pc[t] # "idle" => conv[t] \in Convs
    BY <1>0 DEF TypeOK
  <2>4. Stored'
    BY <1>0, <1>3, <2>1, <2>2, <2>3 DEF Stored, Frame, OrderInv, Generating, Answer, Question
  <2> QED BY <1>2, <1>3, <2>1, <2>4 DEF Frame, Answer
<1>4. ASSUME Begin(t) PROVE OrderInv(t)'
  <2>1. pc'[t] \in {"history", "refused"} /\ messages' = messages /\ Answer(t) \notin messages
    BY <1>0, <1>4 DEF Begin, Goto, TypeOK, TurnInv, Later
  <2>2. HasStarted(Question(t))'
    BY <1>0, <1>4, MsgType, StartsKept DEF Begin, TypeOK
  <2>3. Stored'
    BY <2>1 DEF Stored, Generating, Answer
  <2> QED BY <1>2, <2>1, <2>2, <2>3 DEF Answer
<1>5. ASSUME Turn(t) \/ Leave(t) PROVE OrderInv(t)'
  <2>0. pc[t] # "idle"
    BY <1>5 DEF Turn, LoadHistory, OpenCommit, OpenFail, Retrieve, Token, Generated,
       GenerationFail, PersistCommit, PersistFail, Report, Leave
  <2>1. CASE LoadHistory(t) \/ Retrieve(t) \/ Token(t) \/ Generated(t)
    BY <1>0, <1>2, <2>0, <2>1 DEF LoadHistory, Retrieve, Token, Generated, Goto, content, TypeOK,
       Stored, OrderInv, Generating, Answer, Question, locals
  <2>2. CASE OpenCommit(t)
    BY <1>0, <1>2, <2>0, <2>2 DEF OpenCommit, Goto, TypeOK, Stored, TurnInv, Later, Generating,
       Answer, Question, locals
  <2>3. CASE OpenFail(t) \/ GenerationFail(t) \/ PersistFail(t) \/ Report(t) \/ Leave(t)
    <3>1. pc'[t] \notin Generating /\ messages' = messages
      BY <1>0, <2>3 DEF OpenFail, GenerationFail, PersistFail, Report, Leave, Goto, content, TypeOK,
         Generating
    <3>2. Stored'
      BY <1>0, <3>1 DEF Stored, OrderInv, Answer, Question
    <3> QED BY <1>2, <2>0, <3>1, <3>2 DEF Answer
  <2>4. CASE PersistCommit(t)
    <3>1. /\ pc'[t] = "report" /\ pc[t] = "persist" /\ convs[conv[t]] = "live"
          /\ messages' = messages \union {Answer(t)}
      BY <1>0, <2>4 DEF PersistCommit, Saveable, Goto, TypeOK
    <3>2. Question(t) \in messages'
      BY <1>0, <3>1 DEF OrderInv, Generating
    <3>3. HasStarted(Answer(t))'
      BY <1>0, <1>1, <2>4, MsgType, StartsKept DEF PersistCommit, TypeOK, HasStarted
    <3>4. Stored'
      BY <3>1, <3>2 DEF Stored, Generating, Question
    <3> QED BY <1>2, <2>0, <3>3, <3>4
  <2> QED BY <1>5, <2>1, <2>2, <2>3, <2>4 DEF Turn
<1>6. ASSUME NEW c \in Convs, DeleteConversation(c) PROVE OrderInv(t)'
  <2>1. /\ Question(t) \in messages' <=> Question(t) \in messages /\ conv[t] # c
        /\ Answer(t) \in messages' <=> Answer(t) \in messages /\ conv[t] # c
    BY <1>6 DEF DeleteConversation, Question, Answer
  <2>2. Stored'
    BY <1>0, <1>6, <2>1 DEF DeleteConversation, locals, TypeOK, TurnInv, Stored, OrderInv,
       Generating, Question, Answer
  <2> QED BY <1>2, <1>6, <2>1, <2>2 DEF DeleteConversation
<1>7. ASSUME NEW k \in Chunks, RemoveChunk(k) PROVE OrderInv(t)'
  <2>1. Stored'
    BY <1>0, <1>7 DEF RemoveChunk, locals, Stored, OrderInv, Generating, Question, Answer
  <2> QED BY <1>2, <1>7, <2>1 DEF RemoveChunk, Answer
<1>8. CASE UNCHANGED vars
  <2>1. Stored'
    BY <1>0, <1>8 DEF vars, content, locals, Stored, OrderInv, Generating, Question, Answer
  <2> QED BY <1>2, <1>8, <2>1 DEF vars, content, Answer
<1> QED BY <1>3, <1>4, <1>5, <1>6, <1>7, <1>8 DEF Next

\* An answer is stored with its question and after it, however the turns of a
\* conversation overlap and whenever it is deleted.
THEOREM AnswersAlwaysFollow == Spec => []AnswersFollowQuestions
<1>1. Init => \A t \in Turns : OrderInv(t)
  BY DEF Init, OrderInv, HasStarted, Generating
<1>2. ChatInv /\ (\A t \in Turns : OrderInv(t)) /\ [Next]_vars => (\A t \in Turns : OrderInv(t))'
  BY OrderStep
<1>3. (\A t \in Turns : OrderInv(t)) => AnswersFollowQuestions
  BY DEF OrderInv, AnswersFollowQuestions
<1> QED BY <1>1, <1>2, <1>3, ChatInvariant, PTL DEF Spec

-----------------------------------------------------------------------------
(* Every turn keeps the protocol.                                          *)

Phases == [t \in Turns |-> Phase(t)]

\* A step of one turn changes the phase of that turn only.
LEMMA PhaseFrame ==
  ASSUME ChatInv, NEW t \in Turns, Frame(t)
  PROVE  Phases' = [Phases EXCEPT ![t] = Phase(t)']
<1>1. ASSUME NEW u \in Turns, u # t PROVE Phase(u)' = Phase(u)
  <2>1. pc'[u] = pc[u] /\ (Answered(u)' <=> Answered(u))
    BY <1>1 DEF Frame, Answered
  <2> QED BY <2>1 DEF Phase
<1> QED BY <1>1 DEF Phases

\* A turn that is not closed has not been told that it is done, so the event
\* that closes it decides its phase.
LEMMA ClosingPhase ==
  ASSUME ChatInv, NEW t \in Turns, pc[t] # "closed", pc'[t] = "closed",
         NEW e \in {"done", "error"}, Say(t, e)
  PROVE  Phase(t)' = e
<1>1. /\ events[t] \in Seq({"token", "done", "error"})
      /\ events'[t] = Append(events[t], e)
      /\ \A i \in DOMAIN events[t] : events[t][i] # "done"
  BY DEF ChatInv, TypeOK, TurnInv, Answered, Say
<1>2. Answered(t)' <=> e = "done"
  <2>1. /\ DOMAIN events'[t] = 1..(Len(events[t]) + 1)
        /\ events'[t][Len(events[t]) + 1] = e
        /\ \A i \in 1..Len(events[t]) : events'[t][i] = events[t][i]
    BY <1>1
  <2>2. DOMAIN events[t] = 1..Len(events[t]) /\ Len(events[t]) \in Nat
    BY <1>1
  <2> QED BY <1>1, <2>1, <2>2 DEF Answered
<1> QED BY <1>2 DEF Phase

\* A step of a turn is a step of the protocol, or of no concern to it.
LEMMA TurnSteps ==
  ASSUME ChatInv, NEW t \in Turns, Begin(t) \/ Turn(t) \/ Leave(t)
  PROVE  P!Step(t) \/ UNCHANGED P!vars
<1>1. TypeOK /\ Phases' = [Phases EXCEPT ![t] = Phase(t)']
  BY OnlyOneMoves, PhaseFrame DEF ChatInv
<1>2. Phases[t] = Phase(t) /\ Phases \in [Turns -> {Phase(u) : u \in Turns}]
  BY DEF Phases
<1>3. Phase(t)' = Phase(t) => Phases' = Phases
  BY <1>1, <1>2 DEF Phases
<1> USE <1>1, <1>2 DEF Goto, P!Step, P!Move, P!Say
<1>4. CASE Begin(t)
  <2>1. pc[t] = "idle" /\ pc'[t] \in {"history", "refused"} /\ UNCHANGED <<events, usage>>
    BY <1>4 DEF Begin, TypeOK
  <2>2. Phase(t) = "idle" /\ Phase(t)' \in {"sent", "refused"}
    BY <2>1 DEF Phase
  <2> QED BY <2>1, <2>2 DEF P!Send, P!Refuse, Phases
<1>5. CASE LoadHistory(t)
  BY <1>3, <1>5 DEF LoadHistory, TypeOK, Phase, content, Phases, P!vars
<1>6. CASE OpenCommit(t)
  <2>1. Phase(t) = "sent" /\ Phase(t)' = "asked" /\ UNCHANGED <<events, usage>>
    BY <1>6 DEF OpenCommit, TypeOK, Phase
  <2> QED BY <2>1 DEF P!Ask, Phases
<1>7. CASE OpenFail(t)
  <2>1. Phase(t) = "sent" /\ Phase(t)' = "refused" /\ UNCHANGED <<events, usage>>
    BY <1>7 DEF OpenFail, TypeOK, Phase
  <2> QED BY <2>1 DEF P!Refuse, Phases
<1>8. CASE Retrieve(t)
  BY <1>3, <1>8 DEF Retrieve, TypeOK, Phase, content, Phases, P!vars
<1>9. CASE Token(t)
  <2>1. pc[t] = "generate" /\ UNCHANGED <<pc, usage>> /\ Say(t, "token")
    BY <1>9 DEF Token, content
  <2>2. Phase(t) = "asked" /\ Phase(t)' = "asked"
    BY <2>1 DEF Phase
  <2> QED BY <1>3, <2>1, <2>2 DEF P!Token, Say, Phases
<1>10. CASE Generated(t)
  BY <1>3, <1>10 DEF Generated, TypeOK, Phase, content, Phases, P!vars
<1>11. CASE GenerationFail(t) \/ PersistFail(t)
  <2>1. /\ pc[t] \in {"retrieve", "generate", "persist"} /\ pc'[t] = "closed"
        /\ usage' = usage /\ Say(t, "error")
    BY <1>11 DEF GenerationFail, PersistFail, TypeOK, content
  <2>2. Phase(t) = "asked" /\ Phase(t)' = "error"
    BY <2>1, ClosingPhase DEF Phase
  <2> QED BY <2>1, <2>2 DEF P!Fail, Say, Phases
<1>12. CASE PersistCommit(t)
  <2>1. Phase(t) = "asked" /\ Phase(t)' = "saved" /\ events' = events
    BY <1>12 DEF PersistCommit, TypeOK, Phase
  <2>2. usage' = [usage EXCEPT ![t] = @ + 1]
    BY <1>12 DEF PersistCommit
  <2> QED BY <2>1, <2>2 DEF P!Save, Phases
<1>13. CASE Report(t)
  <2>1. /\ pc[t] = "report" /\ pc'[t] = "closed"
        /\ usage' = usage /\ Say(t, "done")
    BY <1>13 DEF Report, TypeOK, content
  <2>2. Phase(t) = "saved" /\ Phase(t)' = "done"
    BY <2>1, ClosingPhase DEF Phase
  <2> QED BY <2>1, <2>2 DEF P!Finish, Say, Phases
<1>14. CASE Leave(t)
  <2>1. Phase(t) \in {"sent", "asked", "saved"} /\ Phase(t)' = "left" /\ UNCHANGED <<events, usage>>
    BY <1>14 DEF Leave, TypeOK, Phase, Label, Ended
  <2> QED BY <2>1 DEF P!Leave, Phases
<1> QED
  BY <1>4, <1>5, <1>6, <1>7, <1>8, <1>9, <1>10, <1>11, <1>12, <1>13, <1>14 DEF Turn

\* Every turn keeps TurnProtocol: what stream_chat_turn's docstring says of
\* its events, for turns that saved their question and were not abandoned.
THEOREM TurnsKeepProtocol == Spec => KeepsProtocol
<1>1. Init => P!Init
  BY DEF Init, P!Init, Phase
<1>2. ChatInv /\ [Next]_vars => [P!Next]_(P!vars)
  <2> SUFFICES ASSUME ChatInv, [Next]_vars PROVE P!Next \/ UNCHANGED P!vars
    OBVIOUS
  <2>1. ASSUME NEW t \in Turns, Begin(t) \/ Turn(t) \/ Leave(t)
        PROVE  P!Next \/ UNCHANGED P!vars
    BY <2>1, TurnSteps DEF P!Next
  <2>2. ASSUME UNCHANGED <<pc, events, usage>> PROVE UNCHANGED P!vars
    BY <2>2 DEF P!vars, Phase, Answered
  <2>3. ASSUME NEW c \in Convs, DeleteConversation(c) PROVE UNCHANGED <<pc, events, usage>>
    BY <2>3 DEF DeleteConversation
  <2>4. ASSUME NEW k \in Chunks, RemoveChunk(k) PROVE UNCHANGED <<pc, events, usage>>
    BY <2>4 DEF RemoveChunk
  <2>5. UNCHANGED vars => UNCHANGED <<pc, events, usage>>
    BY DEF vars, content
  <2> QED BY <2>1, <2>2, <2>3, <2>4, <2>5 DEF Next
<1> QED BY <1>1, <1>2, ChatInvariant, PTL DEF Spec, KeepsProtocol, P!Spec

-----------------------------------------------------------------------------
(* A follow-up sees what was answered.                                     *)

\* No message is started twice, so After is a strict total order of them.
Once == \A i, j \in DOMAIN started : started[i] = started[j] => i = j

LEMMA AfterIsAnOrder ==
  ASSUME started \in Seq(Msgs), Once
  PROVE  /\ \A x : ~After(x, x)
         /\ \A x, y, z : After(x, y) /\ After(y, z) => After(x, z)
         /\ \A x, y : HasStarted(x) /\ HasStarted(y) => x = y \/ After(x, y) \/ After(y, x)
<1>0. DOMAIN started \subseteq Int
  OBVIOUS
<1>1. ASSUME NEW x, After(x, x) PROVE FALSE
  BY <1>0, <1>1 DEF After, Once
<1>2. ASSUME NEW x, NEW y, NEW z, After(x, y), After(y, z) PROVE After(x, z)
  <2>1. PICK i, j \in DOMAIN started : i < j /\ started[i] = x /\ started[j] = y
    BY <1>2 DEF After
  <2>2. PICK k, l \in DOMAIN started : k < l /\ started[k] = y /\ started[l] = z
    BY <1>2 DEF After
  <2>3. i < l
    BY <1>0, <2>1, <2>2 DEF Once
  <2> QED BY <2>1, <2>2, <2>3 DEF After
<1>3. ASSUME NEW x, NEW y, HasStarted(x), HasStarted(y) PROVE x = y \/ After(x, y) \/ After(y, x)
  BY <1>0, <1>3 DEF After, HasStarted
<1> QED BY <1>1, <1>2, <1>3

\* The newest n of finitely many messages are n, if there are as many: the
\* number of newer ones is a bijection from the messages to 0 .. their number.
LEMMA TopOfOrder ==
  ASSUME started \in Seq(Msgs), Once, NEW S, IsFiniteSet(S), \A x \in S : HasStarted(x),
         NEW n \in Nat, n <= Cardinality(S)
  PROVE  Cardinality({x \in S : Cardinality({y \in S : After(x, y)}) < n}) = n
<1> DEFINE above(x) == {y \in S : After(x, y)}
           f == [x \in S |-> Cardinality(above(x))]
           T == {x \in S : Cardinality(above(x)) < n}
           g == [x \in T |-> Cardinality(above(x))]
           m == Cardinality(S)
<1>0. m \in Nat /\ n <= m
  BY FS_CardinalityType
<1>1. ASSUME NEW x \in S PROVE IsFiniteSet(above(x)) /\ Cardinality(above(x)) \in 0..(m - 1)
  <2>1. IsFiniteSet(above(x)) /\ Cardinality(above(x)) <= m /\ (m = Cardinality(above(x)) => S = above(x))
    BY FS_Subset
  <2>2. x \notin above(x)
    BY AfterIsAnOrder
  <2>3. Cardinality(above(x)) \in Nat
    BY <2>1, FS_CardinalityType
  <2> HIDE DEF m, above
  <2> QED BY <1>0, <2>1, <2>2, <2>3
<1>2. ASSUME NEW x \in S, NEW y \in S, After(x, y) PROVE f[x] # f[y]
  <2>1. above(y) \in SUBSET above(x) /\ y \in above(x) /\ y \notin above(y)
    BY <1>2, AfterIsAnOrder
  <2> QED BY <1>1, <2>1, FS_Subset
<1>3. \A x, y \in S : Cardinality(above(x)) = Cardinality(above(y)) => x = y
  BY <1>2, AfterIsAnOrder
<1>4. f \in Injection(S, 0..(m - 1))
  <2>1. f \in [S -> 0..(m - 1)] /\ \A x, y \in S : f[x] = f[y] => x = y
    BY <1>1, <1>3
  <2> HIDE DEF f, m
  <2> QED BY <2>1 DEF Injection, IsInjective
<1>5. IsFiniteSet(0..(m - 1)) /\ Cardinality(0..(m - 1)) = m
  <2> HIDE DEF m
  <2> QED BY <1>0, FS_Interval
<1>6. f \in Surjection(S, 0..(m - 1))
  <2> HIDE DEF f
  <2> QED BY <1>4, <1>5, FS_Injection
<1>7. \A k \in 0..(m - 1) : \E x \in S : Cardinality(above(x)) = k
  <2>1. \A k \in 0..(m - 1) : \E x \in S : f[x] = k
    <3> HIDE DEF f, m
    <3> QED BY <1>6 DEF Surjection
  <2> QED BY <2>1
<1>8. g \in Bijection(T, 0..(n - 1))
  <2>1. \A x \in T : x \in S /\ g[x] = Cardinality(above(x)) /\ g[x] \in 0..(n - 1)
    <3>1. \A x \in T : x \in S /\ Cardinality(above(x)) \in Nat /\ Cardinality(above(x)) < n
      <4>1. \A x \in S : Cardinality(above(x)) \in Nat
        <5> HIDE DEF above, m
        <5> QED BY <1>0, <1>1
      <4> QED BY <4>1
    <3>2. \A x \in T : g[x] = Cardinality(above(x))
      OBVIOUS
    <3> HIDE DEF g, T, above
    <3> QED BY <3>1, <3>2
  <2>2. \A k \in 0..(n - 1) : \E x \in T : g[x] = k
    <3> SUFFICES ASSUME NEW k \in 0..(n - 1) PROVE \E x \in T : g[x] = k
      OBVIOUS
    <3>1. k \in 0..(m - 1) /\ k < n
      <4> HIDE DEF m
      <4> QED BY <1>0
    <3>2. PICK x \in S : Cardinality(above(x)) = k
      BY <1>7, <3>1
    <3>3. x \in T
      BY <3>1, <3>2
    <3> QED BY <3>2, <3>3
  <2>3. g \in [T -> 0..(n - 1)]
    BY <2>1
  <2>4. \A x, y \in T : g[x] = g[y] => x = y
    <3> HIDE DEF g, T, above
    <3> QED BY <1>3, <2>1
  <2> HIDE DEF g, T
  <2> QED BY <2>2, <2>3, <2>4 DEF Bijection, Injection, IsInjective, Surjection
<1>9. IsFiniteSet(T)
  BY FS_Subset
<1>10. Cardinality(0..(n - 1)) = n
  BY FS_Interval
<1> QED
  <2> HIDE DEF T, g
  <2>1. ExistsBijection(T, 0..(n - 1))
    BY <1>8 DEF ExistsBijection
  <2>2. Cardinality(T) = n
    BY <1>9, <1>10, <2>1, FS_Bijection
  <2> QED BY <2>2 DEF T

\* Only what has not begun has not started.
StartInv(t) ==
  /\ HasStarted(Question(t)) => pc[t] # "idle"
  /\ HasStarted(Answer(t)) => pc[t] \notin {"idle", "history", "open", "retrieve", "refused"}

\* What a turn knows of was answered in its conversation; its history is of
\* messages that started.
SeenInv(t) ==
  /\ pc[t] = "report" \/ Answered(t) => usage[t] = 1
  /\ Question(t) \in messages => HasStarted(Question(t))
  /\ \A u \in known[t] : conv[u] = conv[t] /\ Answered(u)
  /\ \A y \in history[t] : HasStarted(y)

Reading == {"open", "retrieve", "generate"}

\* x is among H, or as many newer messages are as a history has.
Sees(H, x) == x \in H \/ Cardinality({y \in H : After(x, y)}) = HistoryLimit

\* HistoryHasAnswered for one turn.
SeesAnswered(t) ==
  pc[t] \in Reading /\ convs[conv[t]] = "live" =>
    \A u \in known[t] : Sees(history[t], Question(u)) /\ Sees(history[t], Answer(u))

MemoryInv ==
  /\ ChatInv /\ Once
  /\ \A t \in Turns : OrderInv(t) /\ StartInv(t) /\ SeenInv(t) /\ SeesAnswered(t)

\* A message starts once.
LEMMA FreshStart ==
  ASSUME MemoryInv, [Next]_vars
  PROVE  \/ started' = started
         \/ \E z \in Msgs : ~HasStarted(z) /\ started' = Append(started, z)
<1>1. ASSUME NEW u \in Turns, Begin(u) \/ Turn(u) \/ Leave(u)
      PROVE  \/ started' = started
             \/ \E z \in Msgs : ~HasStarted(z) /\ started' = Append(started, z)
  <2>1. StartInv(u) /\ Question(u) \in Msgs /\ Answer(u) \in Msgs
    BY MsgType DEF MemoryInv
  <2>2. CASE Begin(u)
    BY <2>1, <2>2 DEF Begin, StartInv
  <2>3. CASE Retrieve(u)
    BY <2>1, <2>3 DEF Retrieve, StartInv
  <2>4. CASE PersistCommit(u)
    BY <2>1, <2>4 DEF PersistCommit, HasStarted
  <2>5. CASE started' = started
    BY <2>5
  <2> QED
    BY <1>1, <2>2, <2>3, <2>4, <2>5 DEF Turn, LoadHistory, OpenCommit, OpenFail, Token, Generated,
       GenerationFail, PersistFail, Report, Leave
<1> QED
  BY <1>1 DEF Next, DeleteConversation, RemoveChunk, vars

\* What has started keeps its place.
LEMMA PlaceKept ==
  ASSUME MemoryInv, [Next]_vars
  PROVE  /\ Once'
         /\ \A x : HasStarted(x) => HasStarted(x)'
         /\ \A x, y : HasStarted(y) => (After(x, y)' <=> After(x, y))
<1>1. started \in Seq(Msgs) /\ Once
  BY DEF MemoryInv, ChatInv, TypeOK
<1>2. CASE started' = started
  BY <1>1, <1>2 DEF Once, HasStarted, After
<1>3. ASSUME NEW z \in Msgs, ~HasStarted(z), started' = Append(started, z)
      PROVE  /\ Once'
             /\ \A x : HasStarted(x) => HasStarted(x)'
             /\ \A x, y : HasStarted(y) => (After(x, y)' <=> After(x, y))
  <2>1. /\ DOMAIN started = 1..Len(started) /\ Len(started) \in Nat
        /\ DOMAIN started' = 1..(Len(started) + 1)
        /\ started'[Len(started) + 1] = z
        /\ \A i \in 1..Len(started) : started'[i] = started[i] /\ started[i] # z
    BY <1>1, <1>3 DEF HasStarted
  <2>2. Once'
    BY <1>1, <2>1 DEF Once
  <2>3. ASSUME NEW x, NEW y, HasStarted(y), After(x, y)' PROVE After(x, y)
    <3>1. y # z
      BY <1>3, <2>3
    <3>2. PICK i, j \in 1..(Len(started) + 1) : i < j /\ started'[i] = x /\ started'[j] = y
      BY <2>1, <2>3 DEF After
    <3>3. i \in 1..Len(started) /\ j \in 1..Len(started)
      BY <2>1, <3>1, <3>2
    <3> QED BY <2>1, <3>2, <3>3 DEF After
  <2> QED BY <1>1, <1>3, <2>2, <2>3, StartsKept
<1> QED BY <1>2, <1>3, FreshStart

\* What a step does to the locals of a turn.
Keeps(t)  == known'[t] = known[t] /\ history'[t] = history[t] /\ conv'[t] = conv[t]
Clears(t) == known'[t] = {} /\ history'[t] = {} /\ conv'[t] = conv[t] /\ pc'[t] \notin Reading

LEMMA LocalsStep ==
  ASSUME TypeOK, [Next]_vars, NEW t \in Turns
  PROVE  \/ Begin(t)
         \/ LoadHistory(t)
         \/ Clears(t)
         \/ Keeps(t) /\ (pc'[t] \in Reading => pc[t] \in Reading)
<1>1. ASSUME Begin(t) \/ Turn(t) \/ Leave(t)
      PROVE  \/ Begin(t)
             \/ LoadHistory(t)
             \/ Clears(t)
             \/ Keeps(t) /\ (pc'[t] \in Reading => pc[t] \in Reading)
  <2> USE DEF Goto, TypeOK, Reading, Keeps, Clears
  <2>1. CASE OpenFail(t) \/ Generated(t) \/ GenerationFail(t) \/ Leave(t)
    BY <2>1 DEF OpenFail, Generated, GenerationFail, Leave, Forget
  <2>2. CASE OpenCommit(t) \/ PersistCommit(t)
    BY <2>2 DEF OpenCommit, PersistCommit, locals
  <2>3. CASE Retrieve(t) \/ Token(t)
    BY <2>3 DEF Retrieve, Token, locals
  <2>4. CASE PersistFail(t) \/ Report(t)
    BY <2>4 DEF PersistFail, Report, locals
  <2> QED BY <1>1, <2>1, <2>2, <2>3, <2>4 DEF Turn
<1>2. ASSUME NEW u \in Turns, u # t, Begin(u) \/ Turn(u) \/ Leave(u)
      PROVE  Keeps(t) /\ pc'[t] = pc[t]
  <2>1. pc'[t] = pc[t] /\ conv'[t] = conv[t]
    BY <1>2, OnlyOneMoves DEF Frame
  <2>2. known'[t] = known[t] /\ history'[t] = history[t]
    <3> USE DEF TypeOK
    <3>1. CASE OpenFail(u) \/ Generated(u) \/ GenerationFail(u) \/ Leave(u)
      BY <1>2, <3>1 DEF OpenFail, Generated, GenerationFail, Leave, Forget
    <3>2. CASE Begin(u)
      BY <1>2, <3>2 DEF Begin
    <3>3. CASE LoadHistory(u)
      BY <1>2, <3>3 DEF LoadHistory
    <3>4. CASE UNCHANGED <<known, history>>
      BY <3>4
    <3> QED
      BY <1>2, <3>1, <3>2, <3>3, <3>4 DEF Turn, OpenCommit, Retrieve, Token, PersistCommit,
         PersistFail, Report, locals
  <2> QED BY <2>1, <2>2 DEF Keeps
<1>3. CASE UNCHANGED <<known, history, conv, pc>>
  BY <1>3 DEF Keeps
<1> QED
  BY <1>1, <1>2, <1>3 DEF Next, DeleteConversation, RemoveChunk, vars, locals

\* Only Report tells a consumer that its answer is complete.
LEMMA AnsweredStep ==
  ASSUME ChatInv, [Next]_vars, NEW t \in Turns
  PROVE  /\ Answered(t) => Answered(t)'
         /\ Answered(t)' => Answered(t) \/ Report(t)
<1>1. ASSUME events' = events
      PROVE  Answered(t)' <=> Answered(t)
  BY <1>1 DEF Answered
<1>2. ASSUME NEW u \in Turns, NEW e \in {"token", "done", "error"}, Say(u, e)
      PROVE  Answered(t)' <=> Answered(t) \/ (u = t /\ e = "done")
  <2>1. CASE u # t
    BY <1>2, <2>1 DEF Say, Answered, ChatInv, TypeOK
  <2>2. CASE u = t
    <3>1. events[t] \in Seq({"token", "done", "error"}) /\ events'[t] = Append(events[t], e)
      BY <1>2, <2>2 DEF Say, ChatInv, TypeOK
    <3>2. /\ DOMAIN events[t] = 1..Len(events[t]) /\ Len(events[t]) \in Nat
          /\ DOMAIN events'[t] = 1..(Len(events[t]) + 1)
          /\ events'[t][Len(events[t]) + 1] = e
          /\ \A i \in 1..Len(events[t]) : events'[t][i] = events[t][i]
      BY <3>1
    <3> QED BY <2>2, <3>2 DEF Answered
  <2> QED BY <2>1, <2>2
<1>3. ASSUME NEW u \in Turns, Begin(u) \/ Turn(u) \/ Leave(u)
      PROVE  \/ events' = events
             \/ Say(u, "token")
             \/ Say(u, "error")
             \/ Say(u, "done") /\ Report(u)
  BY <1>3 DEF Begin, Turn, LoadHistory, OpenCommit, OpenFail, Retrieve, Token, Generated,
     GenerationFail, PersistCommit, PersistFail, Report, Leave
<1>4. ASSUME NEW u \in Turns, Begin(u) \/ Turn(u) \/ Leave(u)
      PROVE  /\ Answered(t) => Answered(t)'
             /\ Answered(t)' => Answered(t) \/ Report(t)
  BY <1>1, <1>2, <1>3, <1>4
<1> QED
  BY <1>1, <1>4 DEF Next, DeleteConversation, RemoveChunk, vars

\* Questions and answers start where their turns say.
LEMMA StartInvStep ==
  ASSUME MemoryInv, [Next]_vars, NEW t \in Turns
  PROVE  StartInv(t)'
<1>0. /\ ChatInv /\ TypeOK /\ StartInv(t) /\ started \in Seq(Msgs)
      /\ \A u, v \in Turns : Question(u) # Answer(v) /\ (Question(u) = Question(v) => u = v)
      /\ \A u, v \in Turns : Answer(u) = Answer(v) => u = v
      /\ \A z \in Msgs : started' = Append(started, z) =>
           \A x : HasStarted(x)' <=> HasStarted(x) \/ x = z
  BY StartsKept DEF MemoryInv, ChatInv, TypeOK, Question, Answer
<1>1. CASE started' = started /\ pc'[t] = pc[t]
  BY <1>0, <1>1 DEF StartInv, HasStarted, Question, Answer
<1>2. ASSUME NEW u \in Turns, Begin(u) \/ Turn(u) \/ Leave(u), u # t PROVE StartInv(t)'
  <2>1. pc'[t] = pc[t]
    BY <1>0, <1>2, OnlyOneMoves DEF Frame
  <2>2. \/ started' = started
        \/ started' = Append(started, Question(u))
        \/ started' = Append(started, Answer(u))
    BY <1>2 DEF Begin, Turn, LoadHistory, OpenCommit, OpenFail, Retrieve, Token, Generated,
       GenerationFail, PersistCommit, PersistFail, Report, Leave
  <2>3. /\ HasStarted(Question(t))' => HasStarted(Question(t))
        /\ HasStarted(Answer(t))' => HasStarted(Answer(t))
    BY <1>0, <1>2, <2>2, MsgType DEF HasStarted
  <2> QED BY <1>0, <2>1, <2>3 DEF StartInv, Question, Answer
<1>3. ASSUME Begin(t) \/ Turn(t) \/ Leave(t) PROVE StartInv(t)'
  <2> USE DEF Goto, TypeOK
  <2>1. CASE Begin(t)
    <3>1. ~HasStarted(Answer(t))' /\ pc'[t] \in {"history", "refused"}
      BY <1>0, <2>1, MsgType DEF Begin, StartInv
    <3> QED BY <3>1 DEF StartInv, Answer
  <2>2. CASE Retrieve(t) \/ PersistCommit(t)
    <3>1. pc'[t] \in {"generate", "report"}
      BY <1>0, <2>2 DEF Retrieve, PersistCommit
    <3> QED BY <3>1 DEF StartInv
  <2>3. ASSUME started' = started,
               \/ pc'[t] = "refused" /\ pc[t] \in {"history", "open"}
               \/ pc'[t] = "open" /\ pc[t] = "history"
               \/ pc'[t] = "retrieve" /\ pc[t] = "open"
               \/ pc'[t] \in {"generate", "persist", "closed", "left"}
        PROVE  StartInv(t)'
    <3>1. /\ HasStarted(Question(t))' <=> HasStarted(Question(t))
          /\ HasStarted(Answer(t))' <=> HasStarted(Answer(t))
      BY <2>3 DEF HasStarted
    <3> QED BY <1>0, <2>3, <3>1 DEF StartInv, Question, Answer
  <2>4. CASE LoadHistory(t) \/ OpenCommit(t) \/ OpenFail(t) \/ Leave(t)
    BY <1>0, <2>3, <2>4 DEF LoadHistory, OpenCommit, OpenFail, Leave
  <2>5. CASE Token(t) \/ Generated(t) \/ GenerationFail(t) \/ PersistFail(t) \/ Report(t)
    BY <1>0, <2>3, <2>5 DEF Token, Generated, GenerationFail, PersistFail, Report
  <2> QED BY <1>3, <2>1, <2>2, <2>4, <2>5 DEF Turn
<1> QED
  BY <1>1, <1>2, <1>3 DEF Next, DeleteConversation, RemoveChunk, vars

\* A turn that was answered keeps its conversation.
LEMMA AnsweredKept ==
  ASSUME MemoryInv, [Next]_vars, NEW u \in Turns, Answered(u)
  PROVE  Answered(u)' /\ conv'[u] = conv[u]
<1>1. ChatInv /\ TypeOK /\ pc[u] = "closed"
  BY DEF MemoryInv, ChatInv, TurnInv
<1>2. conv'[u] = conv[u]
  BY <1>1, LocalsStep DEF Begin, LoadHistory, Keeps, Clears
<1> QED BY <1>1, <1>2, AnsweredStep

\* What is known of the past of a turn stays true.
LEMMA SeenStep ==
  ASSUME MemoryInv, [Next]_vars, NEW t \in Turns
  PROVE  SeenInv(t)'
<1>0. ChatInv /\ TypeOK /\ TurnInv(t) /\ OrderInv(t) /\ SeenInv(t)
  BY DEF MemoryInv, ChatInv
<1>1. pc'[t] = "report" \/ Answered(t)' => usage'[t] = 1
  <2>1. ASSUME NEW u \in Turns, u # t, Begin(u) \/ Turn(u) \/ Leave(u)
        PROVE  pc'[t] = pc[t] /\ usage'[t] = usage[t] /\ (Answered(t)' <=> Answered(t))
    BY <1>0, <2>1, OnlyOneMoves DEF Frame, Answered
  <2>2. CASE Begin(t) \/ Turn(t) \/ Leave(t)
    <3>1. CASE PersistCommit(t)
      BY <1>0, <3>1 DEF PersistCommit, TurnInv, Later, TypeOK
    <3>2. \/ usage' = usage /\ (pc'[t] = "report" => pc[t] = "report")
          \/ PersistCommit(t)
      BY <1>0, <2>2 DEF Begin, Turn, LoadHistory, OpenCommit, OpenFail, Retrieve, Token, Generated,
         GenerationFail, PersistFail, Report, Leave, Goto, TypeOK, content
    <3>3. Answered(t)' => Answered(t) \/ pc[t] = "report"
      BY <1>0, AnsweredStep DEF Report
    <3> QED BY <1>0, <3>1, <3>2, <3>3 DEF SeenInv
  <2>3. UNCHANGED <<pc, usage, events>> =>
          pc'[t] = pc[t] /\ usage'[t] = usage[t] /\ (Answered(t)' <=> Answered(t))
    BY DEF Answered
  <2> QED
    BY <1>0, <2>1, <2>2, <2>3 DEF SeenInv, Next, DeleteConversation, RemoveChunk, vars, content
<1>2. Question(t) \in messages' => HasStarted(Question(t))'
  <2>1. Question(t) \in messages' => Question(t) \in messages \/ pc[t] # "idle"
    <3>1. ASSUME NEW u \in Turns, Begin(u) \/ Turn(u) \/ Leave(u)
          PROVE  messages' \in {messages, messages \union {Question(u)}, messages \union {Answer(u)}}
                 /\ (pc[u] = "idle" => messages' = messages)
      BY <3>1 DEF Begin, Turn, LoadHistory, OpenCommit, OpenFail, Retrieve, Token, Generated,
         GenerationFail, PersistCommit, PersistFail, Report, Leave, content
    <3>2. \A u \in Turns : Question(t) # Answer(u) /\ (Question(t) = Question(u) => t = u)
      BY DEF Question, Answer
    <3> QED
      BY <3>1, <3>2 DEF Next, DeleteConversation, RemoveChunk, vars, content
  <2> QED BY <1>0, <2>1, PlaceKept DEF SeenInv, OrderInv, Question
<1>3. (\A u \in known'[t] : conv'[u] = conv'[t] /\ Answered(u)') /\ (\A y \in history'[t] : HasStarted(y)')
  <2>1. CASE Begin(t)
    <3>1. PICK c \in Convs : /\ conv' = [conv EXCEPT ![t] = c]
                             /\ known' = [known EXCEPT ![t] = {u \in Turns : conv[u] = c /\ Answered(u)}]
      BY <2>1 DEF Begin
    <3>2. ASSUME NEW u \in known'[t] PROVE conv'[u] = conv'[t] /\ Answered(u)'
      <4>1. u \in Turns /\ conv[u] = c /\ Answered(u) /\ conv'[t] = c
        BY <1>0, <3>1, <3>2 DEF TypeOK
      <4> QED BY <4>1, AnsweredKept
    <3>3. history'[t] = history[t]
      BY <2>1 DEF Begin
    <3> QED BY <1>0, <3>2, <3>3, PlaceKept DEF SeenInv
  <2>2. CASE LoadHistory(t)
    <3>1. known'[t] = known[t] /\ conv' = conv /\ events' = events /\ started' = started
          /\ history'[t] \subseteq messages
      BY <1>0, <2>2 DEF LoadHistory, TypeOK, Newest, MessagesOf
    <3>2. \A y \in messages : HasStarted(y)
      <4> SUFFICES ASSUME NEW y \in messages PROVE HasStarted(y)
        OBVIOUS
      <4>1. PICK u \in Turns : y = Question(u) \/ y = Answer(u)
        BY <1>0 DEF TypeOK, Msgs, Roles, Question, Answer
      <4>2. SeenInv(u) /\ OrderInv(u)
        BY DEF MemoryInv
      <4> QED BY <4>1, <4>2 DEF SeenInv, OrderInv
    <3>3. \A u \in known[t] : Answered(u)' <=> Answered(u)
      BY <3>1 DEF Answered
    <3> QED BY <1>0, <3>1, <3>2, <3>3, PlaceKept DEF SeenInv
  <2>3. CASE Clears(t)
    BY <2>3 DEF Clears
  <2>4. CASE Keeps(t)
    <3>1. \A u \in known[t] : u \in Turns
      BY <1>0 DEF TypeOK
    <3> QED BY <1>0, <2>4, <3>1, AnsweredKept, PlaceKept DEF SeenInv, Keeps
  <2> QED BY <1>0, <2>1, <2>2, <2>3, <2>4, LocalsStep
<1> QED BY <1>1, <1>2, <1>3 DEF SeenInv, Question

\* Finitely many messages have started.
LEMMA StartedFinite ==
  ASSUME started \in Seq(Msgs)
  PROVE  IsFiniteSet({x \in Msgs : HasStarted(x)})
<1> DEFINE T == {x \in Msgs : HasStarted(x)}
<1>1. started \in Surjection(1..Len(started), T)
  <2>1. started \in [1..Len(started) -> T] /\ \A x \in T : \E i \in 1..Len(started) : started[i] = x
    BY DEF HasStarted
  <2> HIDE DEF T
  <2> QED BY <2>1 DEF Surjection
<1>2. IsFiniteSet(1..Len(started))
  BY FS_Interval
<1> HIDE DEF T
<1>3. IsFiniteSet(T)
  BY <1>1, <1>2, FS_Surjection
<1> QED BY <1>3 DEF T

\* What is in a set of messages is among its newest, or HistoryLimit of these
\* are newer.
LEMMA NewestSees ==
  ASSUME started \in Seq(Msgs), Once, NEW S \in SUBSET Msgs, \A y \in S : HasStarted(y), NEW x \in S
  PROVE  Sees(Newest(S), x)
<1> DEFINE newer == {y \in S : After(x, y)}
           top == {y \in newer : Cardinality({z \in newer : After(y, z)}) < HistoryLimit}
<1>0. HistoryLimit \in Nat
  BY ChatAssumption
<1>1. IsFiniteSet(newer) /\ Cardinality(newer) \in Nat
  <2>1. newer \in SUBSET {y \in Msgs : HasStarted(y)}
    OBVIOUS
  <2>2. IsFiniteSet(newer)
    <3> HIDE DEF newer
    <3> QED BY <2>1, StartedFinite, FS_Subset
  <2> HIDE DEF newer
  <2> QED BY <2>2, FS_CardinalityType
<1>2. CASE Cardinality(newer) < HistoryLimit
  BY <1>2 DEF Sees, Newest
<1>3. CASE HistoryLimit <= Cardinality(newer)
  <2>1. Cardinality(top) = HistoryLimit
    <3>1. \A y \in newer : HasStarted(y)
      OBVIOUS
    <3> HIDE DEF newer
    <3> QED BY <1>0, <1>1, <1>3, <3>1, TopOfOrder
  <2>2. {y \in Newest(S) : After(x, y)} = top
    <3>1. ASSUME NEW y \in newer PROVE {z \in newer : After(y, z)} = {z \in S : After(y, z)}
      BY AfterIsAnOrder
    <3> QED BY <3>1 DEF Newest
  <2> QED BY <2>1, <2>2 DEF Sees
<1> QED BY <1>0, <1>1, <1>2, <1>3

\* A history that is read has what its turn knows of.
LEMMA LoadSees ==
  ASSUME MemoryInv, NEW t \in Turns, LoadHistory(t)
  PROVE  SeesAnswered(t)'
<1>0. ChatInv /\ TypeOK /\ SeenInv(t) /\ started \in Seq(Msgs) /\ Once
  BY DEF MemoryInv, ChatInv, TypeOK
<1>1. /\ history'[t] = Newest(MessagesOf(conv[t])) /\ known'[t] = known[t]
      /\ conv' = conv /\ convs' = convs /\ started' = started
  BY <1>0 DEF LoadHistory, TypeOK, content
<1>2. MessagesOf(conv[t]) \in SUBSET Msgs /\ \A y \in MessagesOf(conv[t]) : HasStarted(y)
  <2> SUFFICES ASSUME NEW y \in messages PROVE y \in Msgs /\ HasStarted(y)
    BY DEF MessagesOf
  <2>1. PICK u \in Turns : y = Question(u) \/ y = Answer(u)
    BY <1>0 DEF TypeOK, Msgs, Roles, Question, Answer
  <2>2. SeenInv(u) /\ OrderInv(u)
    BY DEF MemoryInv
  <2> QED BY <2>1, <2>2, MsgType DEF SeenInv, OrderInv
<1>3. ASSUME NEW u \in known[t], convs[conv[t]] = "live"
      PROVE  Question(u) \in MessagesOf(conv[t]) /\ Answer(u) \in MessagesOf(conv[t])
  <2>1. u \in Turns /\ conv[u] = conv[t] /\ Answered(u)
    BY <1>0, <1>3 DEF TypeOK, SeenInv
  <2>2. TurnInv(u) /\ OrderInv(u) /\ usage[u] = 1
    BY <2>1 DEF MemoryInv, ChatInv, SeenInv
  <2>3. Answer(u) \in messages /\ Question(u) \in messages
    BY <1>3, <2>1, <2>2 DEF TurnInv, OrderInv
  <2>4. Question(u)[1] = u /\ Answer(u)[1] = u
    BY DEF Question, Answer
  <2> QED BY <2>1, <2>3, <2>4 DEF MessagesOf
<1>4. ASSUME NEW u \in known[t], convs[conv[t]] = "live"
      PROVE  Sees(history'[t], Question(u)) /\ Sees(history'[t], Answer(u))
  BY <1>0, <1>1, <1>2, <1>3, <1>4, NewestSees
<1>5. \A x : {y \in history'[t] : After(x, y)'} = {y \in history'[t] : After(x, y)}
  BY <1>1 DEF After
<1>6. ASSUME NEW x, Sees(history'[t], x)
      PROVE  x \in history'[t] \/ Cardinality({y \in history'[t] : After(x, y)'}) = HistoryLimit
  BY <1>5, <1>6 DEF Sees
<1> QED BY <1>1, <1>4, <1>6 DEF SeesAnswered, Sees, Question, Answer

\* No conversation with an answer becomes live again.
LEMMA ConvsStep ==
  ASSUME TypeOK, [Next]_vars, NEW c \in Convs, convs[c] \in {"live", "gone"}, convs'[c] = "live"
  PROVE  convs[c] = "live"
<1>1. ASSUME NEW u \in Turns, Begin(u) \/ Turn(u) \/ Leave(u) PROVE convs[c] = "live"
  BY <1>1, OnlyOneMoves DEF Frame
<1>2. ASSUME NEW d \in Convs, DeleteConversation(d) PROVE convs[c] = "live"
  BY <1>2 DEF DeleteConversation, TypeOK
<1> QED
  BY <1>1, <1>2 DEF Next, RemoveChunk, vars, content

\* A turn that has read its history keeps it until it has generated.
LEMMA SeesStep ==
  ASSUME MemoryInv, [Next]_vars, NEW t \in Turns
  PROVE  SeesAnswered(t)'
<1>0. ChatInv /\ TypeOK /\ SeenInv(t) /\ SeesAnswered(t)
  BY DEF MemoryInv, ChatInv
<1>1. CASE Begin(t)
  <2>1. pc'[t] \in {"history", "refused"}
    BY <1>0, <1>1 DEF Begin, Goto, TypeOK
  <2> QED BY <2>1 DEF SeesAnswered, Reading
<1>2. CASE LoadHistory(t)
  BY <1>2, LoadSees
<1>3. CASE Clears(t)
  BY <1>3 DEF SeesAnswered, Reading, Clears
<1>4. CASE Keeps(t) /\ (pc'[t] \in Reading => pc[t] \in Reading)
  <2>1. ASSUME NEW u \in known[t], pc'[t] \in Reading, convs'[conv[t]] = "live"
        PROVE  Sees(history[t], Question(u)) /\ Sees(history[t], Answer(u))
    <3>1. u \in Turns /\ conv[u] = conv[t] /\ Answered(u)
      BY <1>0, <2>1 DEF TypeOK, SeenInv
    <3>2. usage[u] = 1 /\ TurnInv(u) /\ conv[u] \in Convs
      BY <3>1 DEF MemoryInv, ChatInv, SeenInv, TurnInv, TypeOK
    <3>3. convs[conv[t]] = "live"
      BY <1>0, <2>1, <3>1, <3>2, ConvsStep DEF TurnInv
    <3> QED BY <1>0, <1>4, <2>1, <3>3 DEF SeesAnswered
  <2>2. ASSUME NEW x PROVE Sees(history[t], x)' <=> Sees(history[t], x)
    <3>1. history'[t] = history[t] /\ \A y \in history[t] : After(x, y)' <=> After(x, y)
      BY <1>0, <1>4, PlaceKept DEF Keeps, SeenInv
    <3>2. {y \in history'[t] : After(x, y)'} = {y \in history[t] : After(x, y)}
      BY <3>1
    <3> QED BY <3>1, <3>2 DEF Sees
  <2>3. \A x : Sees(history[t], x) => Sees(history[t], x)'
    BY <2>2
  <2> QED BY <1>4, <2>1, <2>3 DEF SeesAnswered, Keeps, Question, Answer
<1> QED BY <1>0, <1>1, <1>2, <1>3, <1>4, LocalsStep

LEMMA MemoryInit == Init => MemoryInv
<1>1. Init => ChatInv /\ Once
  BY ChatInit DEF Init, Once
<1>2. Init => \A t \in Turns : OrderInv(t) /\ StartInv(t) /\ SeenInv(t) /\ SeesAnswered(t)
  BY DEF Init, OrderInv, StartInv, SeenInv, SeesAnswered, HasStarted, Generating, Reading, Answered
<1> QED BY <1>1, <1>2 DEF MemoryInv

LEMMA MemoryStep == MemoryInv /\ [Next]_vars => MemoryInv'
<1> SUFFICES ASSUME MemoryInv, [Next]_vars PROVE MemoryInv'
  OBVIOUS
<1>1. ChatInv' /\ Once'
  BY ChatStep, PlaceKept DEF MemoryInv
<1>2. \A t \in Turns : OrderInv(t)'
  BY OrderStep DEF MemoryInv
<1> QED BY <1>1, <1>2, StartInvStep, SeenStep, SeesStep DEF MemoryInv

\* A follow-up is generated with the exchanges that its user saw completed, or
\* with HistoryLimit newer messages, whatever other turns of the conversation
\* do meanwhile (_load_history).
THEOREM FollowUpsRemember == Spec => []HistoryHasAnswered
<1>1. MemoryInv => HistoryHasAnswered
  BY DEF MemoryInv, SeesAnswered, Sees, HistoryHasAnswered, Reading
<1> QED BY <1>1, MemoryInit, MemoryStep, PTL DEF Spec

=============================================================================
