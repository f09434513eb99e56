------------------------------ MODULE ChatTurn ------------------------------
(***************************************************************************)
(* stream_chat_turn with its three transactions, run by several requests   *)
(* at once, while conversations are deleted and re-ingestion or deletion   *)
(* of documents removes chunk rows.                                        *)
(*                                                                         *)
(* One workspace: a conversation of another one is not found, like one     *)
(* that does not exist.  A message is its turn and its role; `started' is  *)
(* the order of created_at, which PostgreSQL takes from the start of the   *)
(* inserting transaction.  A chunk is retrieved only if its row is there   *)
(* (hybrid_retrieve_node), so the new chunks of a re-ingestion are chunks  *)
(* no turn has retrieved yet.                                              *)
(*                                                                         *)
(* OldestFirst, FailAgain, WithoutConversation, WithoutChunks, FailBilled  *)
(* and FailLate are no part of the specification: each stands before the   *)
(* definition it gets wrong.                                               *)
(***************************************************************************)
EXTENDS Naturals, Sequences, FiniteSets

CONSTANTS
  Turns,         (* Chat requests.                                         *)
  Convs,         (* Conversation ids; uuid4, so none is used twice.        *)
  Chunks,        (* Chunk rows of the workspace.                           *)
  HistoryLimit,  (* _MAX_HISTORY_MESSAGES; 20 in the code.                 *)
  MaxTokens,     (* Bound: tokens of an answer.                            *)
  Faults,        (* What may fail: "open", "generate", "persist".          *)
  None           (* No conversation yet.                                   *)

ASSUME ChatAssumption ==
  /\ HistoryLimit \in Nat \ {0}
  /\ MaxTokens \in Nat
  /\ Faults \subseteq {"open", "generate", "persist"}
  /\ None \notin Convs

VARIABLES
  convs,      \* convs[c]: "unused", "draft" (uncommitted), "live" or "gone"
  messages,   \* message rows
  started,    \* <<turn, role>> of every message, by start of its transaction
  citations,  \* citation rows: <<turn, chunk>>
  usage,      \* usage[t]: CHAT_MESSAGE records of turn t
  chunks,     \* chunk rows
  pc,         \* pc[t]: the next step of turn t
  conv,       \* conv[t]: its conversation
  known,      \* known[t]: the answered turns of that conversation when t began
  history,    \* history[t]: what _load_history returned
  context,    \* context[t]: the retrieved chunks
  cited,      \* cited[t]: those its answer cites
  events      \* events[t]: the events yielded to its consumer

content == <<convs, messages, citations, usage, chunks>>
locals  == <<conv, known, history, context, cited>>
vars    == <<content, started, pc, locals, events>>

Roles    == {"user", "assistant"}
Msgs     == Turns \X Roles
Question(t) == <<t, "user">>
Answer(t)   == <<t, "assistant">>

Ended  == {"refused", "closed", "left"}
Label  == {"idle", "history", "open", "retrieve", "generate", "persist", "report"} \union Ended

\* The type invariant; a turn has a conversation once it began.
TypeOK ==
  /\ convs \in [Convs -> {"unused", "draft", "live", "gone"}]
  /\ messages \subseteq Msgs
  /\ started \in Seq(Msgs)
  /\ citations \subseteq Turns \X Chunks
  /\ usage \in [Turns -> Nat]
  /\ chunks \subseteq Chunks
  /\ pc \in [Turns -> Label]
  /\ conv \in [Turns -> Convs \union {None}]
  /\ \A t \in Turns : pc[t] # "idle" => conv[t] \in Convs
  /\ known \in [Turns -> SUBSET Turns]
  /\ history \in [Turns -> SUBSET Msgs]
  /\ context \in [Turns -> SUBSET Chunks]
  /\ cited \in [Turns -> SUBSET Chunks]
  /\ events \in [Turns -> Seq({"token", "done", "error"})]

Init ==
  /\ convs = [c \in Convs |-> "unused"]
  /\ messages = {}
  /\ started = << >>
  /\ citations = {}
  /\ usage = [t \in Turns |-> 0]
  /\ chunks = Chunks
  /\ pc = [t \in Turns |-> "idle"]
  /\ conv = [t \in Turns |-> None]
  /\ known = [t \in Turns |-> {}]
  /\ history = [t \in Turns |-> {}]
  /\ context = [t \in Turns |-> {}]
  /\ cited = [t \in Turns |-> {}]
  /\ events = [t \in Turns |-> << >>]

-----------------------------------------------------------------------------

Goto(t, label)  == pc' = [pc EXCEPT ![t] = label]
Say(t, event)   == events' = [events EXCEPT ![t] = Append(@, event)]

\* The local variables of a turn that generates no more.
Forget(t) ==
  /\ known' = [known EXCEPT ![t] = {}]
  /\ history' = [history EXCEPT ![t] = {}]
  /\ context' = [context EXCEPT ![t] = {}]

\* The consumer of t was told that its answer is complete.
Answered(t) == \E i \in DOMAIN events[t] : events[t][i] = "done"

\* ORDER BY created_at: y comes after x.
After(x, y) == \E i, j \in DOMAIN started : i < j /\ started[i] = x /\ started[j] = y

\* The committed messages of c.
MessagesOf(c) == {x \in messages : conv[x[1]] = c}

OldestFirst(S) == {x \in S : Cardinality({y \in S : After(y, x)}) < HistoryLimit}

\* created_at DESC LIMIT HistoryLimit.
Newest(S) == {x \in S : Cardinality({y \in S : After(x, y)}) < HistoryLimit}

\* A new conversation that was not committed does not exist.
DropDraft(t) ==
  convs' = [c \in Convs |-> IF c = conv[t] /\ convs[c] = "draft" THEN "gone" ELSE convs[c]]

-----------------------------------------------------------------------------
(* The turn.                                                               *)

\* _get_or_create_conversation, the first statement of the turn.
Begin(t) ==
  /\ pc[t] = "idle"
  /\ started' = Append(started, Question(t))
  /\ \E c \in Convs :
       /\ conv' = [conv EXCEPT ![t] = c]
       /\ known' = [known EXCEPT ![t] = {u \in Turns : conv[u] = c /\ Answered(u)}]
       /\ \/ convs[c] = "unused" /\ convs' = [convs EXCEPT ![c] = "draft"] /\ Goto(t, "history")
          \/ convs[c] = "live" /\ Goto(t, "history") /\ UNCHANGED convs
          \/ convs[c] = "gone" /\ Goto(t, "refused") /\ UNCHANGED convs
  /\ UNCHANGED <<messages, citations, usage, chunks, history, context, cited, events>>

LoadHistory(t) ==
  /\ pc[t] = "history"
  /\ history' = [history EXCEPT ![t] = Newest(MessagesOf(conv[t]))]
  /\ Goto(t, "open")
  /\ UNCHANGED <<content, started, conv, known, context, cited, events>>

\* The user message is inserted, if the conversation still exists.
OpenCommit(t) ==
  /\ pc[t] = "open"
  /\ convs[conv[t]] \in {"draft", "live"}
  /\ convs' = [convs EXCEPT ![conv[t]] = "live"]
  /\ messages' = messages \union {Question(t)}
  /\ Goto(t, "retrieve")
  /\ UNCHANGED <<started, citations, usage, chunks, locals, events>>

\* Rolled back and raised: no event is ever sent.
OpenFail(t) ==
  /\ \/ pc[t] = "open" /\ convs[conv[t]] = "gone"
     \/ pc[t] \in {"history", "open"} /\ "open" \in Faults
  /\ DropDraft(t)
  /\ Forget(t)
  /\ Goto(t, "refused")
  /\ UNCHANGED <<messages, started, citations, usage, chunks, conv, cited, events>>

\* run_retrieval.  Reading chunk rows begins the transaction that will insert
\* the answer; with nothing to read it may begin only then.
Retrieve(t) ==
  /\ pc[t] = "retrieve"
  /\ \E found \in SUBSET chunks :
       /\ context' = [context EXCEPT ![t] = found]
       /\ \/ started' = Append(started, Answer(t))
          \/ found = {} /\ UNCHANGED started
  /\ Goto(t, "generate")
  /\ UNCHANGED <<content, conv, known, history, cited, events>>

Token(t) ==
  /\ pc[t] = "generate"
  /\ Len(events[t]) < MaxTokens
  /\ Say(t, "token")
  /\ UNCHANGED <<content, started, pc, locals>>

\* The text is complete; the markers in it cite some of the context.
Generated(t) ==
  /\ pc[t] = "generate"
  /\ \E marked \in SUBSET context[t] : cited' = [cited EXCEPT ![t] = marked]
  /\ Forget(t)
  /\ Goto(t, "persist")
  /\ UNCHANGED <<content, started, conv, events>>

FailAgain(t) ==
  /\ pc[t] \in {"retrieve", "generate"}
  /\ "generate" \in Faults
  /\ context' = [context EXCEPT ![t] = {}]
  /\ Goto(t, "retrieve")
  /\ UNCHANGED <<content, started, conv, known, history, cited, events>>

\* Retrieval or the model fails, possibly in mid-answer.
GenerationFail(t) ==
  /\ pc[t] \in {"retrieve", "generate"}
  /\ "generate" \in Faults
  /\ Say(t, "error")
  /\ Forget(t)
  /\ Goto(t, "closed")
  /\ UNCHANGED <<content, started, conv, cited>>

WithoutConversation(t) == cited[t] \subseteq chunks

WithoutChunks(t) == convs[conv[t]] = "live"

\* The foreign keys of the answer and of its citations.
Saveable(t) == convs[conv[t]] = "live" /\ cited[t] \subseteq chunks

\* The answer, its citations and its usage record, in one transaction.
PersistCommit(t) ==
  /\ pc[t] = "persist"
  /\ Saveable(t)
  /\ messages' = messages \union {Answer(t)}
  /\ citations' = citations \union ({t} \X cited[t])
  /\ usage' = [usage EXCEPT ![t] = @ + 1]
  /\ started' = IF \E i \in DOMAIN started : started[i] = Answer(t)
                THEN started ELSE Append(started, Answer(t))
  /\ Goto(t, "report")
  /\ UNCHANGED <<convs, chunks, locals, events>>

FailBilled(t) ==
  /\ pc[t] = "persist"
  /\ ~Saveable(t) \/ "persist" \in Faults
  /\ usage' = [usage EXCEPT ![t] = @ + 1]
  /\ Say(t, "error")
  /\ Goto(t, "closed")
  /\ UNCHANGED <<convs, messages, citations, chunks, started, locals>>

FailLate(t) ==
  /\ pc[t] \in {"persist", "report"}
  /\ ~Saveable(t) \/ "persist" \in Faults
  /\ Say(t, "error")
  /\ Goto(t, "closed")
  /\ UNCHANGED <<content, started, locals>>

PersistFail(t) ==
  /\ pc[t] = "persist"
  /\ ~Saveable(t) \/ "persist" \in Faults
  /\ Say(t, "error")
  /\ Goto(t, "closed")
  /\ UNCHANGED <<content, started, locals>>

Report(t) ==
  /\ pc[t] = "report"
  /\ Say(t, "done")
  /\ Goto(t, "closed")
  /\ UNCHANGED <<content, started, locals>>

\* The consumer disconnects: the generator is cancelled at its next await,
\* which no handler catches, and the open transaction is rolled back.
Leave(t) ==
  /\ pc[t] \notin {"idle"} \union Ended
  /\ DropDraft(t)
  /\ Forget(t)
  /\ Goto(t, "left")
  /\ UNCHANGED <<messages, started, citations, usage, chunks, conv, cited, events>>

-----------------------------------------------------------------------------
(* The rest of the workspace.                                              *)

DeleteConversation(c) ==
  /\ convs[c] = "live"
  /\ convs' = [convs EXCEPT ![c] = "gone"]
  /\ messages' = {x \in messages : conv[x[1]] # c}
  /\ citations' = {x \in citations : conv[x[1]] # c}
  /\ UNCHANGED <<started, usage, chunks, pc, locals, events>>

\* A document is re-ingested or deleted: its chunk rows go, and with them the
\* citations of past answers.
RemoveChunk(k) ==
  /\ k \in chunks
  /\ chunks' = chunks \ {k}
  /\ citations' = {x \in citations : x[2] # k}
  /\ UNCHANGED <<convs, messages, started, usage, pc, locals, events>>

Turn(t) ==
  \/ LoadHistory(t)
  \/ OpenCommit(t)
  \/ OpenFail(t)
  \/ Retrieve(t)
  \/ Token(t)
  \/ Generated(t)
  \/ GenerationFail(t)
  \/ PersistCommit(t)
  \/ PersistFail(t)
  \/ Report(t)

Next ==
  \/ \E t \in Turns : Begin(t) \/ Turn(t) \/ Leave(t)
  \/ \E c \in Convs : DeleteConversation(c)
  \/ \E k \in Chunks : RemoveChunk(k)

Spec == Init /\ [][Next]_vars

\* A turn in progress is a task of the event loop: each of its awaits returns
\* or raises, and the model's answer is finite.
FairSpec == Spec /\ \A t \in Turns : WF_vars(Turn(t))

-----------------------------------------------------------------------------
(* Properties.                                                             *)

\* An answer is stored with its question, and after it, whatever turns of the
\* conversation overlap and whenever it is deleted (Conversation.messages is
\* ordered by created_at alone).
AnswersFollowQuestions ==
  \A t \in Turns : Answer(t) \in messages =>
    Question(t) \in messages /\ After(Question(t), Answer(t))

\* The stored citations of an answer are the chunks it cites that still have a
\* row: none is missing and none dangles, as MessageCitation.document_id and
\* the eager load of get_conversation_with_messages rely on.
CitationsMatch ==
  \A t \in Turns :
    {k \in Chunks : <<t, k>> \in citations} =
      IF Answer(t) \in messages THEN cited[t] \intersect chunks ELSE {}

\* The ledger counts an answer once, and only if it was saved: each stored
\* answer is counted, and a counted one is stored until its conversation goes.
UsageMatchesAnswers ==
  \A t \in Turns :
    /\ usage[t] <= 1
    /\ Answer(t) \in messages => usage[t] = 1
    /\ usage[t] = 1 /\ convs[conv[t]] = "live" => Answer(t) \in messages

\* A follow-up is generated with the exchanges its user saw completed: they
\* are in its history unless HistoryLimit newer messages are (_load_history).
HistoryHasAnswered ==
  \A t \in Turns : pc[t] \in {"open", "retrieve", "generate"} =>
    \A u \in known[t] : \A x \in {Question(u), Answer(u)} : convs[conv[t]] = "live" =>
      x \in history[t] \/ Cardinality({y \in history[t] : After(x, y)}) = HistoryLimit

\* What its consumer sees of a turn (the docstring of stream_chat_turn).
Phase(t) ==
  CASE pc[t] \in {"history", "open"} -> "sent"
    [] pc[t] \in {"retrieve", "generate", "persist"} -> "asked"
    [] pc[t] = "report" -> "saved"
    [] pc[t] = "closed" -> IF Answered(t) THEN "done" ELSE "error"
    [] OTHER -> pc[t]

P == INSTANCE TurnProtocol WITH phase <- [t \in Turns |-> Phase(t)], saved <- usage

\* Every turn keeps the promise of TurnProtocol.
KeepsProtocol == P!Spec

\* Every turn ends, through failures of retrieval, of the model and of the
\* database, and whatever disappears while it runs.
TurnsEnd == \A t \in Turns : pc[t] # "idle" ~> pc[t] \in Ended

=============================================================================
