----------------------------- MODULE ChatClient -----------------------------
(***************************************************************************)
(* The chat page of one browser tab: useChat and the pages that mount it,  *)
(* against the server's turns and the connection between them.             *)
(*                                                                         *)
(* A change of the route mounts a new ChatView, because the router keys a  *)
(* page by its route and its parameters.  It takes a while: the old page   *)
(* goes on until then.  What the handler of one event, reply or click does *)
(* is one step.  A server turn is what TurnProtocol promises of it; an     *)
(* answer has at most one token event.                                     *)
(*                                                                         *)
(* DeliverAlways, ForgetConversation and HangOnError are no part of the    *)
(* specification: each stands before the definition it gets wrong.         *)
(***************************************************************************)
EXTENDS Naturals, Sequences, FiniteSets, SequencesExt

CONSTANTS
  Turns,     \* calls of sendMessage
  Convs,     \* conversation ids
  MaxLoads,  \* bound on the requests for a history in flight
  New        \* no conversation: the route /chat, conversationId null

NoTurn == "none"

ASSUME ClientAssumption == New \notin Convs /\ NoTurn \notin Turns /\ MaxLoads \in Nat

VARIABLES
  alive,     \* alive[c]: "unused", "live" or "gone"
  stored,    \* stored[c]: its messages <<turn, role>>
  phase,     \* phase[t]: the server's turn
  home,      \* home[t]: the conversation it asks for, then the one it has
  inbox,     \* inbox[t]: events sent and not yet read
  route,     \* the page mounted
  going,     \* the target of a navigation under way, or <<>>
  view,      \* the state of useChat
  reading,   \* the turn whose stream the mounted page reads, or none
  thread,    \* history: the turns this page sent
  loads      \* requests for a history; live unless cancelled

server == <<alive, stored, phase, home>>
page   == <<route, view, reading, thread>>
vars   == <<server, inbox, page, going, loads>>

Routes == Convs \union {New}

Unfinished == {"open", "asked", "answering", "saved"}

Bubble(t, role, look) == [turn |-> t, role |-> role, look |-> look]

Fresh(r) == [conv |-> r, messages |-> <<>>, streaming |-> FALSE, loading |-> r # New]

Init ==
  /\ alive = [c \in Convs |-> "unused"]
  /\ stored = [c \in Convs |-> <<>>]
  /\ phase = [t \in Turns |-> "unsent"]
  /\ home = [t \in Turns |-> New]
  /\ inbox = [t \in Turns |-> <<>>]
  /\ route = New /\ view = Fresh(New)
  /\ reading = NoTurn /\ thread = <<>>
  /\ going = <<>> /\ loads = {}

-----------------------------------------------------------------------------
(* The server and the connection.                                          *)

Move(t, label) == phase' = [phase EXCEPT ![t] = label]
Reaches(t)     == reading = t /\ ~Contains(inbox[t], "lost")
Emit(t, es)    == inbox' = [inbox EXCEPT ![t] = IF Reaches(t) THEN @ \o es ELSE @]
Store(t, role) == stored' = [stored EXCEPT ![home'[t]] = Append(@, <<t, role>>)]

Ask(t) ==
  /\ phase[t] = "open"
  /\ \E c \in Convs :
       /\ IF home[t] = New THEN alive[c] = "unused" ELSE c = home[t] /\ alive[c] = "live"
       /\ home' = [home EXCEPT ![t] = c]
       /\ alive' = [alive EXCEPT ![c] = "live"]
  /\ Store(t, "user")
  /\ Move(t, "asked")
  /\ UNCHANGED <<inbox, page, going, loads>>

Token(t) ==
  /\ phase[t] = "asked"
  /\ Move(t, "answering")
  /\ Emit(t, <<"token">>)
  /\ UNCHANGED <<alive, stored, home, page, going, loads>>

Save(t) ==
  /\ phase[t] \in {"asked", "answering"}
  /\ alive[home[t]] = "live"
  /\ UNCHANGED home /\ Store(t, "assistant")
  /\ Move(t, "saved")
  /\ UNCHANGED <<alive, inbox, page, going, loads>>

Done(t) ==
  /\ phase[t] = "saved"
  /\ Move(t, "done")
  /\ Emit(t, <<"done", "end">>)
  /\ UNCHANGED <<alive, stored, home, page, going, loads>>

Fail(t) ==
  /\ phase[t] \in {"asked", "answering"}
  /\ Move(t, "failed")
  /\ Emit(t, <<"error", "end">>)
  /\ UNCHANGED <<alive, stored, home, page, going, loads>>

(* The request is answered with an error status, the turn raises, or the   *)
(* connection breaks: what is not read yet may be lost.  Unless the turn   *)
(* itself was at fault, it goes on.                                        *)
Break(t) ==
  /\ Reaches(t)
  /\ \E n \in 0..Len(inbox[t]) :
       inbox' = [inbox EXCEPT ![t] = Append(SubSeq(@, 1, n), "lost")]
  /\ \/ UNCHANGED phase
     \/ phase[t] \in Unfinished /\ Move(t, "left")
  /\ UNCHANGED <<alive, stored, home, page, going, loads>>

(* An aborted or broken request is cancelled when the server notices. *)
Leave(t) ==
  /\ phase[t] \in Unfinished /\ ~Reaches(t)
  /\ Move(t, "left")
  /\ UNCHANGED <<alive, stored, home, inbox, page, going, loads>>

DeleteConversation(c) ==
  /\ alive[c] = "live"
  /\ alive' = [alive EXCEPT ![c] = "gone"]
  /\ stored' = [stored EXCEPT ![c] = <<>>]
  /\ UNCHANGED <<phase, home, inbox, page, going, loads>>

(* get_conversation_messages *)
ServeHistory(l) ==
  /\ l.state = "sent"
  /\ \/ /\ alive[l.conv] = "live"
        /\ loads' = (loads \ {l}) \union {[l EXCEPT !.state = "ok", !.got = stored[l.conv]]}
     \/ loads' = (loads \ {l}) \union {[l EXCEPT !.state = "failed"]}
  /\ UNCHANGED <<server, inbox, page, going>>

-----------------------------------------------------------------------------
(* useChat.                                                                *)

(* ChatView shows no input while the history loads, and ChatInput sends    *)
(* nothing while an answer streams.                                        *)
MayWrite == ~view.loading /\ ~view.streaming

(* sendMessage *)
Send(t) ==
  /\ phase[t] = "unsent"
  /\ MayWrite
  /\ view' = [view EXCEPT !.streaming = TRUE,
                !.messages = @ \o <<Bubble(t, "user", "plain"), Bubble(t, "assistant", "empty")>>]
  /\ reading' = t
  /\ thread' = Append(thread, t)
  /\ home' = [home EXCEPT ![t] = view.conv]
  /\ Move(t, "open")
  /\ UNCHANGED <<alive, stored, inbox, route, going, loads>>

(* setMessages, on the assistant's bubble of t *)
Looks(t, look) ==
  [i \in DOMAIN view.messages |->
     IF view.messages[i].turn = t /\ view.messages[i].role = "assistant"
     THEN [view.messages[i] EXCEPT !.look = look] ELSE view.messages[i]]

(* the catch clause: m.id !== assistantId || m.content; a UUID is the id of *)
(* one bubble                                                              *)
WithoutPlaceholder(t) ==
  LET empty == Bubble(t, "assistant", "empty")
      place == CHOOSE i \in DOMAIN view.messages : view.messages[i] = empty
  IN  IF Contains(view.messages, empty) THEN RemoveAt(view.messages, place) ELSE view.messages

Event(e) == \E t \in Turns : reading = t /\ inbox[t] # <<>> /\ Head(inbox[t]) = e

Consume(t) == inbox' = [inbox EXCEPT ![t] = Tail(@)]

ReadToken ==
  /\ Event("token")
  /\ Consume(reading)
  /\ view' = [view EXCEPT !.messages = Looks(reading, "text")]
  /\ UNCHANGED <<server, route, reading, thread, going, loads>>

(* mutant: the id of a new conversation is left to the new page *)
ForgetConversation ==
  /\ Event("done")
  /\ Consume(reading)
  /\ view' = [view EXCEPT !.messages = Looks(reading, "complete")]
  /\ going' = IF view.conv = New THEN <<home[reading]>> ELSE going
  /\ UNCHANGED <<server, route, reading, thread, loads>>

ReadDone ==
  /\ Event("done")
  /\ Consume(reading)
  /\ view' = [view EXCEPT !.messages = Looks(reading, "complete"), !.conv = home[reading]]
  /\ going' = IF view.conv = New THEN <<home[reading]>> ELSE going
  /\ UNCHANGED <<server, route, reading, thread, loads>>

ReadError ==
  /\ Event("error")
  /\ Consume(reading)
  /\ view' = [view EXCEPT !.messages = Looks(reading, "failed")]
  /\ UNCHANGED <<server, route, reading, thread, going, loads>>

(* mutant: only a complete stream enables the input again *)
HangOnError ==
  /\ Event("end") \/ Event("lost")
  /\ Consume(reading)
  /\ view' = [view EXCEPT !.streaming = Event("lost")]
  /\ reading' = NoTurn
  /\ UNCHANGED <<server, route, thread, going, loads>>

(* The body ends or breaks; finally enables the input again. *)
ReadEnd ==
  /\ Event("end") \/ Event("lost")
  /\ Consume(reading)
  /\ view' = [view EXCEPT !.streaming = FALSE,
                !.messages = IF Event("lost") THEN WithoutPlaceholder(reading) ELSE @]
  /\ reading' = NoTurn
  /\ UNCHANGED <<server, route, thread, going, loads>>

Read == ReadToken \/ ReadDone \/ ReadError \/ ReadEnd

(* A link of the sidebar, or New chat; the latest navigation wins. *)
Navigate(r) ==
  /\ r \in {New} \union {c \in Convs : alive[c] # "unused"}
  /\ going' = <<r>>
  /\ UNCHANGED <<server, inbox, page, loads>>

(* The old page is unmounted: its stream is aborted, its history load is   *)
(* cancelled.  The new one starts empty.                                   *)
Arrive ==
  /\ going # <<>> /\ going[1] # route
  /\ LET r == going[1]
         cancelled == {[l EXCEPT !.live = FALSE] : l \in loads}
     IN  /\ route' = r /\ view' = Fresh(r)
         /\ loads' = IF r = New THEN cancelled
                     ELSE cancelled \union {[conv |-> r, state |-> "sent", got |-> <<>>, live |-> TRUE]}
         /\ Cardinality(loads') <= MaxLoads
  /\ reading' = NoTurn /\ thread' = <<>>
  /\ inbox' = [t \in Turns |-> <<>>]
  /\ going' = <<>>
  /\ UNCHANGED server

Stay ==
  /\ going = <<route>>
  /\ going' = <<>>
  /\ UNCHANGED <<server, inbox, page, loads>>

Restored(got) ==
  [i \in DOMAIN got |->
     Bubble(got[i][1], got[i][2], IF got[i][2] = "user" THEN "plain" ELSE "complete")]

(* mutant: the cancelled flag is not looked at *)
DeliverAlways(l) ==
  /\ l.state # "sent"
  /\ loads' = loads \ {l}
  /\ view' = [view EXCEPT !.loading = FALSE,
                  !.messages = IF l.state = "ok" THEN Restored(l.got) ELSE @]
  /\ UNCHANGED <<server, inbox, route, reading, thread, going>>

(* the then, catch and finally of the effect *)
DeliverHistory(l) ==
  /\ l.state # "sent"
  /\ loads' = loads \ {l}
  /\ view' = IF l.live
             THEN [view EXCEPT !.loading = FALSE,
                     !.messages = IF l.state = "ok" THEN Restored(l.got) ELSE @]
             ELSE view
  /\ UNCHANGED <<server, inbox, route, reading, thread, going>>

Serve(t) == Ask(t) \/ Token(t) \/ Save(t) \/ Done(t) \/ Fail(t) \/ Break(t)
Load     == \E l \in loads : ServeHistory(l) \/ DeliverHistory(l)

Next ==
  \/ \E t \in Turns : Send(t) \/ Serve(t) \/ Leave(t)
  \/ Read \/ Load
  \/ \E r \in Routes : Navigate(r)
  \/ Arrive \/ Stay
  \/ \E c \in Convs : DeleteConversation(c)

Spec == Init /\ [][Next]_vars

(* Requests are answered or break, and the event loop runs what that       *)
(* resumes.  A user may do nothing.                                        *)
FairSpec ==
  /\ Spec
  /\ \A t \in Turns : WF_vars(Serve(t))
  /\ WF_vars(Read) /\ WF_vars(Load)

-----------------------------------------------------------------------------
(* The page shows the messages of its conversation, each once, whatever    *)
(* histories and streams of earlier pages are still in flight; an answer   *)
(* shown as complete is stored, until its conversation is deleted; and a   *)
(* bubble that waits for its first token belongs to the stream being read. *)
ShowsItsConversation ==
  \A i \in DOMAIN view.messages :
    LET m == view.messages[i] IN
    /\ \A j \in DOMAIN view.messages :
         view.messages[j].turn = m.turn /\ view.messages[j].role = m.role => i = j
    /\ IF route = New THEN Contains(thread, m.turn) ELSE home[m.turn] = route
    /\ m.look = "complete" =>
         \/ Contains(stored[home[m.turn]], <<m.turn, "assistant">>)
         \/ alive[home[m.turn]] = "gone"
    /\ m.look = "empty" => reading = m.turn

(* Once an answer is complete, everything sent from the page after it      *)
(* joins its conversation, although the page that created it still runs    *)
(* until the router has replaced it.  (After an error in a new one, the    *)
(* next message starts another conversation.)                              *)
FollowUpsJoin ==
  \A i, j \in DOMAIN thread :
    i < j /\ Contains(view.messages, Bubble(thread[i], "assistant", "complete")) =>
      home[thread[j]] = home[thread[i]]

(* The page lets its user write again, once he stops changing pages: a     *)
(* stream that fails, breaks or is refused, and a history that cannot be   *)
(* loaded, end too.                                                        *)
InputComesBack ==
  <>[][\A r \in Routes : ~Navigate(r)]_vars => (~MayWrite ~> MayWrite)

=============================================================================
