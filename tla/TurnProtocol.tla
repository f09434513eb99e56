---------------------------- MODULE TurnProtocol ----------------------------
(***************************************************************************)
(* What stream_chat_turn promises to the consumer of its event stream: a   *)
(* turn whose question was saved ends with one "done" or one "error" event *)
(* unless its consumer leaves; "done" comes after the answer is saved and  *)
(* counted, "error" only if it never will be; nothing follows either.      *)
(***************************************************************************)
EXTENDS Naturals, Sequences

CONSTANT
  Turns      (* Chat turns.                                                *)

VARIABLES
  phase,     \* phase[t]: how far turn t is
  events,    \* events[t]: the events its consumer has been sent
  saved      \* saved[t]: answers of t saved and counted

vars == <<phase, events, saved>>

Phases == {"idle", "sent", "asked", "saved", "done", "error", "refused", "left"}

TypeOK ==
  /\ phase \in [Turns -> Phases]
  /\ events \in [Turns -> Seq({"token", "done", "error"})]
  /\ saved \in [Turns -> Nat]

Init ==
  /\ phase = [t \in Turns |-> "idle"]
  /\ events = [t \in Turns |-> << >>]
  /\ saved = [t \in Turns |-> 0]

Move(t, from, to) ==
  /\ phase[t] \in from
  /\ phase' = [phase EXCEPT ![t] = to]

Say(t, event) == events' = [events EXCEPT ![t] = Append(@, event)]

Send(t) == Move(t, {"idle"}, "sent") /\ UNCHANGED <<events, saved>>

\* The question is saved ...
Ask(t) == Move(t, {"sent"}, "asked") /\ UNCHANGED <<events, saved>>

\* ... or cannot be, and the consumer hears nothing.
Refuse(t) == Move(t, {"idle", "sent"}, "refused") /\ UNCHANGED <<events, saved>>

Token(t) == phase[t] = "asked" /\ Say(t, "token") /\ UNCHANGED <<phase, saved>>

Save(t) ==
  /\ Move(t, {"asked"}, "saved")
  /\ saved' = [saved EXCEPT ![t] = @ + 1]
  /\ UNCHANGED events

Finish(t) == Move(t, {"saved"}, "done") /\ Say(t, "done") /\ UNCHANGED saved

Fail(t) == Move(t, {"asked"}, "error") /\ Say(t, "error") /\ UNCHANGED saved

Leave(t) == Move(t, {"sent", "asked", "saved"}, "left") /\ UNCHANGED <<events, saved>>

Step(t) ==
  \/ Send(t)
  \/ Ask(t)
  \/ Refuse(t)
  \/ Token(t)
  \/ Save(t)
  \/ Finish(t)
  \/ Fail(t)
  \/ Leave(t)

Next == \E t \in Turns : Step(t)

Spec == Init /\ [][Next]_vars

=============================================================================
