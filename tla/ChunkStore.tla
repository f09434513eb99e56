----------------------------- MODULE ChunkStore -----------------------------
(***************************************************************************)
(* What ingestion promises to the readers of a document's chunks           *)
(* (sparse_search, hybrid_retrieve_node and the chunk listing): a          *)
(* document's chunk rows are empty or one whole generation, a new          *)
(* generation replaces the old one in a single step, and a removed         *)
(* document never gets chunks again.                                       *)
(***************************************************************************)
CONSTANTS
  Docs,      (* The documents of a workspace.                              *)
  Gens       (* Chunk generations: the rows one ingestion run produced.    *)

VARIABLES
  content,   (* content[d]: the generations whose rows d has.              *)
  removed    (* The documents without a row that had chunks or never will. *)

vars == <<content, removed>>

TypeOK ==
  /\ content \in [Docs -> SUBSET Gens]
  /\ removed \subseteq Docs

Init ==
  /\ content = [d \in Docs |-> {}]
  /\ removed = {}

\* A run of d publishes generation g, which replaces whatever d had.
Publish(d, g) ==
  /\ d \notin removed
  /\ \A e \in Docs : g \notin content[e]
  /\ content' = [content EXCEPT ![d] = {g}]
  /\ UNCHANGED removed

\* The document goes, and its chunks with it.
Remove(d) ==
  /\ d \notin removed
  /\ content' = [content EXCEPT ![d] = {}]
  /\ removed' = removed \union {d}

Next == \E d \in Docs : Remove(d) \/ \E g \in Gens : Publish(d, g)

Spec == Init /\ [][Next]_vars
=============================================================================
