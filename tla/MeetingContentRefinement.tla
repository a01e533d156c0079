---------------------- MODULE MeetingContentRefinement ----------------------
(***************************************************************************)
(* The SQL statements of MeetingContent implement AtomicContent.           *)
(***************************************************************************)
EXTENDS MeetingContent, Sequences

\* The refinement mapping: the chain of a document is its revisions followed
\* by its current row.
Chain == [d \in Docs |->
           [v \in 1..doc[d].version |->
              IF v = doc[d].version THEN doc[d].body
              ELSE CHOOSE b \in Bodies : [version |-> v, body |-> b] \in revisions[d]]]

Atomic == INSTANCE AtomicContent
            WITH status <- meeting, chain <- Chain, asked <- req, answer <- outcome

\* Every behaviour of the transactions is, seen through the chain of versions
\* and the answers of the callers, a behaviour of the atomic store: the
\* commit of a save is its compare-and-swap, a crash or rollback changes
\* nothing, a replay returns the first answer, and a refusal is justified by
\* the store at the moment it is given.
ImplementsAtomicContent == Atomic!Spec
=============================================================================
