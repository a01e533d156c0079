---------------------------- MODULE AtomicContent ----------------------------
(***************************************************************************)
(* What the content store promises its callers: each document is a chain   *)
(* of versions, every save is answered in one atomic step, and              *)
(*   - a save extends the chain by one iff it started from the last version *)
(*     (compare-and-swap),                                                  *)
(*   - the attempts that share an idempotency key extend it at most once,   *)
(*     and a repeated attempt gets the first one's answer,                  *)
(*   - a refusal has no effect and tells the truth.                         *)
(* MeetingContentRefinement shows that the statements of MeetingContent     *)
(* implement this, so a caller may be reasoned about on top of it.          *)
(***************************************************************************)
EXTENDS Naturals, Sequences

CONSTANTS Txns, Bodies, Keys, NoKey, None, Requests

Docs == {"transcript", "minutes"}

VARIABLES
  status,  \* "ACTIVE", "ARCHIVED" or "PURGED"
  chain,   \* chain[d][v]: the content of version v of document d
  asked,   \* the request of each transaction, None before it begins
  answer   \* the answer it was given

avars == <<status, chain, asked, answer>>

Pending == [tag |-> "NONE", version |-> 0]
Waiting(t) == asked[t] # None /\ answer[t] = Pending
Applied(t) == answer[t].tag = "SAVED"

Init ==
  /\ status = "ACTIVE"
  /\ chain = [d \in Docs |-> <<>>]
  /\ asked = [t \in Txns |-> None]
  /\ answer = [t \in Txns |-> Pending]

Ask(t, r) ==
  /\ asked[t] = None
  /\ asked' = [asked EXCEPT ![t] = r]
  /\ UNCHANGED <<status, chain, answer>>

Reply(t, tag, version) ==
  /\ Waiting(t)
  /\ answer' = [answer EXCEPT ![t] = [tag |-> tag, version |-> version]]
  /\ UNCHANGED <<status, asked>>

\* The save of t takes effect: compare-and-swap on the length of the chain.
Apply(t) ==
  LET r == asked[t]
  IN  /\ r # None
      /\ status # "PURGED"
      /\ Len(chain[r.doc]) = r.base
      /\ r.key # NoKey \/ r.base = 0 => status = "ACTIVE"
      /\ r.doc = "minutes" => chain["transcript"] # <<>>
      /\ r.key # NoKey => \A u \in Txns :
           ~(Applied(u) /\ asked[u].doc = r.doc /\ asked[u].key = r.key)
      /\ chain' = [chain EXCEPT ![r.doc] = Append(@, r.body)]
      /\ Reply(t, "SAVED", r.base + 1)

\* A repeated attempt: the answer of the attempt that was applied.
Replay(t) ==
  /\ asked[t] # None
  /\ asked[t].key # NoKey
  /\ \E u \in Txns :
       /\ Applied(u) /\ asked[u] = asked[t]
       /\ Reply(t, "REPLAYED", answer[u].version)
  /\ UNCHANGED chain

\* What must be so when a save is refused with this reason.
Truthful(t, tag) ==
  LET r == asked[t]
  IN  CASE tag = "VERSION_CONFLICT"    -> Len(chain[r.doc]) # r.base
        [] tag = "KEY_CONFLICT"        ->
             \/ status = "PURGED"
             \/ \E u \in Txns : Applied(u) /\ asked[u] # r
                  /\ asked[u].doc = r.doc /\ asked[u].key = r.key
        [] tag = "NOT_FOUND"           -> status # "ACTIVE"
        [] tag = "TRANSCRIPT_REQUIRED" -> chain["transcript"] = <<>>
        [] tag = "FAILED"              -> TRUE

Refuse(t) ==
  /\ asked[t] # None
  /\ \E tag \in {"VERSION_CONFLICT", "KEY_CONFLICT", "NOT_FOUND",
                 "TRANSCRIPT_REQUIRED", "FAILED"} :
       Truthful(t, tag) /\ Reply(t, tag, 0)
  /\ UNCHANGED chain

Archive ==
  /\ status = "ACTIVE"
  /\ status' = "ARCHIVED"
  /\ UNCHANGED <<chain, asked, answer>>

Purge ==
  /\ status # "PURGED"
  /\ status' = "PURGED"
  /\ chain' = [d \in Docs |-> <<>>]
  /\ UNCHANGED <<asked, answer>>

Next ==
  \/ \E t \in Txns :
       \/ \E r \in Requests : Ask(t, r)
       \/ Apply(t) \/ Replay(t) \/ Refuse(t)
  \/ Archive
  \/ Purge

Spec == Init /\ [][Next]_avars
=============================================================================
