------------------------- MODULE MCMinutesGeneration -------------------------
(* Small instances of MinutesGeneration for TLC. *)
EXTENDS MinutesGeneration, TLC

RunSymmetry == Permutations(Runs) \cup Permutations(Clients) \cup Permutations(Servers)

External ==
  {[mode |-> "redis", provider |-> "gemini", usable |-> TRUE],
   [mode |-> "inline", provider |-> "gemini", usable |-> TRUE],
   [mode |-> "inline", provider |-> "gemini", usable |-> FALSE]}
Local ==
  {[mode |-> "redis", provider |-> "ollama", usable |-> TRUE],
   [mode |-> "inline", provider |-> "ollama", usable |-> TRUE],
   [mode |-> "redis", provider |-> "mock", usable |-> FALSE],
   [mode |-> "inline", provider |-> "mock", usable |-> TRUE],
   [mode |-> "inline", provider |-> "mock", usable |-> FALSE]}
=============================================================================
