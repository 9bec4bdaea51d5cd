----------------------- MODULE MCConversationRuntimes -----------------------
(* Instances of ConversationRuntimes: turns and releases are interchangeable. *)
EXTENDS ConversationRuntimes, TLC

CONSTANTS t1, t2, r1, r2

OneTurn      == {t1}
TwoTurns     == {t1, t2}
OneRelease   == {r1}
TwoReleases  == {r1, r2}
Sym == Permutations(Turn) \cup Permutations(Releaser)
=============================================================================
