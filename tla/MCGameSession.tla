---------------------------- MODULE MCGameSession ----------------------------
(***************************************************************************)
(* Two sessions of one user, two campaigns, two characters and a location  *)
(* that can belong to either.                                              *)
(***************************************************************************)
EXTENDS GameSession, TLC

AnyNames == Permutations(Sessions) \cup Permutations(Campaigns)
              \cup Permutations(Characters)
ZeroToTwo == 0..2
OneMore == {1}

\* Both campaigns are open, their clocks stand at 0, and no character is
\* saved; what is saved or closed later is saved or closed by a step.
SmallInit ==
  /\ Init
  /\ open = Campaigns
  /\ \A c \in Campaigns : clock[c] = 0 /\ savedCharacter[c] = None
  /\ \A p \in Characters : home[p] # None
  /\ \A l \in Locations : place[l] # None
SmallSpec == SmallInit /\ [][Next]_vars
=============================================================================
