------------------------------ MODULE MCBackend ------------------------------
(* Small instances of Accounts and Emotes for TLC.  The two share no state,  *)
(* so one run checks them side by side: only one of them moves.  The people  *)
(* of a kind and the threads are alike.                                      *)
EXTENDS Accounts, Emotes, TLC
VARIABLE emoting
EitherInit ==
  /\ Init /\ EmotesInit /\ emoting \in BOOLEAN
  /\ emoting => \A p \in People : kind[p] = None /\ reports = <<>>
  /\ reports # <<>> => \A p \in Guests : kind[p] = None
SideBySide ==
  /\ EitherInit
  /\ [][/\ IF emoting THEN EmotesNext /\ UNCHANGED vars ELSE Next /\ UNCHANGED emoteVars
        /\ UNCHANGED emoting]_<<vars, emoteVars, emoting>>

MCAmounts == {2}
Alike == Permutations(Members) \union Permutations(Guests) \union Permutations(Threads)
=============================================================================
