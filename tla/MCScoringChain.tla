--------------------------- MODULE MCScoringChain ---------------------------
(* A small instance of ScoringChain and of FeatureVectors for TLC.  They    *)
(* share no variable, and a behaviour is one of either: it suffices that    *)
(* each runs while the other is where it started.                           *)
EXTENDS ScoringChain, FeatureVectors, TLC

CONSTANTS p1, p2, p3, s1, s2, st1, st2

MCRated == p1 :> 100
\* A pump that runs as rated, and a hot one that shakes and has no pressure.
MCGoldRows == {[vib |-> 0, temp |-> 40, pressure |-> 100],
               [vib |-> 100, temp |-> 95, pressure |-> 0]}

\* A negative number, which the API accepts, many, and more interventions than
\* a pump survives.
MCCounts == {-40, 7, 30}

MCStationOf == (p1 :> st1) @@ (p2 :> st2) @@ (p3 :> st1)

Symmetry == Permutations(Requests)

EitherInit == Init /\ BatchInit

ChainIsFresh ==
  /\ \A r \in Requests : tx[r] = Unsent
  /\ \A p \in Pumps : gold[p] = {} /\ window[p] = None /\ count[p] = 7

BatchIsFresh ==
  /\ batch = NoBatch /\ touched = {} /\ weather = {} /\ risk = {}
  /\ \A p \in Fleet : newest[p] = None /\ legacy[p] = None

EitherNext ==
  \/ BatchIsFresh /\ Next /\ UNCHANGED batchVars
  \/ ChainIsFresh /\ BatchNext /\ UNCHANGED vars

EitherSpec == EitherInit /\ [][EitherNext]_<<vars, batchVars>>
=============================================================================
