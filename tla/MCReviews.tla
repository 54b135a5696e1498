------------------------------ MODULE MCReviews ------------------------------
(***************************************************************************)
(* Small instances of Reviews and Edits for TLC.  The two share no         *)
(* variable and call nothing of each other: a behaviour is one of Reviews  *)
(* or one of Edits, chosen at the start, the other staying as it began.    *)
(***************************************************************************)
EXTENDS Reviews, Edits, TLC

VARIABLE part

PartsInit ==
  /\ part \in {"reviews", "edits"}
  /\ Init /\ EditsInit
  /\ part = "reviews" => \A r \in Restaurants : restaurants[r].commission = 0

PartsNext ==
  /\ UNCHANGED part
  /\ \/ part = "reviews" /\ Next /\ UNCHANGED evars
     \/ part = "edits" /\ EditsNext /\ UNCHANGED vars

\* The fairness of Reviews' FairSpec; Edits has none.
PartsSpec ==
  /\ PartsInit /\ [][PartsNext]_<<part, vars, evars>>
  /\ \A h \in Handlers : SF_vars(Serve(h) /\ part = "reviews" /\ UNCHANGED evars)
=============================================================================
