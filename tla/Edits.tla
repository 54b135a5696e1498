-------------------------------- MODULE Edits --------------------------------
(***************************************************************************)
(* The columns of a restaurant's row that administrators edit, by PATCH or *)
(* by the form of the admin page (internal/restaurants, adminui).  The     *)
(* form posts both columns, as its page showed them but for what its user  *)
(* has changed.                                                            *)
(***************************************************************************)
EXTENDS Naturals

CONSTANTS
  Restaurants,  \* ids of restaurants, all of them created
  Commissions,  \* percentages, 0 among them
  Browsers,     \* windows in which administrators open the admin page
  NoPage,       \* a browser without it
  Unset         \* a field or parameter that a request does not give

\* is_active and commission.
AdminColumns == {"active", "commission"}

RestaurantRow == [active : BOOLEAN, commission : Commissions]

\* What a PATCH, or the user of a form, may ask for: both columns, one, or none.
Patches == [active : BOOLEAN \cup {Unset}, commission : Commissions \cup {Unset}]

\* A form of the page, as a browser holds it; stale: columns whose value in the table has
\* changed since the page was made.
Page == [rest : Restaurants, row : RestaurantRow, stale : SUBSET AdminColumns]

\* meant: what the columns were last meant to be; given: all they were ever meant to be;
\* undone: columns that a form may have put back since they were last meant.
Edited == [meant : RestaurantRow,
           given : [active : SUBSET BOOLEAN, commission : SUBSET Commissions],
           undone : SUBSET AdminColumns]

ASSUME EditsAssumption ==
  /\ 0 \in Commissions /\ Commissions \subseteq 0 .. 100
  /\ Unset \notin BOOLEAN /\ Unset \notin Commissions
  /\ NoPage \notin Page

VARIABLES
  restaurants,  \* rows: is_active and commission
  page,         \* the row of which each browser holds a form
  edits         \* history of each row, see Noted

evars == <<restaurants, page, edits>>

EditsInit ==
  /\ restaurants \in [Restaurants -> [active : {TRUE}, commission : Commissions]]
  /\ page = [b \in Browsers |-> NoPage]
  /\ edits = [r \in Restaurants |->
               [meant |-> restaurants[r], given |-> [c \in AdminColumns |-> {restaurants[r][c]}],
                undone |-> {}]]

-----------------------------------------------------------------------------

Named(patch) == {c \in AdminColumns : patch[c] # Unset}

\* row with the columns that patch names.
With(row, patch) == [c \in AdminColumns |-> IF c \in Named(patch) THEN patch[c] ELSE row[c]]

\* Mutant: a column that the request does not name is set to its zero value.
PatchedAll(row, patch) == With([active |-> FALSE, commission |-> 0], patch)

\* The map of columns of UpdateAdminFields: those that are not nil.
Patched(row, patch) == With(row, patch)

\* One UPDATE WHERE id.
UpdateAdminFields(r, patch) == restaurants' = [restaurants EXCEPT ![r] = Patched(@, patch)]

\* The user meant patch; columns lost were posted along as an old page showed them.
Noted(r, patch, lost) ==
  edits' = [edits EXCEPT ![r] =
    [meant  |-> With(@.meant, patch),
     given  |-> [c \in AdminColumns |->
                  @.given[c] \cup (IF c \in Named(patch) THEN {patch[c]} ELSE {})],
     undone |-> (@.undone \cup lost) \ Named(patch)]]

\* What becomes of the page of browser b when a row changes.
Aged(b) ==
  IF page[b] = NoPage THEN NoPage
  ELSE LET r == page[b].rest
       IN  [page[b] EXCEPT !.stale = @ \cup {c \in AdminColumns :
                                               restaurants'[r][c] # restaurants[r][c]}]

\* PATCH /admin/restaurants/:id.
UpdateAdminRestaurant(r, patch) ==
  /\ UpdateAdminFields(r, patch)
  /\ Noted(r, patch, {})
  /\ page' = [b \in Browsers |-> Aged(b)]

\* GET /admin/restaurants, also instead of a form that is given up or fails.
RestaurantsPage(b, r) ==
  /\ page' = [page EXCEPT ![b] = [rest |-> r, row |-> restaurants[r], stale |-> {}]]
  /\ UNCHANGED <<restaurants, edits>>

\* The form: its user has changed the fields of patch, and leaves the page.
UpdateRestaurant(b, patch) ==
  /\ page[b] # NoPage
  /\ LET r == page[b].rest IN
       /\ UpdateAdminFields(r, With(page[b].row, patch))
       /\ Noted(r, patch, page[b].stale)
  /\ page' = [a \in Browsers |-> IF a = b THEN NoPage ELSE Aged(a)]

EditsNext ==
  \/ \E r \in Restaurants, patch \in Patches : UpdateAdminRestaurant(r, patch)
  \/ \E b \in Browsers, r \in Restaurants : RestaurantsPage(b, r)
  \/ \E b \in Browsers, patch \in Patches : UpdateRestaurant(b, patch)

EditsSpec == EditsInit /\ [][EditsNext]_evars

-----------------------------------------------------------------------------
(* Properties                                                              *)

\* Every variable has its type.
EditsTypeOK ==
  /\ restaurants \in [Restaurants -> RestaurantRow]
  /\ page \in [Browsers -> Page \cup {NoPage}]
  /\ edits \in [Restaurants -> Edited]

\* Every variable has its type, and edits add up, in whatever order requests and forms of
\* several administrators overtake each other: a column holds what it was last meant to
\* be, unless a form was posted later whose page was made before the column changed; and
\* even then a value that somebody meant for this column of this restaurant (a request
\* that hides a restaurant leaves its commission alone, and the reverse).
EditsAddUp ==
  /\ EditsTypeOK
  /\ \A r \in Restaurants, c \in AdminColumns :
       /\ restaurants[r][c] \in edits[r].given[c]
       /\ c \in edits[r].undone \/ restaurants[r][c] = edits[r].meant[c]
=============================================================================
