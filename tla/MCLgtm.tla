------------------------------- MODULE MCLgtm -------------------------------
(* Values for the constants of Lgtm. *)
EXTENDS Lgtm

\* OWNERS files decide: the reviewer may, as a mere collaborator would not.
options == [storeTreeHash |-> TRUE, reviewActsAsLgtm |-> FALSE,
            skipCollaborators |-> TRUE, sticky |-> FALSE]

\* These, without hashes and with reviews, with collaborators, and sticky.
MCOptions == { options,
               [options EXCEPT !.storeTreeHash = FALSE, !.reviewActsAsLgtm = TRUE],
               [options EXCEPT !.skipCollaborators = FALSE],
               [options EXCEPT !.sticky = TRUE] }

JustHashes == {options}
=============================================================================
