---------------------------- MODULE MCLinkSession ----------------------------
(* Watch sets for the model-checked instances of LinkSession. *)
EXTENDS LinkSession

\* No watch, one or another, and more than the catalog knows and than one WATCH holds.
MCWatchSets == {<<>>, <<1>>, <<2>>, <<3, 2, 1, 2>>}

\* Two sets of the same size.
MCTwoSets == {<<1>>, <<2>>}
==============================================================================
