--------------------------- MODULE MCRelatedQueue ---------------------------
(* RelatedQueue with a few items and a few tags. *)
EXTENDS RelatedQueue

CONSTANTS a, b    \* two keys

Nested == {<<a>>, <<a, a>>, <<a, b>>, <<b>>}
=============================================================================
