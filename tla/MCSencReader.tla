---------------------------- MODULE MCSencReader ----------------------------
(* Chart a with each of the interesting files, beside b, a plain oeSENC. *)
EXTENDS SencReader
CONSTANTS a, b

Feature(i, k) == [id |-> i, known |-> k]
Plain(c, kind) ==
  [kind |-> kind, permit |-> "right", hint |-> c, expired |-> FALSE,
   cancelled |-> FALSE, compatible |-> TRUE, covr |-> 1,
   features |-> <<Feature(1, TRUE), Feature(2, TRUE)>>]
Files ==
  {Plain(a, k) : k \in Kinds}
    \cup {[Plain(a, "oesenc") EXCEPT !.hint = b],
          [Plain(a, "oesenc") EXCEPT !.hint = NoChart, !.features[2].known = FALSE]}
    \cup {[Plain(a, "oesu") EXCEPT !.permit = p] : p \in {"wrong", "none"}}
    \cup {[Plain(a, "raster") EXCEPT !.permit = p] : p \in {"second", "wrong", "none"}}
    \cup {[Plain(a, "oesu") EXCEPT !.expired = TRUE]}
    \cup {[Plain(a, "oesu") EXCEPT !.cancelled = TRUE]}
    \cup {[Plain(a, "oesu") EXCEPT !.compatible = FALSE]}
MCLibrary == {[c \in Charts |-> IF c = a THEN f ELSE Plain(b, "oesenc")] : f \in Files}
=============================================================================
