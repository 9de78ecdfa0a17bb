--------------------------- MODULE MCConfigUpdate ---------------------------
(***************************************************************************)
(* What users type: characters that are escaped in HTML or in a url, a     *)
(* character of two bytes, cleared inputs, and values outside the limits.  *)
(***************************************************************************)
EXTENDS ConfigUpdate

AllEdits ==
    {[ip |-> <<77>>, port |-> <<256>>, id |-> <<195, 169>>,
      wuser |-> <<37>>, wpass |-> <<58>>],
     [wuser |-> <<>>, muser |-> <<34>>, mpass |-> <<32>>, id |-> <<43, 32>>],
     [prefix |-> <<33>>, id |-> <<97, 98, 99>>]}

AddressEdit == {[ip |-> <<77>>]}

\* With <<37, 58>> and a word of three bytes, basic_token has no room for both.
TypedWords == {<<>>, <<37>>, <<43>>, <<32>>, <<58>>, <<37, 58>>, <<58, 37, 43>>}
=============================================================================
