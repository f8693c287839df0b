--------------------------- MODULE MCItemPayloads ---------------------------
(***************************************************************************)
(* Two words, and the lists of custom fields a draft may carry: none, one  *)
(* hidden field, one behind another field.                                 *)
(***************************************************************************)
EXTENDS ItemPayloads

CONSTANTS w1, w2

Lists ==
    LET Text(w) == [kind |-> "Text", value |-> w]
        Secret(w) == [kind |-> "Hidden", value |-> w]
    IN  {<<>>, <<Secret(w1)>>, <<Text(w1), Secret(w2)>>}
=============================================================================
