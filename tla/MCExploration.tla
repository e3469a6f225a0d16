--------------------------- MODULE MCExploration ---------------------------
(* Two sources of three events, one of which changes while it is read.     *)
(* The two catalogs; a summary or the values of a field, each of one       *)
(* source; a funnel or evidence; and evidence, also of that evidence, or a *)
(* summary of a cohort.                                                    *)
EXTENDS Exploration

MCContent == <<(0 :> <<1, 3>> @@ 1 :> <<1, 4>>), (0 :> <<2>>)>>
MCCustomer == <<1, 2, 1, 2>>
About(kind, sources) == [kind |-> kind, sources |-> sources, cohort |-> FALSE]
MCScript ==
  <<{About("sources", {1, 2})},
    {About("fields", {1, 2})},
    {About("summary", {2}), About("values", {1})},
    {About("funnel", {1, 2}), About("evidence", {1, 2})},
    {About("evidence", {1, 2}), [About("summary", {1, 2}) EXCEPT !.cohort = TRUE]}>>
=============================================================================
