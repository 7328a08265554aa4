----------------------------- MODULE MCCatalog ------------------------------
(***************************************************************************)
(* Small instances of CatalogReads: up to two options of up to two values  *)
(* and up to two variants, whose selections include incomplete, foreign    *)
(* and repeated ones, and one id in two spellings.                         *)
(***************************************************************************)
EXTENDS CatalogReads, TLC

Option(i, n, vs) == [id |-> i, name |-> n, values |-> vs]

Size  == Option("o1", "size", <<"s", "m">>)
Short == Option("o1", "size", <<"s">>)
Color == Option("o2", "color", <<"red">>)

OptionLists == {<< >>, <<Size>>, <<Size, Color>>,
                <<Short, [Color EXCEPT !.name = "size"]>>,     \* one name twice
                <<Short, [Color EXCEPT !.values = <<"s">>]>>}  \* one value twice

Variant(i, st, sel) ==
  [id |-> i, status |-> st, fulfillmentClassification |-> "physical", selection |-> sel]

Alone  == {<< >>, <<"s">>, <<"m">>, <<"s", "red">>, <<"s", "s">>, <<"s", "m">>}
Beside == {<< <<"s">>, <<"s">> >>, << <<"s">>, <<"m">> >>, << <<"s">>, <<"red", "m">> >>,
           << <<"s", "red">>, <<"red", "s">> >>, << <<"s", "red">>, <<"red", "m">> >>}

VariantLists ==
  {<<Variant("v1", "active", sel)>> : sel \in Alone}
  \cup {<<Variant("v1", "archived", <<"s">>)>>,
        <<Variant("V1", "archived", <<"s">>), Variant("v2", "active", <<"m">>)>>}
  \cup {<<Variant("v1", "active", pair[1]), Variant("v2", "active", pair[2])>> :
          pair \in Beside}
  \cup {<<Variant("v1", "active", <<"s">>), Variant("V1", "active", <<"m">>)>>}

MCConfigurations == [options : OptionLists, variants : VariantLists]

\* As PostgreSQL writes a uuid.
MCLower(id) == IF id = "V1" THEN "v1" ELSE id

MCDefault == [options |-> << >>, variants |-> <<Variant("v1", "active", << >>)>>]

MCStocked == {[options |-> <<Short>>, variants |-> <<Variant("v1", "active", <<"s">>)>>]}

Interchangeable ==
  Permutations(Requests) \cup Permutations(Products) \cup Permutations(Slugs)
=============================================================================
