---------------------------- MODULE CatalogRules ----------------------------
(***************************************************************************)
(* What the catalogue accepts as the configuration of a product, without   *)
(* any state: options with their values, and variants that select values.  *)
(*                                                                         *)
(* Positions, labels and SKUs are left out: each is compared for           *)
(* duplicates as the names are.  A place in a sequence is a position.      *)
(***************************************************************************)
EXTENDS Naturals, Sequences, FiniteSets, Functions

CONSTANTS
  OptionsPerProduct,   \* CATALOG_LIMITS
  ValuesPerOption,
  VariantsPerProduct

ASSUME LimitsAssumption ==
  {OptionsPerProduct, ValuesPerOption, VariantsPerProduct} \subseteq Nat

ProductStatuses == {"draft", "published", "archived"}
VariantStatuses == {"active", "archived"}

Elements(s) == {s[i] : i \in DOMAIN s}

\* The body of replaceConfiguration, as its DTO has it: a list of options, each
\* with a list of values, and a list of variants, each with a list of selected ones.
IsList(s) == s \in Seq(Elements(s))

IsOption(o) ==
  o = [id |-> o.id, name |-> o.name, values |-> o.values] /\ IsList(o.values)

IsVariant(v) ==
  /\ v = [id |-> v.id, status |-> v.status, selection |-> v.selection,
          fulfillmentClassification |-> v.fulfillmentClassification]
  /\ v.status \in VariantStatuses /\ IsList(v.selection)

WellFormed(c) ==
  /\ c = [options |-> c.options, variants |-> c.variants]
  /\ IsList(c.options) /\ \A o \in Elements(c.options) : IsOption(o)
  /\ IsList(c.variants) /\ \A v \in Elements(c.variants) : IsVariant(v)

OptionIds(c)  == {o.id : o \in Elements(c.options)}
VariantIds(c) == {v.id : v \in Elements(c.variants)}
ValueIds(c)   == UNION {Elements(o.values) : o \in Elements(c.options)}

\* The key of a selection, its value ids sorted.
CombinationKey(v) == Elements(v.selection)

HasActiveVariant(c) == \E v \in Elements(c.variants) : v.status = "active"
-----------------------------------------------------------------------------
(* assertConfigurationConsistency *)

OptionsValid(options) ==
  /\ Len(options) <= OptionsPerProduct
  /\ \A i \in DOMAIN options :
       /\ Len(options[i].values) \in 1 .. ValuesPerOption
       /\ IsInjective(options[i].values)
       /\ \A j \in DOMAIN options \ {i} :
            /\ options[i].name # options[j].name
            /\ Elements(options[i].values) \cap Elements(options[j].values) = {}

\* The options, by id, that a variant's selected values belong to.
SelectedOptions(c, v) ==
  {o.id : o \in {p \in Elements(c.options) :
                   Elements(p.values) \cap Elements(v.selection) # {}}}

SelectionValid(c, v) ==
  /\ IsInjective(v.selection)
  /\ Elements(v.selection) \subseteq ValueIds(c)
  /\ IF c.options = << >>
     THEN Len(c.variants) = 1 /\ v.selection = << >>
     ELSE /\ Len(v.selection) = Len(c.options)
          /\ Cardinality(SelectedOptions(c, v)) = Len(c.options)

\* Mutation: combinations are not compared.
ConsistentButForCombinations(c) ==
  /\ Len(c.variants) \in 1 .. VariantsPerProduct
  /\ OptionsValid(c.options)
  /\ \A i \in DOMAIN c.variants : SelectionValid(c, c.variants[i])

Consistent(c) ==
  /\ Len(c.variants) \in 1 .. VariantsPerProduct
  /\ OptionsValid(c.options)
  /\ \A i \in DOMAIN c.variants :
       /\ SelectionValid(c, c.variants[i])
       /\ \A j \in 1 .. i - 1 :
            CombinationKey(c.variants[i]) # CombinationKey(c.variants[j])

SingleFulfillmentClassification(c) ==
  \A v, w \in Elements(c.variants) :
    v.fulfillmentClassification = w.fulfillmentClassification
-----------------------------------------------------------------------------
(* Commands *)

\* The status a product may go to.
Transitions(from) ==
  CASE from = "draft"     -> {"published", "archived"}
    [] from = "published" -> {"draft", "archived"}
    [] from = "archived"  -> {"draft"}

Publishable(c) ==
  HasActiveVariant(c) /\ Consistent(c) /\ SingleFulfillmentClassification(c)

\* Mutation: selections may change.
ReshapesChoices(existing, desired) ==
  /\ OptionIds(existing) = OptionIds(desired)
  /\ VariantIds(existing) \subseteq VariantIds(desired)

\* assertPostPublicationReshape: dimensions, variants and their selections stay.
Reshapes(existing, desired) ==
  /\ OptionIds(existing) = OptionIds(desired)
  /\ VariantIds(existing) \subseteq VariantIds(desired)
  /\ \A v \in Elements(existing.variants), w \in Elements(desired.variants) :
       v.id = w.id => CombinationKey(v) = CombinationKey(w)
  /\ \A w \in Elements(desired.variants) :
       Elements(w.selection) \cap (ValueIds(existing) \ ValueIds(desired)) = {}

\* What replaceConfiguration checks before it writes.
Replaceable(product, existing, desired) ==
  /\ Consistent(desired)
  /\ SingleFulfillmentClassification(desired)
  /\ product.everPublished => Reshapes(existing, desired)
  /\ product.status = "published" => HasActiveVariant(desired)
-----------------------------------------------------------------------------
(* What a configuration should be, as the contract puts it. *)

\* Variants are different choices of exactly one value of every option, and
\* there is at least one.
Coherent(c) ==
  /\ c.variants # << >>
  /\ \A v \in Elements(c.variants) :
       /\ Elements(v.selection) \subseteq ValueIds(c)
       /\ \A o \in Elements(c.options) :
            Cardinality(Elements(v.selection) \cap Elements(o.values)) = 1
  /\ \A i, j \in DOMAIN c.variants :
       i # j => Elements(c.variants[i].selection) # Elements(c.variants[j].selection)
=============================================================================
