-------------------------- MODULE CatalogRegister ---------------------------
(***************************************************************************)
(* What the catalogue promises its staff: every command acts at once, on   *)
(* the product and the configuration as they are at that moment, and       *)
(* counts in the product's version.  Once an old version was written back  *)
(* nothing is promised.                                                    *)
(***************************************************************************)
EXTENDS CatalogRules

CONSTANTS Products, Slugs, Default, None

VARIABLES
  product,   \* product[p]: the row of p, or None
  slugs,     \* slugs[s]: the product s is reserved for, or None
  config,    \* config[p]: the configuration of p
  lost       \* whether an old version was written back

vars == <<product, slugs, config, lost>>

Exists(p) == product[p] # None

Init ==
  /\ \A p \in Products : Exists(p) => product[p].slug \in Slugs
  /\ \A s \in Slugs : slugs[s] # None => Exists(slugs[s].product)
  /\ lost = FALSE

\* The row of p becomes row, one version later.
Update(p, row) ==
  /\ Exists(p)
  /\ product' = [product EXCEPT ![p] = [row EXCEPT !.version = product[p].version + 1]]

Owned(s, p) == slugs[s] # None /\ slugs[s].product = p

Create(p, s) ==
  /\ ~ Exists(p) /\ slugs[s] = None
  /\ product' = [product EXCEPT ![p] = [version |-> 1, status |-> "draft", slug |-> s,
                                        everPublished |-> FALSE]]
  /\ slugs' = [slugs EXCEPT ![s] = [product |-> p, canonical |-> TRUE]]
  /\ config' = [config EXCEPT ![p] = Default]

Edit(p, s) ==
  /\ Update(p, [product[p] EXCEPT !.slug = s])
  /\ slugs[s] = None \/ Owned(s, p)
  /\ slugs' = [x \in Slugs |->
                 IF x = s \/ Owned(x, p)
                 THEN [product |-> p, canonical |-> x = s] ELSE slugs[x]]
  /\ UNCHANGED config

Transition(p, target) ==
  /\ Update(p, [product[p] EXCEPT !.status = target,
                                  !.everPublished = @ \/ target = "published"])
  /\ target \in Transitions(product[p].status)
  /\ target = "published" => Publishable(config[p])
  /\ UNCHANGED <<slugs, config>>

Replace(p) ==
  /\ Update(p, product[p])
  /\ Replaceable(product[p], config[p], config'[p])
  /\ \A other \in Products \ {p} : config'[other] = config[other]
  /\ UNCHANGED slugs

Command ==
  \E p \in Products :
    \/ \E s \in Slugs : Create(p, s) \/ Edit(p, s)
    \/ \E target \in ProductStatuses : Transition(p, target)
    \/ Replace(p)

Next == (Command /\ lost' = lost) \/ lost'

Spec == Init /\ [][Next]_vars
=============================================================================
