------------------------- MODULE CatalogReadsProofs -------------------------
(***************************************************************************)
(* Proofs about the reads of the catalogue: what is put together from      *)
(* several statements, while commands go on, is what was stored, or at     *)
(* least what a customer may rely on.                                      *)
(***************************************************************************)
EXTENDS CatalogRegisterProofs

-----------------------------------------------------------------------------
(* What a read has seen so far *)

Shaped(rd) ==
  /\ rd = [kind |-> rd.kind, step |-> rd.step, product |-> rd.product, row |-> rd.row,
           detail |-> rd.detail, slug |-> rd.slug, canonical |-> rd.canonical,
           overtaken |-> rd.overtaken]
  /\ rd.detail = [options |-> rd.detail.options, variants |-> rd.detail.variants]

\* Two reads that differ in what they have found at most.
SameRequest(a, b) ==
  /\ a.kind = b.kind /\ a.product = b.product /\ a.slug = b.slug
  /\ a.canonical = b.canonical

IsRead(rd) ==
  /\ Shaped(rd)
  /\ rd.kind \in Kinds /\ rd.step \in ReadSteps /\ rd.product \in Products
  /\ rd.row \in Rows \cup {NoRow} /\ rd.overtaken \in BOOLEAN
  /\ rd.kind = "slug" => rd.slug \in Slugs /\ OwnedBy(rd.slug, rd.product)
  /\ rd.kind = "slug" /\ rd.row # NoRow => OwnedBy(rd.row.slug, rd.product)
  /\ rd.kind = "contract" => rd.step \in {"readOwner", "answer"} /\ product[rd.product] # None
  /\ rd.step = "readOwner" => rd.kind = "contract"
  /\ rd.step \in {"findProduct", "readOwner"} => rd.row = NoRow
  /\ rd.step = "readSelections" => \A v \in Elements(rd.detail.variants) : IsVariant(v)

\* Where FindProduct does not go on.
Ended(rd) == rd.row = NoRow \/ (rd.kind = "slug" /\ rd.row.status # "published")

Emptied(options) == [i \in DOMAIN options |-> [options[i] EXCEPT !.values = << >>]]
Unselected(variants) == [i \in DOMAIN variants |-> [variants[i] EXCEPT !.selection = << >>]]

\* As long as no command on the product commits, what was read is stored.
SeenStored(rd) ==
  LET p == rd.product
      c == config[p]
  IN  /\ rd.step \notin {"findProduct", "readOwner"} => rd.row = Stored(p)
      /\ rd.kind = "contract" => \E v \in Elements(c.variants) : rd.detail.variants = <<v>>
      /\ rd.kind # "contract" =>
           /\ rd.step = "readValues" => rd.detail.options = Emptied(c.options)
           /\ rd.step \in {"readVariants", "readSelections"} => rd.detail.options = c.options
           /\ rd.step = "readSelections" => rd.detail.variants = Unselected(c.variants)
           /\ rd.step = "answer" /\ ~ Ended(rd) => rd.detail = c

\* Of a product that was published, the variants stay and remain what they are.
VariantsStay(rd) ==
  LET p == rd.product
  IN  rd.kind \in {"slug", "list"} /\ rd.row.status = "published" =>
        /\ product[p] # None /\ product[p].everPublished
        /\ rd.step = "readSelections" =>
             {v.id : v \in Elements(rd.detail.variants)} \subseteq VariantIds(config[p])
        /\ rd.step = "answer" =>
             Choices(Elements(rd.detail.variants)) \subseteq Choices(Elements(config[p].variants))

Sound(rd) ==
  /\ IsRead(rd)
  /\ ~ rd.overtaken => SeenStored(rd)
  /\ rd.kind = "slug" /\ ~ rd.overtaken /\ ~ reverted =>
       (rd.canonical <=> slugs[rd.slug].canonical)
  /\ ~ reverted => VariantsStay(rd)

ReadInv == read # NoRead => Sound(read)
-----------------------------------------------------------------------------
(* Commands, while a read is going on *)

LEMMA WritesFinal ==
  ASSUME Typed, NEW r \in Requests, Commit(r), NEW o \in Products, o # Product(r)
  PROVE  product'[o] = product[o] /\ config'[o] = config[o]
BY CommitRow DEF Commit, Typed, TypeOK

\* The configuration of a product changes with its row.
LEMMA ConfigFollows ==
  ASSUME Typed, NEW r \in Requests, Step(r), NEW p \in Products, product'[p] = product[p]
  PROVE  config'[p] = config[p]
<1>1. CASE UNCHANGED rows
  BY <1>1 DEF rows
<1>2. CASE Create(r)
  <2>1. PICK o \in Products, s \in Slugs :
          /\ product[o] = None
          /\ product' = [product EXCEPT ![o] = NewRow(s)]
          /\ config' = [config EXCEPT ![o] = Default]
    BY <1>2 DEF Create
  <2>2. NewRow(s) # None
    BY NewRowType, NoneAssumption
  <2>3. o # p
    BY <2>1, <2>2 DEF Typed, TypeOK
  <2> QED
    BY <2>1, <2>3 DEF Typed, TypeOK
<1>3. CASE Commit(r)
  <2>1. CASE req[r].kind = "replace"
    <3>1. saw[r].stale = {}
      BY <2>1 DEF Typed, StepsFit, Fits
    <3>2. Saved(r).version = product[Product(r)].version
      BY <3>1 DEF Saved, Columns
    <3>3. /\ product'[Product(r)].version = product[Product(r)].version + 1
          /\ product[Product(r)].version \in Nat
      BY <1>3, <3>2, CommitRow DEF Rows
    <3>4. p # Product(r)
      BY <3>3
    <3> QED
      BY <1>3, <3>4, WritesFinal
  <2>2. CASE req[r].kind # "replace"
    BY <1>3, <2>2 DEF Commit
  <2> QED
    BY <2>1, <2>2
<1> QED
  BY <1>1, <1>2, <1>3, Writes

\* So do its slugs, until an old version is written back.
LEMMA SlugsFollow ==
  ASSUME Typed, SlugInv, VersionInv, NEW r \in Requests, Step(r), ~ reverted',
         NEW p \in Products, product'[p] = product[p], NEW t \in Slugs, OwnedBy(t, p)
  PROVE  slugs'[t] = slugs[t]
<1>1. CASE UNCHANGED slugs
  BY <1>1
<1>2. CASE \E o \in Products, s \in Slugs :
             slugs[s] = None /\ slugs' = [slugs EXCEPT ![s] = [product |-> o, canonical |-> TRUE]]
  BY <1>2 DEF OwnedBy, Typed, TypeOK
<1>3. CASE Commit(r) /\ MovesSlug(r)
  <2>1. PICK o, s : o = Product(r) /\ s = req[r].slug
    OBVIOUS
  <2>2. /\ product'[o].version = product[o].version + 1 /\ product[o].version \in Nat
        /\ o \in Products /\ s \in Slugs /\ slugs' = MovedSlugs(o, s)
    BY <1>3, <2>1, CommitCurrent, CommitRow, SlugShape DEF Commit, Rows
  <2>3. o # p
    BY <2>2
  <2>4. slugs'[t] # None /\ slugs'[t].product = p
    BY OwnedKept
  <2> QED
    BY <2>2, <2>3, <2>4, MovedCanonical
<1> QED
  BY <1>1, <1>2, <1>3, SlugWrites

LEMMA ReshapedChoices ==
  ASSUME NEW c, NEW d, Reshapes(c, d)
  PROVE  /\ VariantIds(c) \subseteq VariantIds(d)
         /\ Choices(Elements(c.variants)) \subseteq Choices(Elements(d.variants))
<1>1. VariantIds(c) \subseteq VariantIds(d)
  BY DEF Reshapes
<1>2. ASSUME NEW v \in Elements(c.variants)
      PROVE  \E w \in Elements(d.variants) :
               <<v.id, CombinationKey(v)>> = <<w.id, CombinationKey(w)>>
  <2>1. PICK w \in Elements(d.variants) : v.id = w.id
    BY <1>1 DEF VariantIds
  <2>2. CombinationKey(v) = CombinationKey(w)
    BY <2>1 DEF Reshapes
  <2> QED
    BY <2>1, <2>2
<1> QED
  BY <1>1, <1>2 DEF Choices

\* What was once published keeps its variants, until an old version is written back.
LEMMA VariantsFollow ==
  ASSUME Typed, ConfigInv, VersionInv, NEW r \in Requests, Step(r), ~ reverted',
         NEW p \in Products, product[p] # None, product[p].everPublished
  PROVE  /\ product'[p] # None /\ product'[p].everPublished
         /\ VariantIds(config[p]) \subseteq VariantIds(config'[p])
         /\ Choices(Elements(config[p].variants)) \subseteq Choices(Elements(config'[p].variants))
<1>1. CASE UNCHANGED rows
  BY <1>1 DEF rows
<1>2. CASE Create(r)
  BY <1>2 DEF Create, Typed, TypeOK
<1>3. CASE Commit(r) /\ p # Product(r)
  BY <1>3, WritesFinal
<1>4. CASE Commit(r) /\ p = Product(r)
  <2>1. /\ Current(r) /\ Saved(r) = Entity(r) /\ saw[r].row = product[p]
        /\ saw[r].row \in Rows /\ req[r] \in Commands
        /\ product'[p] # None /\ product'[p].everPublished = Entity(r).everPublished
    BY <1>4, CommitCurrent, CommitRow, NextColumns, NoneAssumption DEF Current
  <2>2. product'[p].everPublished
    BY <2>1, EntityColumns, CommandShape
  <2>3. CASE req[r].kind = "replace"
    <3>1. Replaceable(product[p], config[p], req[r].body)
      BY <1>4, <2>1, <2>3 DEF Current, Commit
    <3>2. Replaceable(product[p], config[p], config'[p])
      BY <1>4, <2>3, <3>1, Stores, FoldedReplaceable
    <3>3. Reshapes(config[p], config'[p])
      BY <3>2 DEF Replaceable
    <3> QED
      BY <2>1, <2>2, <3>3, ReshapedChoices
  <2>4. CASE req[r].kind # "replace"
    BY <1>4, <2>1, <2>2, <2>4 DEF Commit
  <2> QED
    BY <2>3, <2>4
<1> QED
  BY <1>1, <1>2, <1>3, <1>4, Writes

LEMMA Overtaking ==
  ASSUME NEW rd, Shaped(rd), NEW n, n = [rd EXCEPT !.overtaken = TRUE]
  PROVE  /\ Shaped(n) /\ SameRequest(n, rd) /\ n.overtaken = TRUE
         /\ n.step = rd.step /\ n.row = rd.row /\ n.detail = rd.detail
BY DEF Shaped, SameRequest

LEMMA WatchStep ==
  ASSUME Typed, ConfigInv, SlugInv, VersionInv, ReadInv, NEW r \in Requests, Step(r), Watch
  PROVE  ReadInv'
<1>1. CASE read = NoRead
  BY <1>1 DEF Watch, ReadInv
<1>2. CASE read # NoRead
  <2>0. PICK rd : rd = read
    OBVIOUS
  <2>1. /\ IsRead(rd) /\ rd.product \in Products
        /\ ~ rd.overtaken => SeenStored(rd)
        /\ rd.kind = "slug" /\ ~ rd.overtaken /\ ~ reverted =>
             (rd.canonical <=> slugs[rd.slug].canonical)
        /\ ~ reverted => VariantsStay(rd)
    BY <1>2, <2>0 DEF ReadInv, Sound, IsRead
  <2>2. PICK n : n = read'
    OBVIOUS
  <2>3. /\ Shaped(n) /\ SameRequest(n, rd) /\ n.overtaken \in BOOLEAN
        /\ n.step = rd.step /\ n.row = rd.row /\ n.detail = rd.detail
        /\ ~ n.overtaken => ~ rd.overtaken /\ product'[rd.product] = product[rd.product]
    <3>1. CASE product'[rd.product] # product[rd.product]
      <4>1. n = [rd EXCEPT !.overtaken = TRUE]
        BY <1>2, <2>0, <2>2, <3>1 DEF Watch
      <4> QED
        BY <2>1, <4>1, Overtaking DEF IsRead
    <3>2. CASE product'[rd.product] = product[rd.product]
      <4>1. n = rd
        BY <1>2, <2>0, <2>2, <3>2 DEF Watch
      <4> QED
        BY <2>1, <3>2, <4>1 DEF IsRead, SameRequest
    <3> QED
      BY <3>1, <3>2
  <2>4. IsRead(n)'
    <3>1. rd.kind = "slug" => slugs'[rd.slug] # None /\ slugs'[rd.slug].product = rd.product
      BY <2>1, OwnedKept DEF IsRead
    <3>2. rd.kind = "contract" => product'[rd.product] # None
      BY <2>1, RowsType DEF IsRead, Typed
    <3>3. rd.kind = "slug" /\ rd.row # NoRow =>
            slugs'[rd.row.slug] # None /\ slugs'[rd.row.slug].product = rd.product
      <4>1. rd.row # NoRow => rd.row.slug \in Slugs
        BY <2>1 DEF IsRead, Rows
      <4> QED
        BY <2>1, <4>1, OwnedKept DEF IsRead
    <3> QED
      BY <2>1, <2>3, <3>1, <3>2, <3>3 DEF IsRead, OwnedBy, SameRequest
  <2>5. ASSUME ~ n.overtaken
        PROVE  SeenStored(n)'
    <3>1. config'[rd.product] = config[rd.product]
      BY <2>1, <2>3, <2>5, ConfigFollows
    <3> QED
      BY <2>1, <2>3, <2>5, <3>1 DEF SeenStored, Stored, Ended, SameRequest
  <2>6. ASSUME n.kind = "slug", ~ n.overtaken, ~ reverted'
        PROVE  n.canonical <=> slugs'[n.slug].canonical
    <3>1. ~ reverted
      BY <2>6, Writes, CommitCurrent DEF rows, Create
    <3>2. slugs'[rd.slug] = slugs[rd.slug]
      BY <2>1, <2>3, <2>6, SlugsFollow DEF IsRead, SameRequest
    <3> QED
      BY <2>1, <2>3, <2>6, <3>1, <3>2 DEF SameRequest
  <2>7. ASSUME ~ reverted'
        PROVE  VariantsStay(n)'
    <3>1. ~ reverted
      BY <2>7, Writes, CommitCurrent DEF rows, Create
    <3> SUFFICES ASSUME rd.kind \in {"slug", "list"}, rd.row.status = "published"
                 PROVE  /\ product'[rd.product] # None /\ product'[rd.product].everPublished
                        /\ rd.step = "readSelections" =>
                             {v.id : v \in Elements(rd.detail.variants)}
                               \subseteq VariantIds(config'[rd.product])
                        /\ rd.step = "answer" =>
                             Choices(Elements(rd.detail.variants))
                               \subseteq Choices(Elements(config'[rd.product].variants))
      BY <2>3 DEF VariantsStay, SameRequest
    <3>2. /\ product[rd.product] # None /\ product[rd.product].everPublished
          /\ rd.step = "readSelections" =>
               {v.id : v \in Elements(rd.detail.variants)}
                 \subseteq VariantIds(config[rd.product])
          /\ rd.step = "answer" =>
               Choices(Elements(rd.detail.variants))
                 \subseteq Choices(Elements(config[rd.product].variants))
      BY <2>1, <3>1 DEF VariantsStay
    <3> QED
      BY <2>1, <2>7, <3>2, VariantsFollow
  <2> QED
    BY <2>2, <2>4, <2>5, <2>6, <2>7 DEF ReadInv, Sound
<1> QED
  BY <1>1, <1>2
-----------------------------------------------------------------------------
(* What the four statements put together *)

LEMMA ByIdFinds ==
  ASSUME NEW entries, NEW id, NEW default, NEW e \in Elements(entries), e.id = id
  PROVE  ById(entries, id, default) \in Elements(entries) /\ ById(entries, id, default).id = id
BY DEF ById

\* The options of a configuration have different ids: the selection of a variant,
\* counted by options, would come out too small otherwise.
LEMMA OptionsById ==
  ASSUME NEW c, WellFormed(c), Consistent(c),
         NEW o \in Elements(c.options), NEW w \in Elements(c.options), o.id = w.id
  PROVE  o = w
<1> DEFINE n == Len(c.options)
           ids == [i \in 1 .. n |-> c.options[i].id]
<1>1. n \in Nat /\ DOMAIN c.options = 1 .. n /\ c.options # << >>
  BY ListShape DEF WellFormed, Elements
<1>2. Elements(ids) = OptionIds(c)
  BY <1>1 DEF Elements, OptionIds
<1>3. IsList(ids) /\ Len(ids) = n
  <2>1. ids \in [1 .. n -> Elements(ids)]
    BY DEF Elements
  <2> QED
    BY <1>1, <2>1 DEF IsList
<1>4. IsFiniteSet(OptionIds(c)) /\ Cardinality(OptionIds(c)) <= n
  <2>1. ids \in Surjection(1 .. n, OptionIds(c))
    BY <1>2 DEF Surjection, Elements
  <2>2. IsFiniteSet(1 .. n) /\ Cardinality(1 .. n) = n
    BY <1>1, Places
  <2> QED
    BY <2>1, <2>2, FS_Surjection
<1>5. n <= Cardinality(OptionIds(c))
  <2>1. SelectionValid(c, c.variants[1])
    BY ListShape DEF WellFormed, Consistent
  <2>2. Cardinality(SelectedOptions(c, c.variants[1])) = n
    BY <1>1, <2>1 DEF SelectionValid
  <2>3. SelectedOptions(c, c.variants[1]) \subseteq OptionIds(c)
    BY DEF SelectedOptions, OptionIds
  <2> QED
    BY <1>4, <2>2, <2>3, FS_Subset
<1>6. Cardinality(OptionIds(c)) = n
  BY <1>1, <1>4, <1>5, FS_CardinalityType
<1>7. IsInjective(ids)
  BY <1>2, <1>3, <1>6, RepeatedNever
<1>8. PICK i \in 1 .. n, j \in 1 .. n : o = c.options[i] /\ w = c.options[j]
  BY <1>1 DEF Elements
<1>9. ids[i] = ids[j]
  BY <1>8
<1> QED
  BY <1>7, <1>8, <1>9 DEF IsInjective

LEMMA OptionFound ==
  ASSUME NEW c, WellFormed(c), Consistent(c), NEW o \in Elements(c.options),
         NEW id, id = o.id, NEW default
  PROVE  ById(c.options, id, default) = o
<1>1. PICK w : w = ById(c.options, id, default)
  OBVIOUS
<1>2. w \in Elements(c.options) /\ w.id = id
  BY <1>1, ByIdFinds
<1>3. w = o
  BY <1>2, OptionsById
<1> QED
  BY <1>1, <1>3

LEMMA VariantFound ==
  ASSUME NEW c, WellFormed(c), DistinctVariants(c), NEW v \in Elements(c.variants),
         NEW id, id = v.id, NEW default
  PROVE  ById(c.variants, id, default) = v
<1>1. PICK w : w = ById(c.variants, id, default)
  OBVIOUS
<1>2. w \in Elements(c.variants) /\ w.id = id
  BY <1>1, ByIdFinds
<1>3. w = v
  BY <1>2, VariantsById
<1> QED
  BY <1>1, <1>3

Refilled(options, stored) ==
  [i \in DOMAIN options |->
     [options[i] EXCEPT !.values = ById(stored, options[i].id, options[i]).values]]

Reselected(variants, stored) ==
  [i \in DOMAIN variants |->
     [variants[i] EXCEPT !.selection = ById(stored, variants[i].id, variants[i]).selection]]

LEMMA NoOptions ==
  ASSUME NEW c, WellFormed(c), c.options = << >>
  PROVE  Emptied(c.options) = c.options
BY DEF Emptied

LEMMA OptionParts ==
  ASSUME NEW o, IsOption(o), NEW e, e = [o EXCEPT !.values = << >>],
         NEW f, f = [e EXCEPT !.values = o.values]
  PROVE  e.id = o.id /\ f = o
BY DEF IsOption

LEMMA VariantParts ==
  ASSUME NEW v, IsVariant(v), NEW e, e = [v EXCEPT !.selection = << >>],
         NEW f, f = [e EXCEPT !.selection = v.selection]
  PROVE  e.id = v.id /\ f = v
BY DEF IsVariant

LEMMA RefillRestores ==
  ASSUME NEW c, WellFormed(c), Consistent(c)
  PROVE  Refilled(Emptied(c.options), c.options) = c.options
<1> DEFINE n == Len(c.options)
           e == Emptied(c.options)
           f == Refilled(e, c.options)
<1>1. /\ n \in Nat /\ DOMAIN c.options = 1 .. n
      /\ c.options \in [1 .. n -> Elements(c.options)]
      /\ \A o \in Elements(c.options) : IsOption(o)
  BY ListShape DEF WellFormed
<1>2. DOMAIN e = 1 .. n /\ f = [i \in 1 .. n |-> f[i]]
  BY <1>1 DEF Emptied, Refilled
<1>3. ASSUME NEW i \in 1 .. n
      PROVE  f[i] = c.options[i]
  <2> DEFINE o == c.options[i]
  <2>1. o \in Elements(c.options) /\ IsOption(o)
    BY <1>1
  <2>2. e[i] = [o EXCEPT !.values = << >>]
    BY <1>1 DEF Emptied
  <2>3. e[i].id = o.id
    BY <2>1, <2>2, OptionParts
  <2>4. ById(c.options, e[i].id, e[i]) = o
    <3>1. PICK d : d = e[i]
      OBVIOUS
    <3>2. o \in Elements(c.options) /\ d.id = o.id
      BY <2>1, <2>3, <3>1
    <3> HIDE DEF e, o
    <3>3. \A x : x = d.id => ById(c.options, x, d) = o
      BY <3>2, OptionFound
    <3> QED
      BY <3>1, <3>3
  <2>5. f[i] = [e[i] EXCEPT !.values = o.values]
    BY <1>2, <2>4 DEF Refilled
  <2> QED
    BY <2>1, <2>2, <2>5, OptionParts
<1> QED
  BY <1>1, <1>2, <1>3

LEMMA SelectRestores ==
  ASSUME NEW c, WellFormed(c), DistinctVariants(c)
  PROVE  Reselected(Unselected(c.variants), c.variants) = c.variants
<1> DEFINE n == Len(c.variants)
           e == Unselected(c.variants)
           f == Reselected(e, c.variants)
<1>1. /\ n \in Nat /\ DOMAIN c.variants = 1 .. n
      /\ c.variants \in [1 .. n -> Elements(c.variants)]
      /\ \A v \in Elements(c.variants) : IsVariant(v)
  BY ListShape DEF WellFormed
<1>2. DOMAIN e = 1 .. n /\ f = [i \in 1 .. n |-> f[i]]
  BY <1>1 DEF Unselected, Reselected
<1>3. ASSUME NEW i \in 1 .. n
      PROVE  f[i] = c.variants[i]
  <2> DEFINE v == c.variants[i]
  <2>1. v \in Elements(c.variants) /\ IsVariant(v)
    BY <1>1
  <2>2. e[i] = [v EXCEPT !.selection = << >>]
    BY <1>1 DEF Unselected
  <2>3. e[i].id = v.id
    BY <2>1, <2>2, VariantParts
  <2>4. ById(c.variants, e[i].id, e[i]) = v
    <3> HIDE DEF e, f, v
    <3> QED
      BY <2>1, <2>3, VariantFound
  <2>5. f[i] = [e[i] EXCEPT !.selection = ById(c.variants, e[i].id, e[i]).selection]
    <3>1. f = [k \in DOMAIN e |->
                [e[k] EXCEPT !.selection = ById(c.variants, e[k].id, e[k]).selection]]
      BY DEF Reselected
    <3> HIDE DEF e, f
    <3> QED
      BY <1>2, <3>1
  <2>6. f[i] = [e[i] EXCEPT !.selection = v.selection]
    BY <2>4, <2>5
  <2> QED
    BY <2>1, <2>2, <2>6, VariantParts
<1> QED
  BY <1>1, <1>2, <1>3

LEMMA UnselectedShape ==
  ASSUME NEW c, WellFormed(c)
  PROVE  /\ \A v \in Elements(Unselected(c.variants)) : IsVariant(v)
         /\ {v.id : v \in Elements(Unselected(c.variants))} \subseteq VariantIds(c)
<1> SUFFICES ASSUME NEW e \in Elements(Unselected(c.variants))
             PROVE  IsVariant(e) /\ e.id \in VariantIds(c)
  OBVIOUS
<1>1. PICK v \in Elements(c.variants) : e = [v EXCEPT !.selection = << >>]
  BY DEF Unselected, Elements
<1>2. IsVariant(v)
  BY DEF WellFormed
<1>3. /\ e = [id |-> e.id, status |-> e.status, selection |-> e.selection,
              fulfillmentClassification |-> e.fulfillmentClassification]
      /\ e.id = v.id /\ e.status = v.status /\ e.selection = << >>
  BY <1>1, <1>2 DEF IsVariant
<1>4. IsList(<< >>)
  BY DEF IsList
<1> QED
  BY <1>2, <1>3, <1>4 DEF IsVariant, VariantIds

LEMMA SelectedPart ==
  ASSUME NEW v, IsVariant(v), NEW s, NEW e, e = [v EXCEPT !.selection = s]
  PROVE  e.id = v.id /\ e.selection = s
BY DEF IsVariant

\* A variant that is still stored gets the selection that is stored.
LEMMA SelectedAsStored ==
  ASSUME NEW variants, \A v \in Elements(variants) : IsVariant(v),
         NEW stored, {v.id : v \in Elements(variants)} \subseteq {v.id : v \in Elements(stored)}
  PROVE  Choices(Elements(Reselected(variants, stored))) \subseteq Choices(Elements(stored))
<1> SUFFICES ASSUME NEW e \in Elements(Reselected(variants, stored))
             PROVE  \E w \in Elements(stored) :
                      <<e.id, CombinationKey(e)>> = <<w.id, CombinationKey(w)>>
  BY DEF Choices
<1>1. PICK v \in Elements(variants) :
        e = [v EXCEPT !.selection = ById(stored, v.id, v).selection]
  BY DEF Reselected, Elements
<1>2. PICK w : w = ById(stored, v.id, v)
  OBVIOUS
<1>3. w \in Elements(stored) /\ w.id = v.id
  <2>1. PICK u \in Elements(stored) : u.id = v.id
    OBVIOUS
  <2> QED
    BY <1>2, <2>1, ByIdFinds
<1>4. e.id = v.id /\ e.selection = w.selection
  BY <1>1, <1>2, SelectedPart
<1> QED
  BY <1>3, <1>4 DEF CombinationKey
-----------------------------------------------------------------------------
(* Steps of a read *)

LEMMA SoundKept ==
  ASSUME UNCHANGED rows, NEW n, Sound(n), read' = n
  PROVE  ReadInv'
BY DEF rows, ReadInv, Sound, IsRead, SeenStored, VariantsStay, OwnedBy, Stored

\* A first statement.
LEMMA BeginStep ==
  ASSUME Typed, NEW r,
         ResolveSlug(r) \/ ListPublished(r) \/ GetDetail(r) \/ ReadVariant(r)
  PROVE  UNCHANGED rows /\ Sound(read')
<1>1. CASE ResolveSlug(r)
  <2>0. PICK s \in Slugs :
          /\ slugs[s] # None /\ UNCHANGED rows
          /\ read' = [Begun("slug", slugs[s].product, "findProduct")
                        EXCEPT !.slug = s, !.canonical = slugs[s].canonical]
    BY <1>1 DEF ResolveSlug, Begin
  <2>1. PICK n :
          /\ slugs[s] # None /\ read' = n /\ UNCHANGED rows
          /\ n = [kind |-> "slug", step |-> "findProduct", product |-> slugs[s].product,
                  row |-> NoRow, detail |-> NoDetail, slug |-> s,
                  canonical |-> slugs[s].canonical, overtaken |-> FALSE]
    BY <2>0 DEF Begun
  <2>2. slugs[s].product \in Products
    BY <2>1 DEF Typed, TypeOK, Reservations
  <2>3. /\ n.kind = "slug" /\ n.product = slugs[s].product
        /\ n.step = "findProduct" /\ n.row = NoRow /\ n.detail = NoDetail
        /\ n.overtaken = FALSE /\ n.slug = s /\ n.canonical = slugs[s].canonical
        /\ n = [kind |-> n.kind, step |-> n.step, product |-> n.product, row |-> n.row,
                detail |-> n.detail, slug |-> n.slug, canonical |-> n.canonical,
                overtaken |-> n.overtaken]
    BY <2>1
  <2>4. Shaped(n)
    BY <2>3 DEF Shaped, NoDetail
  <2>5. IsRead(n)
    BY <2>1, <2>2, <2>3, <2>4 DEF IsRead, Kinds, ReadSteps, OwnedBy
  <2> QED
    BY <2>1, <2>3, <2>5 DEF Sound, SeenStored, VariantsStay, NoRow
<1>2. CASE ListPublished(r) \/ GetDetail(r)
  <2>0. PICK p \in Products, kind \in {"list", "detail"} :
          read' = Begun(kind, p, "findProduct") /\ UNCHANGED rows
    BY <1>2 DEF ListPublished, GetDetail, Begin, Listed
  <2>1. PICK n : n = Begun(kind, p, "findProduct") /\ read' = n /\ UNCHANGED rows
    BY <2>0
  <2>2. /\ Shaped(n) /\ n.kind = kind /\ n.product = p /\ n.step = "findProduct"
        /\ n.row = NoRow /\ n.overtaken = FALSE
    BY <2>1 DEF Begun, Shaped, NoDetail
  <2>3. IsRead(n)
    BY <2>1, <2>2 DEF IsRead, Kinds, ReadSteps
  <2> QED
    BY <2>1, <2>2, <2>3 DEF Sound, SeenStored, VariantsStay, NoRow
<1>3. CASE ReadVariant(r)
  <2>0. PICK p \in Products, v \in UNION {Elements(config[q].variants) : q \in Products} :
          /\ v \in Elements(config[p].variants) /\ product[p] # None /\ UNCHANGED rows
          /\ read' = [Begun("contract", p, "readOwner") EXCEPT !.detail.variants = <<v>>]
    BY <1>3 DEF ReadVariant, Begin
  <2>1. PICK n :
          /\ n = [Begun("contract", p, "readOwner") EXCEPT !.detail.variants = <<v>>]
          /\ read' = n /\ UNCHANGED rows
    BY <2>0
  <2>2. /\ Shaped(n) /\ n.kind = "contract" /\ n.product = p /\ n.step = "readOwner"
        /\ n.row = NoRow /\ n.overtaken = FALSE /\ n.detail.variants = <<v>>
    BY <2>1 DEF Begun, Shaped, NoDetail
  <2>3. IsRead(n)
    BY <2>0, <2>2 DEF IsRead, Kinds, ReadSteps
  <2> QED
    BY <2>0, <2>1, <2>2, <2>3 DEF Sound, SeenStored, VariantsStay
<1> QED
  BY <1>1, <1>2, <1>3

\* What any other statement leaves alone.
Onward(n, rd) ==
  /\ Shaped(n) /\ SameRequest(n, rd) /\ n.overtaken = rd.overtaken
  /\ n.step \in ReadSteps \ {"findProduct", "readOwner"}
  /\ n.kind = "contract" => n.step = "answer"
  /\ n.row \in Rows \cup {NoRow}

LEMMA OnwardSound ==
  ASSUME NEW rd, Sound(rd), NEW n, Onward(n, rd),
         n.kind = "slug" /\ n.row # NoRow => n.row = rd.row \/ OwnedBy(n.row.slug, n.product),
         n.step = "readSelections" => \A v \in Elements(n.detail.variants) : IsVariant(v),
         ~ n.overtaken => SeenStored(n),
         ~ reverted => VariantsStay(n)
  PROVE  Sound(n)
<1>1. IsRead(n)
  BY DEF Sound, IsRead, Onward, SameRequest
<1>2. n.kind = "slug" /\ ~ n.overtaken /\ ~ reverted =>
        (n.canonical <=> slugs[n.slug].canonical)
  BY DEF Sound, Onward, SameRequest
<1> QED
  BY <1>1, <1>2 DEF Sound

LEMMA StoredType ==
  ASSUME Typed, NEW p \in Products
  PROVE  /\ Stored(p) \in Rows \cup {NoRow}
         /\ product[p] # None => Stored(p) = product[p] /\ product[p] \in Rows
         /\ Stored(p).status = "published" => product[p] # None
BY DEF Stored, NoRow, Typed, TypeOK

LEMMA OwnerStep ==
  ASSUME Typed, ReadInv, NEW r, ReadOwner(r)
  PROVE  Sound(read')
<1>1. PICK rd : rd = read
  OBVIOUS
<1>2. Sound(rd) /\ rd.step = "readOwner"
  BY <1>1 DEF ReadOwner, Continue, ReadInv, NoRead
<1>3. IsRead(rd) /\ rd.kind = "contract" /\ rd.product \in Products
  BY <1>2 DEF Sound, IsRead
<1>4. PICK row : row = Stored(rd.product)
  OBVIOUS
<1>5. PICK n : n = read' /\ n = [rd EXCEPT !.row = row, !.step = "answer"]
  BY <1>1, <1>4 DEF ReadOwner
<1>6. /\ Shaped(n) /\ SameRequest(n, rd) /\ n.overtaken = rd.overtaken
      /\ n.step = "answer" /\ n.row = row /\ n.detail = rd.detail
  BY <1>3, <1>5 DEF IsRead, Shaped, SameRequest
<1>7. Onward(n, rd) /\ n.kind = "contract" /\ n.product = rd.product
  BY <1>3, <1>4, <1>6, StoredType DEF Onward, ReadSteps, SameRequest
<1>8. ~ n.overtaken => SeenStored(n)
  BY <1>2, <1>3, <1>4, <1>6, <1>7 DEF Sound, SeenStored
<1>9. VariantsStay(n)
  BY <1>7 DEF VariantsStay
<1>10. Sound(n)
  BY <1>2, <1>6, <1>7, <1>8, <1>9, OnwardSound
<1> QED
  BY <1>5, <1>10

LEMMA FindStep ==
  ASSUME Typed, SlugInv, VersionInv, ReadInv, NEW r, FindProduct(r)
  PROVE  Sound(read')
<1>1. PICK rd : rd = read
  OBVIOUS
<1>2. Sound(rd) /\ rd.step = "findProduct"
  BY <1>1 DEF FindProduct, Continue, ReadInv, NoRead
<1>3. IsRead(rd) /\ rd.kind # "contract" /\ rd.product \in Products
  BY <1>2 DEF Sound, IsRead
<1>4. PICK row : row = Stored(rd.product)
  OBVIOUS
<1>5. PICK ends \in BOOLEAN :
        ends <=> (row = NoRow \/ (rd.kind = "slug" /\ row.status # "published"))
  OBVIOUS
<1>6. PICK n : n = read' /\ n = [rd EXCEPT !.row = row,
                                         !.step = IF ends THEN "answer" ELSE "readOptions"]
  BY <1>1, <1>4, <1>5 DEF FindProduct
<1>7. /\ Shaped(n) /\ SameRequest(n, rd) /\ n.overtaken = rd.overtaken /\ n.row = row
      /\ n.step = IF ends THEN "answer" ELSE "readOptions"
  BY <1>3, <1>6 DEF IsRead, Shaped, SameRequest
<1>8. Onward(n, rd) /\ n.kind = rd.kind /\ n.product = rd.product
      /\ n.step \in {"answer", "readOptions"} /\ (n.step = "answer" => Ended(n))
  BY <1>3, <1>4, <1>5, <1>7, StoredType DEF Onward, ReadSteps, SameRequest, Ended
<1>9. SeenStored(n)
  BY <1>3, <1>4, <1>7, <1>8 DEF SeenStored
<1>10. ASSUME ~ reverted
       PROVE  VariantsStay(n)
  <2> SUFFICES ASSUME n.kind \in {"slug", "list"}, row.status = "published"
               PROVE  product[n.product] # None /\ product[n.product].everPublished
                      /\ n.step # "answer"
    BY <1>7, <1>8 DEF VariantsStay
  <2>1. product[n.product] # None /\ row = product[n.product]
    BY <1>3, <1>4, <1>8, StoredType
  <2>2. product[n.product].everPublished
    BY <1>3, <1>8, <1>10, <2>1 DEF VersionInv, Settled
  <2>3. row # NoRow
    BY DEF NoRow
  <2> QED
    BY <1>7, <1>8, <2>1, <2>2, <2>3 DEF Ended
<1>11. n.row # NoRow => OwnedBy(n.row.slug, n.product)
  <2>1. n.row # NoRow => product[rd.product] # None /\ n.row = product[rd.product]
    BY <1>4, <1>7 DEF Stored
  <2> QED
    BY <1>3, <1>8, <2>1 DEF SlugInv, Reserved
<1>12. Sound(n)
  BY <1>2, <1>8, <1>9, <1>10, <1>11, OnwardSound
<1> QED
  BY <1>6, <1>12

\* loadDetail's statements are for a product that was found.
LEMMA Loading ==
  ASSUME Typed, ConfigInv, ReadInv, read # NoRead,
         read.step \in {"readOptions", "readValues", "readVariants", "readSelections"}
  PROVE  /\ IsRead(read) /\ read.kind # "contract" /\ read.product \in Products
         /\ WellFormed(config[read.product]) /\ Consistent(config[read.product])
         /\ DistinctVariants(config[read.product])
<1>1. IsRead(read) /\ read.kind # "contract" /\ read.product \in Products
  BY DEF ReadInv, Sound, IsRead
<1> QED
  BY <1>1, BodiesShape DEF Typed, TypeOK, ConfigInv, Accepted

LEMMA OptionsStep ==
  ASSUME Typed, ConfigInv, ReadInv, NEW r, ReadOptions(r)
  PROVE  Sound(read')
<1>1. PICK rd : rd = read
  OBVIOUS
<1>2. read # NoRead /\ Sound(rd) /\ rd.step = "readOptions"
  BY <1>1 DEF ReadOptions, Continue, ReadInv, NoRead
<1>3. /\ IsRead(rd) /\ rd.kind # "contract" /\ rd.product \in Products
      /\ WellFormed(config[rd.product])
  BY <1>1, <1>2, Loading
<1>4. PICK options : options = config[rd.product].options
  OBVIOUS
<1>5. PICK e : e = Emptied(options)
  OBVIOUS
<1>6. PICK s \in {"readVariants", "readValues"} :
        s = IF options = << >> THEN "readVariants" ELSE "readValues"
  OBVIOUS
<1>7. PICK n : n = read' /\ n = [rd EXCEPT !.detail.options = e, !.step = s]
  BY <1>1, <1>4, <1>5, <1>6 DEF ReadOptions, Emptied
<1>8. /\ Shaped(n) /\ SameRequest(n, rd) /\ n.overtaken = rd.overtaken /\ n.row = rd.row
      /\ n.step = s /\ n.detail.options = e
  BY <1>3, <1>7 DEF IsRead, Shaped, SameRequest
<1>9. Onward(n, rd) /\ n.kind = rd.kind /\ n.product = rd.product
  BY <1>3, <1>8 DEF Onward, ReadSteps, SameRequest, IsRead
<1>10. s = "readVariants" => e = options
  BY <1>3, <1>4, <1>5, <1>6, NoOptions
<1>11. ~ n.overtaken => SeenStored(n)
  BY <1>2, <1>3, <1>4, <1>5, <1>6, <1>8, <1>9, <1>10 DEF Sound, SeenStored
<1>12. ~ reverted => VariantsStay(n)
  BY <1>2, <1>6, <1>8, <1>9 DEF Sound, VariantsStay
<1>13. Sound(n)
  BY <1>2, <1>6, <1>8, <1>9, <1>11, <1>12, OnwardSound
<1> QED
  BY <1>7, <1>13

LEMMA ValuesStep ==
  ASSUME Typed, ConfigInv, ReadInv, NEW r, ReadValues(r)
  PROVE  Sound(read')
<1>1. PICK rd : rd = read
  OBVIOUS
<1>2. read # NoRead /\ Sound(rd) /\ rd.step = "readValues"
  BY <1>1 DEF ReadValues, Continue, ReadInv, NoRead
<1>3. /\ IsRead(rd) /\ rd.kind # "contract" /\ rd.product \in Products
      /\ WellFormed(config[rd.product]) /\ Consistent(config[rd.product])
  BY <1>1, <1>2, Loading
<1>4. PICK e : e = Refilled(rd.detail.options, config[rd.product].options)
  OBVIOUS
<1>5. PICK n : n = read' /\ n = [rd EXCEPT !.detail.options = e, !.step = "readVariants"]
  BY <1>1, <1>4 DEF ReadValues, Refilled
<1>6. /\ Shaped(n) /\ SameRequest(n, rd) /\ n.overtaken = rd.overtaken /\ n.row = rd.row
      /\ n.step = "readVariants" /\ n.detail.options = e
  BY <1>3, <1>5 DEF IsRead, Shaped, SameRequest
<1>7. Onward(n, rd) /\ n.kind = rd.kind /\ n.product = rd.product
  BY <1>3, <1>6 DEF Onward, ReadSteps, SameRequest, IsRead
<1>8. ASSUME ~ n.overtaken
      PROVE  SeenStored(n)
  <2>1. rd.detail.options = Emptied(config[rd.product].options) /\ rd.row = Stored(rd.product)
    BY <1>2, <1>3, <1>6, <1>8 DEF Sound, SeenStored
  <2>2. e = config[rd.product].options
    BY <1>3, <1>4, <2>1, RefillRestores
  <2> QED
    BY <1>3, <1>6, <1>7, <2>1, <2>2 DEF SeenStored
<1>9. ~ reverted => VariantsStay(n)
  BY <1>2, <1>6, <1>7 DEF Sound, VariantsStay
<1>10. Sound(n)
  BY <1>2, <1>6, <1>7, <1>8, <1>9, OnwardSound
<1> QED
  BY <1>5, <1>10

LEMMA VariantsStep ==
  ASSUME Typed, ConfigInv, ReadInv, NEW r, ReadVariants(r)
  PROVE  Sound(read')
<1>1. PICK rd : rd = read
  OBVIOUS
<1>2. read # NoRead /\ Sound(rd) /\ rd.step = "readVariants"
  BY <1>1 DEF ReadVariants, Continue, ReadInv, NoRead
<1>3. /\ IsRead(rd) /\ rd.kind # "contract" /\ rd.product \in Products
      /\ WellFormed(config[rd.product])
  BY <1>1, <1>2, Loading
<1>4. PICK e : e = Unselected(config[rd.product].variants)
  OBVIOUS
<1>5. PICK n : n = read' /\ n = [rd EXCEPT !.detail.variants = e, !.step = "readSelections"]
  BY <1>1, <1>4 DEF ReadVariants, Unselected
<1>6. /\ Shaped(n) /\ SameRequest(n, rd) /\ n.overtaken = rd.overtaken /\ n.row = rd.row
      /\ n.step = "readSelections"
      /\ n.detail.options = rd.detail.options /\ n.detail.variants = e
  BY <1>3, <1>5 DEF IsRead, Shaped, SameRequest
<1>7. Onward(n, rd) /\ n.kind = rd.kind /\ n.product = rd.product
  BY <1>3, <1>6 DEF Onward, ReadSteps, SameRequest, IsRead
<1>8. /\ \A v \in Elements(e) : IsVariant(v)
      /\ {v.id : v \in Elements(e)} \subseteq VariantIds(config[rd.product])
  BY <1>3, <1>4, UnselectedShape
<1>9. ~ n.overtaken => SeenStored(n)
  BY <1>2, <1>3, <1>4, <1>6, <1>7 DEF Sound, SeenStored
<1>10. ~ reverted => VariantsStay(n)
  BY <1>2, <1>6, <1>7, <1>8 DEF Sound, VariantsStay
<1>11. Sound(n)
  BY <1>2, <1>6, <1>7, <1>8, <1>9, <1>10, OnwardSound
<1> QED
  BY <1>5, <1>11

LEMMA SelectionsStep ==
  ASSUME Typed, ConfigInv, ReadInv, NEW r, ReadSelections(r)
  PROVE  Sound(read')
<1>1. PICK rd : rd = read
  OBVIOUS
<1>2. read # NoRead /\ Sound(rd) /\ rd.step = "readSelections"
  BY <1>1 DEF ReadSelections, Continue, ReadInv, NoRead
<1>3. /\ IsRead(rd) /\ rd.kind # "contract" /\ rd.product \in Products
      /\ WellFormed(config[rd.product]) /\ DistinctVariants(config[rd.product])
  BY <1>1, <1>2, Loading
<1>4. PICK e : e = Reselected(rd.detail.variants, config[rd.product].variants)
  OBVIOUS
<1>5. PICK n : n = read' /\ n = [rd EXCEPT !.detail.variants = e, !.step = "answer"]
  BY <1>1, <1>4 DEF ReadSelections, Reselected
<1>6. /\ Shaped(n) /\ SameRequest(n, rd) /\ n.overtaken = rd.overtaken /\ n.row = rd.row
      /\ n.step = "answer"
      /\ n.detail.options = rd.detail.options /\ n.detail.variants = e
  BY <1>3, <1>5 DEF IsRead, Shaped, SameRequest
<1>7. Onward(n, rd) /\ n.kind = rd.kind /\ n.product = rd.product
  BY <1>3, <1>6 DEF Onward, ReadSteps, SameRequest, IsRead
<1>8. ASSUME ~ n.overtaken
      PROVE  SeenStored(n)
  <2> DEFINE c == config[rd.product]
  <2>1. /\ rd.detail.options = c.options /\ rd.row = Stored(rd.product)
        /\ rd.detail.variants = Unselected(c.variants)
    BY <1>2, <1>3, <1>6, <1>8 DEF Sound, SeenStored
  <2>2. e = c.variants
    BY <1>3, <1>4, <2>1, SelectRestores
  <2>3. n.detail = c
    BY <1>3, <1>6, <2>1, <2>2 DEF Shaped, WellFormed
  <2> QED
    BY <1>3, <1>6, <1>7, <2>1, <2>3 DEF SeenStored
<1>9. ASSUME ~ reverted
      PROVE  VariantsStay(n)
  <2> SUFFICES ASSUME rd.kind \in {"slug", "list"}, rd.row.status = "published"
               PROVE  /\ product[rd.product] # None /\ product[rd.product].everPublished
                      /\ Choices(Elements(e)) \subseteq
                           Choices(Elements(config[rd.product].variants))
    BY <1>6, <1>7 DEF VariantsStay
  <2>1. /\ product[rd.product] # None /\ product[rd.product].everPublished
        /\ {v.id : v \in Elements(rd.detail.variants)} \subseteq VariantIds(config[rd.product])
    BY <1>2, <1>9 DEF Sound, VariantsStay
  <2>2. \A v \in Elements(rd.detail.variants) : IsVariant(v)
    BY <1>2, <1>3 DEF IsRead
  <2>3. {v.id : v \in Elements(rd.detail.variants)}
          \subseteq {v.id : v \in Elements(config[rd.product].variants)}
    BY <2>1 DEF VariantIds
  <2> QED
    BY <1>4, <2>1, <2>2, <2>3, SelectedAsStored
<1>10. Sound(n)
  BY <1>2, <1>6, <1>7, <1>8, <1>9, OnwardSound
<1> QED
  BY <1>5, <1>10

\* Every step of a read leaves what it has seen sound.
LEMMA ReadStep ==
  ASSUME Typed, ConfigInv, SlugInv, VersionInv, ReadInv, NEW r, Read(r)
  PROVE  ReadInv'
<1>1. CASE RefuseRead(r)
  <2>1. UNCHANGED rows /\ read' = read /\ read = NoRead
    BY <1>1 DEF RefuseRead, Rollback
  <2> QED
    BY <2>1 DEF ReadInv
<1>2. CASE Answer(r) \/ FailRead(r)
  BY <1>2 DEF Answer, FailRead, ReadInv
<1>3. CASE ResolveSlug(r) \/ ListPublished(r) \/ GetDetail(r) \/ ReadVariant(r)
  BY <1>3, BeginStep, SoundKept
<1>4. CASE FindProduct(r) \/ ReadOwner(r) \/ ReadOptions(r) \/ ReadValues(r)
           \/ ReadVariants(r) \/ ReadSelections(r)
  <2>1. UNCHANGED rows
    BY <1>4 DEF FindProduct, ReadOwner, ReadOptions, ReadValues, ReadVariants,
                ReadSelections, Continue, vars
  <2>2. Sound(read')
    BY <1>4, FindStep, OwnerStep, OptionsStep, ValuesStep, VariantsStep, SelectionsStep
  <2> QED
    BY <2>1, <2>2, SoundKept
<1> QED
  BY <1>1, <1>2, <1>3, <1>4 DEF Read

LEMMA ReadsSound == ReadSpec => []ReadInv
<1>1. ReadInit => ReadInv
  BY DEF ReadInit, ReadInv
<1>2. ASSUME Typed, ConfigInv, SlugInv, VersionInv, ReadInv, [ReadNext]_readVars
      PROVE  ReadInv'
  <2>1. ASSUME NEW r \in Requests, Command(r), Watch
        PROVE  ReadInv'
    BY <1>2, <2>1, CommandSteps, WatchStep
  <2>2. ASSUME NEW r \in Requests, Read(r)
        PROVE  ReadInv'
    BY <1>2, <2>2, ReadStep
  <2>3. ASSUME UNCHANGED vars, UNCHANGED read
        PROVE  ReadInv'
    <3>1. CASE read = NoRead
      BY <2>3, <3>1 DEF ReadInv
    <3>2. CASE read # NoRead
      BY <1>2, <2>3, <3>2, SoundKept DEF ReadInv, vars
    <3> QED
      BY <3>1, <3>2
  <2> QED
    BY <1>2, <2>1, <2>2, <2>3 DEF ReadNext, Finished, readVars
<1> QED
  BY <1>1, <1>2, StaysTyped, StaysAccepted, SlugsStay, VersionsStay, PTL DEF ReadSpec
-----------------------------------------------------------------------------
(* What is answered *)

LEMMA Answering ==
  ASSUME Typed, ConfigInv, ReadInv, Answered
  PROVE  /\ Sound(read) /\ IsRead(read) /\ read.product \in Products /\ read.kind \in Kinds
         /\ WellFormed(config[read.product]) /\ DistinctVariants(config[read.product])
<1>1. Sound(read) /\ IsRead(read) /\ read.product \in Products /\ read.kind \in Kinds
  BY DEF Answered, NoRead, ReadInv, Sound, IsRead
<1> QED
  BY <1>1, BodiesShape DEF Typed, TypeOK, ConfigInv, Accepted

\* A read that nothing overtook.
LEMMA AnsweredTruly ==
  ASSUME Typed, ConfigInv, ReadInv, Answered, ~ read.overtaken
  PROVE  LET p == read.product
         IN  CASE read.kind = "contract" ->
                    Public(read.row, read.detail) <=>
                      /\ product[p].status = "published"
                      /\ \E v \in Elements(config[p].variants) :
                           v.id = read.detail.variants[1].id /\ v.status = "active"
               [] read.kind = "detail" ->
                    Found => read.row = product[p] /\ read.detail = config[p]
               [] OTHER ->
                    /\ Found <=> p \in Listed
                    /\ Found => read.detail = config[p]
<1> DEFINE p == read.product
<1>1. /\ SeenStored(read) /\ IsRead(read) /\ p \in Products /\ read.kind \in Kinds
      /\ WellFormed(config[p]) /\ DistinctVariants(config[p])
  BY Answering DEF Sound
<1>2. read.row = Stored(p)
  BY <1>1 DEF SeenStored, Answered
<1>3. CASE read.kind = "contract"
  <2>1. product[p] # None /\ read.row = product[p]
    BY <1>1, <1>2, <1>3 DEF IsRead, Stored
  <2>2. PICK w \in Elements(config[p].variants) : read.detail.variants = <<w>>
    BY <1>1, <1>3 DEF SeenStored
  <2>3. HasActiveVariant(read.detail) <=> w.status = "active"
    BY <2>2 DEF HasActiveVariant, Elements
  <2>4. read.detail.variants[1].id = w.id
    BY <2>2
  <2>5. (\E v \in Elements(config[p].variants) : v.id = w.id /\ v.status = "active")
          <=> w.status = "active"
    BY <1>1, <2>2, VariantsById
  <2> QED
    BY <1>3, <2>1, <2>3, <2>4, <2>5 DEF Public
<1>4. CASE read.kind = "detail"
  <2> SUFFICES ASSUME read.row # NoRow
               PROVE  read.row = product[p] /\ read.detail = config[p]
    BY <1>4 DEF Found
  <2>1. read.row = product[p]
    BY <1>2 DEF Stored
  <2> QED
    BY <1>1, <1>4, <2>1 DEF SeenStored, Ended, Answered
<1>5. CASE read.kind \in {"slug", "list"}
  <2>1. Found <=> Public(read.row, read.detail)
    BY <1>5 DEF Found
  <2>2. read.row.status = "published" => product[p] # None /\ read.row = product[p]
    BY <1>2 DEF Stored, NoRow
  <2>3. read.row.status = "published" => read.detail = config[p]
    BY <1>1, <1>5 DEF SeenStored, Ended, Answered, NoRow
  <2>4. p \in Listed => read.row = product[p]
    BY <1>2 DEF Listed, Stored
  <2>5. Found <=> p \in Listed
    BY <1>1, <2>1, <2>2, <2>3, <2>4 DEF Public, Listed
  <2>6. Found => read.detail = config[p]
    BY <2>1, <2>3 DEF Public
  <2> QED
    BY <1>5, <2>5, <2>6
<1> QED
  BY <1>1, <1>3, <1>4, <1>5 DEF Kinds

\* A read tells the truth unless a command on its product committed meanwhile,
\* although it is put together from several statements.
THEOREM UndisturbedTruth == ReadSpec => []UndisturbedReadsTrue
<1>1. Typed /\ ConfigInv /\ ReadInv => UndisturbedReadsTrue
  BY AnsweredTruly DEF UndisturbedReadsTrue
<1> QED
  BY <1>1, StaysTyped, StaysAccepted, ReadsSound, PTL

\* Whoever follows the answer of a resolution stays with its product, whatever
\* commands went on; who was answered undisturbed, and before an old version was
\* written back, gets to the canonical slug and is not sent on again.
THEOREM RedirectsLeadAlways == ReadSpec => []RedirectsLead
<1>1. ASSUME Typed, ConfigInv, SlugInv, VersionInv, ReadInv
      PROVE  RedirectsLead
  <2> SUFFICES ASSUME Answered, read.kind = "slug", Found
               PROVE  /\ read.row.slug \in SlugsOf(read.product)
                      /\ ~ read.overtaken /\ ~ reverted =>
                           /\ read.canonical <=> read.slug = read.row.slug
                           /\ slugs[read.row.slug].canonical
    BY DEF RedirectsLead
  <2>1. PICK p \in Products : p = read.product
    BY <1>1, Answering
  <2>2. Sound(read) /\ IsRead(read)
    BY <1>1, Answering
  <2>3. read.row.status = "published"
    BY DEF Found, Public
  <2>4. read.row # NoRow
    BY <2>3 DEF NoRow
  <2>5. read.row.slug \in Slugs /\ OwnedBy(read.row.slug, p)
    BY <2>1, <2>2, <2>4 DEF IsRead, Rows
  <2>6. read.row.slug \in SlugsOf(read.product)
    BY <2>1, <2>5 DEF SlugsOf, OwnedBy
  <2>7. ASSUME ~ read.overtaken, ~ reverted
        PROVE  /\ read.canonical <=> read.slug = read.row.slug
               /\ slugs[read.row.slug].canonical
    <3>1. SeenStored(read) /\ (read.canonical <=> slugs[read.slug].canonical)
      BY <2>2, <2>7 DEF Sound
    <3>2. product[p] # None /\ read.row = product[p]
      BY <2>1, <2>4, <3>1 DEF SeenStored, Answered, Stored
    <3>3. Settled(p)
      BY <1>1, <2>7, <3>2 DEF VersionInv
    <3>4. read.slug \in Slugs /\ OwnedBy(read.slug, p)
      BY <2>1, <2>2 DEF IsRead
    <3> QED
      BY <2>5, <3>1, <3>2, <3>3, <3>4 DEF Settled
  <2> QED
    BY <2>6, <2>7
<1> QED
  BY <1>1, StaysTyped, StaysAccepted, SlugsStay, VersionsStay, ReadsSound, PTL

\* What a public read shows may be out of date, but no variant it shows has gone
\* or has become another choice.
THEOREM ShownVariantsRemain == ReadSpec => []VariantsKeepChoices
<1>1. ASSUME Typed, ConfigInv, ReadInv
      PROVE  VariantsKeepChoices
  <2> SUFFICES ASSUME Answered, read.kind \in {"slug", "list"}, Found, ~ reverted
               PROVE  Choices(Shown) \subseteq Choices(Elements(config[read.product].variants))
    BY DEF VariantsKeepChoices
  <2>1. read.row.status = "published"
    BY DEF Found, Public
  <2>2. VariantsStay(read)
    BY <1>1, Answering DEF Sound
  <2>3. Choices(Elements(read.detail.variants))
          \subseteq Choices(Elements(config[read.product].variants))
    BY <2>1, <2>2 DEF VariantsStay, Answered
  <2> QED
    BY <2>3 DEF Choices, Shown
<1> QED
  BY <1>1, StaysTyped, StaysAccepted, ReadsSound, PTL
=============================================================================
