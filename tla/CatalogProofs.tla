--------------------------- MODULE CatalogProofs ----------------------------
(***************************************************************************)
(* Proofs about Catalog and its rules, for every set of products, slugs,   *)
(* requests and configurations, and every limit.                           *)
(***************************************************************************)
EXTENDS CatalogReads, FiniteSetTheorems, TLAPS

-----------------------------------------------------------------------------
(* Rules *)

\* A list is its elements in order.
LEMMA ListShape ==
  ASSUME NEW s, IsList(s)
  PROVE  /\ Len(s) \in Nat /\ DOMAIN s = 1 .. Len(s)
         /\ s \in [1 .. Len(s) -> Elements(s)]
         /\ s = << >> <=> Len(s) = 0
BY DEF IsList

\* There are n places of a list of length n.
LEMMA Places ==
  ASSUME NEW n \in Nat
  PROVE  IsFiniteSet(1 .. n) /\ Cardinality(1 .. n) = n
<1>1. /\ IsFiniteSet(1 .. n)
      /\ Cardinality(1 .. n) = IF 1 > n THEN 0 ELSE n - 1 + 1
  BY FS_Interval
<1> QED
  BY <1>1

\* A list without repetitions has as many elements as places.
LEMMA DistinctElements ==
  ASSUME NEW s, IsList(s), IsInjective(s)
  PROVE  IsFiniteSet(Elements(s)) /\ Cardinality(Elements(s)) = Len(s)
<1>1. s \in Surjection(1 .. Len(s), Elements(s)) /\ s \in Injection(1 .. Len(s), Elements(s))
  BY ListShape DEF Surjection, Injection, Elements
<1>2. IsFiniteSet(1 .. Len(s)) /\ Cardinality(1 .. Len(s)) = Len(s)
  BY ListShape, Places
<1> QED
  BY <1>1, <1>2, FS_Surjection

\* And conversely: where there are as many elements as places none is repeated.
LEMMA RepeatedNever ==
  ASSUME NEW s, IsList(s), Cardinality(Elements(s)) = Len(s)
  PROVE  IsInjective(s)
<1>1. s \in Surjection(1 .. Len(s), Elements(s))
  BY ListShape DEF Surjection, Elements
<1>2. IsFiniteSet(1 .. Len(s)) /\ Cardinality(1 .. Len(s)) = Len(s)
  BY ListShape, Places
<1>3. s \in Injection(1 .. Len(s), Elements(s))
  BY <1>1, <1>2, FS_Surjection
<1> QED
  BY <1>3 DEF Injection

\* Where as many values are selected as there are options, and values of as many
\* options, it is one of each option.
LEMMA OneOfEach ==
  ASSUME NEW c, WellFormed(c), OptionsValid(c.options), c.options # << >>,
         NEW v \in Elements(c.variants), SelectionValid(c, v),
         NEW i \in DOMAIN c.options
  PROVE  Cardinality(Elements(v.selection) \cap Elements(c.options[i].values)) = 1
<1> DEFINE n == Len(c.options)
           S == Elements(v.selection)
           Hit == {k \in 1 .. n : Elements(c.options[k].values) \cap S # {}}
           Of(x) == CHOOSE k \in 1 .. n : x \in Elements(c.options[k].values)
           of == [x \in S |-> Of(x)]
<1>1. /\ n \in Nat /\ DOMAIN c.options = 1 .. n
      /\ IsFiniteSet(1 .. n) /\ Cardinality(1 .. n) = n
  BY ListShape, Places DEF WellFormed
<1>2. IsFiniteSet(S) /\ Cardinality(S) = n
  BY DistinctElements DEF WellFormed, IsVariant, SelectionValid
<1>3. Hit = 1 .. n
  <2>1. IsFiniteSet(Hit) /\ Cardinality(Hit) <= n /\ Cardinality(Hit) \in Nat
    BY <1>1, FS_Subset, FS_CardinalityType
  <2>2. SelectedOptions(c, v) = {c.options[k].id : k \in Hit}
    BY <1>1 DEF SelectedOptions, Elements
  <2>3. Cardinality(SelectedOptions(c, v)) <= Cardinality(Hit)
    <3>1. [k \in Hit |-> c.options[k].id] \in Surjection(Hit, SelectedOptions(c, v))
      BY <2>2 DEF Surjection
    <3> QED
      BY <2>1, <3>1, FS_Surjection
  <2>4. Cardinality(SelectedOptions(c, v)) = n
    BY DEF SelectionValid
  <2> QED
    BY <1>1, <2>1, <2>3, <2>4, FS_Subset
<1>4. \A x \in S : Of(x) \in 1 .. n /\ x \in Elements(c.options[Of(x)].values)
  <2> SUFFICES ASSUME NEW x \in S
               PROVE  Of(x) \in 1 .. n /\ x \in Elements(c.options[Of(x)].values)
    OBVIOUS
  <2>1. x \in ValueIds(c)
    BY DEF SelectionValid
  <2>2. PICK o \in Elements(c.options) : x \in Elements(o.values)
    BY <2>1 DEF ValueIds
  <2>3. \E k \in 1 .. n : x \in Elements(c.options[k].values)
    BY <1>1, <2>2 DEF Elements
  <2> QED
    BY <2>3
<1>5. \A x \in S, k \in 1 .. n : x \in Elements(c.options[k].values) => Of(x) = k
  BY <1>1, <1>4 DEF OptionsValid
<1>6. of \in Surjection(S, 1 .. n)
  BY <1>3, <1>4, <1>5 DEF Surjection
<1>7. of \in Injection(S, 1 .. n)
  BY <1>1, <1>2, <1>6, FS_Surjection
<1>8. PICK x \in S : x \in Elements(c.options[i].values)
  BY <1>1, <1>3
<1>9. \A y \in S : y \in Elements(c.options[i].values) => y = x
  BY <1>1, <1>5, <1>7, <1>8 DEF Injection, IsInjective
<1>10. S \cap Elements(c.options[i].values) = {x}
  BY <1>8, <1>9
<1> QED
  BY <1>10, FS_Singleton

\* Counting is enough: what the code accepts is what the contract describes.
THEOREM ConsistentIsCoherent ==
  ASSUME NEW c, WellFormed(c), Consistent(c)
  PROVE  Coherent(c)
<1>1. /\ Len(c.variants) \in Nat /\ DOMAIN c.variants = 1 .. Len(c.variants)
      /\ c.variants # << >>
  BY ListShape DEF WellFormed, Consistent
<1>2. ASSUME NEW v \in Elements(c.variants)
      PROVE  /\ Elements(v.selection) \subseteq ValueIds(c)
             /\ \A o \in Elements(c.options) :
                  Cardinality(Elements(v.selection) \cap Elements(o.values)) = 1
  <2>1. SelectionValid(c, v) /\ OptionsValid(c.options)
    BY DEF Consistent, Elements
  <2>2. CASE c.options = << >>
    <3>1. Elements(c.options) = {}
      BY <2>2, ListShape DEF WellFormed, Elements
    <3> QED
      BY <2>1, <3>1 DEF SelectionValid
  <2>3. CASE c.options # << >>
    <3>1. \A i \in DOMAIN c.options :
            Cardinality(Elements(v.selection) \cap Elements(c.options[i].values)) = 1
      BY <2>1, <2>3, OneOfEach
    <3>2. \A o \in Elements(c.options) : \E i \in DOMAIN c.options : o = c.options[i]
      BY DEF Elements
    <3> QED
      BY <2>1, <3>1, <3>2 DEF SelectionValid
  <2> QED
    BY <2>2, <2>3
<1>3. ASSUME NEW i \in DOMAIN c.variants, NEW j \in DOMAIN c.variants, i # j
      PROVE  Elements(c.variants[i].selection) # Elements(c.variants[j].selection)
  <2>1. i \in 1 .. j - 1 \/ j \in 1 .. i - 1
    BY <1>1, <1>3
  <2> QED
    BY <2>1 DEF Consistent, CombinationKey
<1> QED
  BY <1>1, <1>2, <1>3 DEF Coherent
-----------------------------------------------------------------------------
(* What is stored of a body *)

LEMMA FoldedVariant ==
  ASSUME NEW v, IsVariant(v), NEW i, NEW e, e = [v EXCEPT !.id = i]
  PROVE  /\ IsVariant(e) /\ e.id = i /\ e.status = v.status
         /\ e.selection = v.selection
         /\ e.fulfillmentClassification = v.fulfillmentClassification
BY DEF IsVariant

\* Only the ids of variants may come out differently.
LEMMA FoldedShape ==
  ASSUME NEW c, WellFormed(c)
  PROVE  /\ WellFormed(Folded(c)) /\ Folded(c).options = c.options
         /\ Len(Folded(c).variants) = Len(c.variants)
         /\ DOMAIN Folded(c).variants = DOMAIN c.variants
         /\ \A i \in DOMAIN c.variants :
              LET v == c.variants[i]  e == Folded(c).variants[i]
              IN  /\ e.id = Lower(v.id) /\ e.status = v.status
                  /\ e.selection = v.selection
                  /\ e.fulfillmentClassification = v.fulfillmentClassification
<1> DEFINE n == Len(c.variants)
<1>1. n \in Nat /\ DOMAIN c.variants = 1 .. n
      /\ c = [options |-> c.options, variants |-> c.variants]
      /\ \A i \in 1 .. n : IsVariant(c.variants[i])
  BY ListShape DEF WellFormed, Elements
<1>2. PICK vs : vs = [i \in DOMAIN c.variants |->
                       [c.variants[i] EXCEPT !.id = Lower(c.variants[i].id)]]
  OBVIOUS
<1>3. Folded(c) = [options |-> c.options, variants |-> vs]
  BY <1>1, <1>2 DEF Folded
<1>4. ASSUME NEW i \in 1 .. n
      PROVE  LET v == c.variants[i]  e == vs[i]
             IN  /\ IsVariant(e) /\ e.id = Lower(v.id) /\ e.status = v.status
                 /\ e.selection = v.selection
                 /\ e.fulfillmentClassification = v.fulfillmentClassification
  <2>1. vs[i] = [c.variants[i] EXCEPT !.id = Lower(c.variants[i].id)]
    BY <1>1, <1>2
  <2>2. IsVariant(c.variants[i])
    BY <1>1
  <2> QED
    BY <2>1, <2>2, FoldedVariant
<1>5. DOMAIN vs = 1 .. n /\ vs \in [1 .. n -> Elements(vs)]
  BY <1>1, <1>2 DEF Elements
<1>6. IsList(vs) /\ Len(vs) = n
  BY <1>1, <1>5 DEF IsList
<1>7. \A e \in Elements(vs) : IsVariant(e)
  BY <1>4, <1>5 DEF Elements
<1>8. Folded(c).options = c.options /\ Folded(c).variants = vs
  BY <1>3
<1>9. WellFormed(Folded(c))
  BY <1>3, <1>6, <1>7, <1>8 DEF WellFormed
<1> QED
  BY <1>1, <1>4, <1>5, <1>6, <1>8, <1>9

\* A body is a list of variants before and after.
LEMMA FoldedElements ==
  ASSUME NEW c, WellFormed(c)
  PROVE  /\ \A e \in Elements(Folded(c).variants) : \E v \in Elements(c.variants) :
              /\ e.id = Lower(v.id) /\ e.status = v.status
              /\ e.selection = v.selection
              /\ e.fulfillmentClassification = v.fulfillmentClassification
         /\ \A v \in Elements(c.variants) : \E e \in Elements(Folded(c).variants) :
              e.id = Lower(v.id) /\ e.status = v.status
BY FoldedShape DEF Elements

\* What was accepted is accepted as it is stored.
LEMMA FoldedConsistent ==
  ASSUME NEW c, WellFormed(c), Consistent(c)
  PROVE  Consistent(Folded(c))
<1>1. PICK d : d = Folded(c)
  OBVIOUS
<1>2. /\ d.options = c.options /\ Len(d.variants) = Len(c.variants)
      /\ DOMAIN d.variants = DOMAIN c.variants
      /\ \A i \in DOMAIN c.variants : d.variants[i].selection = c.variants[i].selection
  BY <1>1, FoldedShape
<1>3. Len(c.variants) \in Nat /\ DOMAIN c.variants = 1 .. Len(c.variants)
  BY ListShape DEF WellFormed
<1>4. ASSUME NEW i \in DOMAIN c.variants
      PROVE  SelectionValid(d, d.variants[i])
  <2>1. SelectionValid(c, c.variants[i]) /\ d.variants[i].selection = c.variants[i].selection
    BY <1>2 DEF Consistent
  <2>2. ValueIds(d) = ValueIds(c)
    BY <1>2 DEF ValueIds
  <2>3. SelectedOptions(d, d.variants[i]) = SelectedOptions(c, c.variants[i])
    BY <1>2, <2>1 DEF SelectedOptions
  <2> QED
    BY <1>2, <2>1, <2>2, <2>3 DEF SelectionValid
<1>5. ASSUME NEW i \in DOMAIN c.variants, NEW j \in 1 .. i - 1
      PROVE  CombinationKey(d.variants[i]) # CombinationKey(d.variants[j])
  <2>1. j \in DOMAIN c.variants
    BY <1>3
  <2>2. CombinationKey(c.variants[i]) # CombinationKey(c.variants[j])
    BY DEF Consistent
  <2> QED
    BY <1>2, <2>1, <2>2 DEF CombinationKey
<1> QED
  BY <1>1, <1>2, <1>4, <1>5 DEF Consistent

\* The bodies, and what is stored of them: of these the ids are as stored.
LEMMA BodiesShape ==
  /\ \A c \in Bodies : WellFormed(c) /\ Folded(c) \in StoredBodies
  /\ \A c \in Stocked \cup {Default} : c \in StoredBodies
  /\ \A c \in StoredBodies : WellFormed(c) /\ \A v \in Elements(c.variants) : Lower(v.id) = v.id
<1>1. \A c \in Bodies : WellFormed(c) /\ Folded(c) \in StoredBodies
  BY CatalogAssumption DEF StoredBodies
<1>2. \A c \in Stocked \cup {Default} : c \in StoredBodies
  BY <1>1, CatalogAssumption DEF Bodies
<1>3. ASSUME NEW c \in StoredBodies
      PROVE  WellFormed(c) /\ \A v \in Elements(c.variants) : Lower(v.id) = v.id
  <2>1. PICK b \in Bodies : c = Folded(b)
    BY DEF StoredBodies
  <2>2. WellFormed(b) /\ \A v \in Elements(b.variants) : Lower(Lower(v.id)) = Lower(v.id)
    BY CatalogAssumption DEF VariantIds
  <2>3. \A e \in Elements(c.variants) : \E v \in Elements(b.variants) : e.id = Lower(v.id)
    BY <2>1, <2>2, FoldedElements
  <2> QED
    BY <2>1, <2>2, <2>3, FoldedShape
<1> QED
  BY <1>1, <1>2, <1>3
-----------------------------------------------------------------------------
(* Steps *)

\* A read as the commands see it: it takes a request and writes nothing.
Reads(r) ==
  \/ pc[r] = "idle" /\ Goto(r, "reading") /\ UNCHANGED <<rows, req, saw>>
  \/ pc[r] = "reading" /\ Rollback(r)

\* The statements of replaceConfigurationRows and replaceCanonicalSlug that do
\* not end their transaction.
Replaces(r) ==
  /\ pc[r] = "replace" /\ ~ ConfigBusy(Product(r)) /\ DistinctVariants(Folded(req[r].body))
  /\ Goto(r, "commit") /\ UNCHANGED <<rows, req, saw>>

FindsSlug(r) ==
  LET reservation == slugs[req[r].slug]
  IN  /\ pc[r] = "findSlug"
      /\ reservation = None \/ reservation.product = Product(r)
      /\ saw' = [saw EXCEPT ![r].reservation = reservation]
      /\ Goto(r, "moveSlug") /\ UNCHANGED <<rows, req>>

MovesOn(r) ==
  /\ pc[r] = "moveSlug"
  /\ ~ SlugBusy(req[r].slug) /\ ~ SlugsOfBusy(Product(r))
  /\ saw[r].reservation # None \/ slugs[req[r].slug] = None
  /\ Goto(r, "compare") /\ UNCHANGED <<rows, req, saw>>

\* What a step of r may be, with every refusal and failure in one.
Step(r) ==
  \/ Rollback(r) \/ Reads(r)
  \/ Find(r) \/ CheckArchive(r) \/ FindChecked(r)
  \/ LoadForPublication(r) \/ LoadForReplacement(r)
  \/ Replaces(r) \/ FindsSlug(r) \/ MovesOn(r) \/ Compare(r)
  \/ Create(r) \/ Commit(r)

LEMMA CommandSteps ==
  ASSUME NEW r, Command(r)
  PROVE  Step(r)
<1>1. CASE RefuseCreate(r) \/ RefuseCommand(r) \/ RefuseDetail(r)
           \/ RefuseVersion(r) \/ Fail(r)
  BY <1>1 DEF RefuseCreate, RefuseCommand, RefuseDetail, RefuseVersion, Fail, Step
<1>2. CASE Replace(r)
  BY <1>2 DEF Replace, Replaces, Rollback, Step
<1>3. CASE FindSlug(r)
  BY <1>3 DEF FindSlug, FindsSlug, Rollback, Step
<1>4. CASE MoveSlug(r)
  BY <1>4 DEF MoveSlug, MovesOn, Rollback, Step
<1> QED
  BY <1>1, <1>2, <1>3, <1>4 DEF Command, Step

LEMMA Steps1 ==
  ASSUME ReadNext
  PROVE  UNCHANGED vars \/ \E r \in Requests : Step(r)
<1>1. \A r \in Requests : Command(r) => Step(r)
  BY CommandSteps
<1>2. ASSUME NEW r \in Requests, Read(r)
      PROVE  UNCHANGED vars \/ Step(r)
  <2>1. CASE FindProduct(r) \/ ReadOwner(r) \/ ReadOptions(r) \/ ReadValues(r)
             \/ ReadVariants(r) \/ ReadSelections(r)
    BY <2>1 DEF FindProduct, ReadOwner, ReadOptions, ReadValues, ReadVariants,
                ReadSelections, Continue
  <2>2. CASE RefuseRead(r) \/ Answer(r) \/ FailRead(r)
    BY <2>2 DEF RefuseRead, Answer, FailRead, Step
  <2>3. CASE ResolveSlug(r) \/ ListPublished(r) \/ GetDetail(r) \/ ReadVariant(r)
    BY <2>3 DEF ResolveSlug, ListPublished, GetDetail, ReadVariant, Begin, Reads, Step
  <2> QED
    BY <1>2, <2>1, <2>2, <2>3 DEF Read
<1> QED
  BY <1>1, <1>2 DEF ReadNext, Finished
-----------------------------------------------------------------------------
(* Types *)

Remembered == [row : Rows \cup {NoRow}, reservation : Reservations \cup {None},
               stale : SUBSET Columns, prior : Priors \cup {None}]

LEMMA CommandShape ==
  ASSUME NEW q \in Commands
  PROVE  /\ q.product \in Products
         /\ q.kind \in {"edit", "transition", "replace"}
         /\ q.kind = "edit" => q.slug \in Slugs
         /\ q.kind = "transition" => q.target \in ProductStatuses
         /\ q.kind = "replace" => q.body \in Bodies
BY DEF Commands, Edits, Transitioned, Replacements

LEMMA NothingType == NothingSeen \in Remembered
BY DEF NothingSeen, Remembered

LEMMA NewRowType ==
  ASSUME NEW s \in Slugs
  PROVE  NewRow(s) \in Rows
BY DEF NewRow, Rows, ProductStatuses

\* What save writes has the columns of both rows.
LEMMA EntityType ==
  ASSUME TypeOK, NEW r \in Requests, pc[r] \in Running
  PROVE  /\ Product(r) \in Products /\ product[Product(r)] \in Rows
         /\ saw[r].row \in Rows /\ Entity(r) \in Rows /\ Saved(r) \in Rows
<1>1. req[r] \in Commands /\ product[Product(r)] # None /\ saw[r].row \in Rows
  BY DEF TypeOK
<1>2. Product(r) \in Products /\ product[Product(r)] \in Rows
  BY <1>1, CommandShape DEF TypeOK, Product
<1>3. Entity(r) \in Rows
  <2>1. CASE req[r].kind = "edit"
    BY <1>1, <2>1, CommandShape DEF Entity, Rows
  <2>2. CASE req[r].kind = "transition"
    <3> DEFINE row == saw[r].row
               everPublished == row.everPublished \/ req[r].target = "published"
    <3>1. Entity(r) = [row EXCEPT !.status = req[r].target, !.everPublished = everPublished]
      BY <2>2 DEF Entity
    <3>2. req[r].target \in ProductStatuses /\ everPublished \in BOOLEAN
      BY <1>1, <2>2, CommandShape
    <3> QED
      BY <1>1, <3>1, <3>2 DEF Rows
  <2>3. CASE req[r].kind = "replace"
    BY <1>1, <2>3 DEF Entity
  <2> QED
    BY <1>1, <2>1, <2>2, <2>3, CommandShape
<1>4. Saved(r) \in Rows
  BY <1>2, <1>3 DEF Saved, Rows, Columns
<1> QED
  BY <1>1, <1>2, <1>3, <1>4

LEMMA MovedType ==
  ASSUME TypeOK, NEW p \in Products, NEW s \in Slugs
  PROVE  MovedSlugs(p, s) \in [Slugs -> Reservations \cup {None}]
<1> SUFFICES ASSUME NEW x \in Slugs
             PROVE  (IF x = s THEN [product |-> p, canonical |-> TRUE]
                     ELSE IF x \in SlugsOf(p) THEN [slugs[x] EXCEPT !.canonical = FALSE]
                     ELSE slugs[x]) \in Reservations \cup {None}
  BY DEF MovedSlugs
<1>1. slugs[x] \in Reservations \cup {None}
  BY DEF TypeOK
<1>2. ASSUME x \in SlugsOf(p)
      PROVE  [slugs[x] EXCEPT !.canonical = FALSE] \in Reservations
  BY <1>1, <1>2 DEF SlugsOf, Reservations
<1>3. [product |-> p, canonical |-> TRUE] \in Reservations
  BY DEF Reservations
<1> QED
  BY <1>1, <1>2, <1>3

LEMMA SavedNext ==
  ASSUME TypeOK, NEW r \in Requests, pc[r] \in Running
  PROVE  [Saved(r) EXCEPT !.version = Incremented(@)] \in Rows
<1>1. Saved(r) \in Rows
  BY EntityType
<1>2. Saved(r).version + 1 \in Nat \ {0}
  BY <1>1 DEF Rows
<1> QED
  BY <1>1, <1>2 DEF Rows, Incremented

LEMMA FirstStepType ==
  ASSUME NEW q \in Commands, NEW row
  PROVE  FirstStep(q, row) \in {"compare", "findSlug", "loadDetail"}
BY CommandShape DEF FirstStep

\* What a step does to the tables.
LEMMA RowsType ==
  ASSUME TypeOK, NEW r \in Requests, Step(r)
  PROVE  /\ product' \in [Products -> Rows \cup {None}]
         /\ slugs' \in [Slugs -> Reservations \cup {None}]
         /\ config' \in [Products -> StoredBodies]
         /\ reverted' \in BOOLEAN
         /\ \A p \in Products : product[p] # None => product'[p] # None
<1>1. CASE UNCHANGED rows
  BY <1>1 DEF rows, TypeOK
<1>2. CASE Create(r)
  <2>1. PICK p \in Products, s \in Slugs :
          /\ product[p] = None
          /\ product' = [product EXCEPT ![p] = NewRow(s)]
          /\ slugs' = [slugs EXCEPT ![s] = [product |-> p, canonical |-> TRUE]]
          /\ config' = [config EXCEPT ![p] = Default]
    BY <1>2 DEF Create
  <2>2. NewRow(s) \in Rows /\ [product |-> p, canonical |-> TRUE] \in Reservations
        /\ Default \in StoredBodies
    BY NewRowType, BodiesShape DEF Reservations
  <2> QED
    BY <1>2, <2>1, <2>2 DEF Create, TypeOK
<1>3. CASE Commit(r)
  <2> DEFINE p == Product(r)
             new == [Saved(r) EXCEPT !.version = Incremented(@)]
  <2>1. pc[r] \in Running /\ product' = [product EXCEPT ![p] = new]
    BY <1>3 DEF Commit, Running, Steps
  <2>2. p \in Products /\ new \in Rows /\ req[r] \in Commands
    BY <2>1, EntityType, SavedNext DEF TypeOK
  <2>3. slugs' \in [Slugs -> Reservations \cup {None}]
    <3>1. CASE MovesSlug(r)
      <4>1. req[r].slug \in Slugs
        BY <2>2, <3>1, CommandShape DEF MovesSlug
      <4> QED
        BY <1>3, <2>2, <3>1, <4>1, MovedType DEF Commit
    <3>2. CASE ~ MovesSlug(r)
      BY <1>3, <3>2 DEF Commit, TypeOK
    <3> QED
      BY <3>1, <3>2
  <2>4. config' \in [Products -> StoredBodies]
    <3>1. CASE req[r].kind = "replace"
      <4>1. config' = [config EXCEPT ![p] = Folded(req[r].body)]
        BY <1>3, <3>1 DEF Commit
      <4>2. Folded(req[r].body) \in StoredBodies
        BY <2>2, <3>1, CommandShape, BodiesShape
      <4> QED
        BY <2>2, <4>1, <4>2 DEF TypeOK
    <3>2. CASE req[r].kind # "replace"
      BY <1>3, <3>2 DEF Commit, TypeOK
    <3> QED
      BY <3>1, <3>2
  <2>5. reverted' \in BOOLEAN
    BY <1>3 DEF Commit, TypeOK
  <2>6. product' \in [Products -> Rows \cup {None}]
    BY <2>1, <2>2 DEF TypeOK
  <2>7. \A o \in Products : product[o] # None => product'[o] # None
    BY <2>1, <2>2, NoneAssumption DEF TypeOK
  <2> QED
    BY <2>3, <2>4, <2>5, <2>6, <2>7
<1> QED
  BY <1>1, <1>2, <1>3 DEF Step, Rollback, Reads, Find, CheckArchive, FindChecked,
     LoadForPublication, LoadForReplacement, Replaces, FindsSlug, MovesOn, Compare

\* Which commands take a step, and what they remember then.
Fits(s, q, seen) ==
  /\ s \in {"findSlug", "moveSlug"} => q.kind = "edit"
  /\ s \in {"find", "replace"} => q.kind = "replace"
  /\ s = "loadDetail" => q.kind \in {"transition", "replace"}
  /\ s = "compare" => q.kind \in {"edit", "transition"}
  /\ s \notin Running => q = NoCommand /\ seen = NothingSeen
  /\ seen.stale # {} => s = "commit" /\ q.kind # "replace"
  /\ seen.prior # None => q.kind = "replace"
  /\ q.kind = "transition" => q.target \in Transitions(seen.row.status)

StepsFit == \A r \in Requests : Fits(pc[r], req[r], saw[r])

Typed == TypeOK /\ StepsFit

\* Where a request goes on, with what it remembers.
Runs(s, q, seen) ==
  /\ s \in Steps /\ q \in Commands \cup {NoCommand} /\ seen \in Remembered
  /\ s \in Running =>
       q \in Commands /\ product[q.product] # None /\ seen.row \in Rows
  /\ Fits(s, q, seen)

\* What the controller notes of a product.
Noted(p) == [version |-> product[p].version, standing |-> Standing(config[p])]

LEMMA NotedType ==
  ASSUME Typed, NEW p \in Products, product[p] \in Rows
  PROVE  Noted(p) \in Priors /\ Noted(p) # None
<1>1. product[p].version \in Nat \ {0} /\ config[p] \in StoredBodies
  BY DEF Rows, Typed, TypeOK
<1>2. Noted(p) \in Priors
  BY <1>1 DEF Noted, Priors
<1> QED
  BY <1>2, NoneAssumption

LEMMA StepsDisjoint == "done" \notin Running /\ "reading" \notin Running /\ "idle" \notin Running
BY DEF Running

LEMMA EndRuns == Runs("done", NoCommand, NothingSeen)
BY NothingType, StepsDisjoint DEF Runs, Steps, Fits, NothingSeen, NoCommand

\* A step changes what one request is at, and leaves it well-formed.
LEMMA StepRuns ==
  ASSUME Typed, NEW r \in Requests, Step(r)
  PROVE  \E s, q, seen :
           /\ Runs(s, q, seen)
           /\ pc' = [pc EXCEPT ![r] = s]
           /\ req' = [req EXCEPT ![r] = q]
           /\ saw' = [saw EXCEPT ![r] = seen]
<1> DEFINE Goes(s, q, seen) ==
             /\ Runs(s, q, seen)
             /\ pc' = [pc EXCEPT ![r] = s]
             /\ req' = [req EXCEPT ![r] = q]
             /\ saw' = [saw EXCEPT ![r] = seen]
<1>1. /\ pc \in [Requests -> Steps] /\ req \in [Requests -> Commands \cup {NoCommand}]
      /\ saw \in [Requests -> Remembered]
      /\ pc[r] \in Running =>
           req[r] \in Commands /\ product[Product(r)] # None /\ saw[r].row \in Rows
      /\ Fits(pc[r], req[r], saw[r])
  BY DEF Typed, TypeOK, StepsFit, Remembered
<1>2. req = [req EXCEPT ![r] = req[r]] /\ saw = [saw EXCEPT ![r] = saw[r]]
  BY <1>1
<1>3. CASE Rollback(r) \/ Create(r) \/ Commit(r)
  <2>1. Goes("done", NoCommand, NothingSeen)
    BY <1>3, EndRuns DEF Rollback, Create, Commit, End, Goto
  <2> QED
    BY <2>1
<1>4. CASE Reads(r)
  <2>1. ASSUME pc[r] = "idle", Goto(r, "reading"), UNCHANGED <<rows, req, saw>>
        PROVE  Goes("reading", req[r], saw[r])
    BY <1>1, <1>2, <2>1, StepsDisjoint DEF Goto, Runs, Steps, Fits
  <2>2. ASSUME Rollback(r)
        PROVE  Goes("done", NoCommand, NothingSeen)
    BY <2>2, EndRuns DEF Rollback, End, Goto
  <2> QED
    BY <1>4, <2>1, <2>2 DEF Reads
<1>5. CASE Find(r)
  <2>1. PICK q \in Requested :
          /\ product[q.product] # None
          /\ q.kind = "transition" => q.target \in Transitions(product[q.product].status)
          /\ req' = [req EXCEPT ![r] = q]
          /\ saw' = [saw EXCEPT ![r].row = product[q.product]]
          /\ Goto(r, FirstStep(q, product[q.product]))
    BY <1>5 DEF Find
  <2> DEFINE seen == [saw[r] EXCEPT !.row = product[q.product]]
  <2>2. q \in Commands /\ product[q.product] \in Rows
    BY <2>1, CommandShape DEF Requested, Typed, TypeOK
  <2>3. seen \in Remembered /\ seen.row \in Rows
    BY <1>1, <2>2 DEF Remembered
  <2>4. FirstStep(q, product[q.product]) \in Steps
    BY <2>2, FirstStepType DEF Steps
  <2>5. saw' = [saw EXCEPT ![r] = seen]
    BY <2>1
  <2>6. Fits(FirstStep(q, product[q.product]), q, seen)
    <3>1. saw[r] = NothingSeen
      BY <1>1, <1>5 DEF Find, Fits, Running
    <3>2. seen.row = product[q.product] /\ seen.stale = {} /\ seen.prior = None
      BY <3>1 DEF NothingSeen
    <3>3. FirstStep(q, product[q.product]) \in Running
      BY <2>2, FirstStepType DEF Running, Steps
    <3> QED
      BY <2>1, <2>2, <3>2, <3>3, CommandShape DEF Fits, FirstStep
  <2>7. Goes(FirstStep(q, product[q.product]), q, seen)
    BY <2>1, <2>2, <2>3, <2>4, <2>5, <2>6 DEF Goto, Runs
  <2> QED
    BY <2>7
<1>6. CASE CheckArchive(r)
  <2>1. PICK q \in Requested :
          /\ q.kind = "replace" /\ product[q.product] # None
          /\ req' = [req EXCEPT ![r] = q]
          /\ saw' = [saw EXCEPT ![r].row = product[q.product],
                               ![r].prior = Noted(q.product)]
    BY <1>6 DEF CheckArchive, Noted
  <2> DEFINE seen == [saw[r] EXCEPT !.row = product[q.product], !.prior = Noted(q.product)]
  <2>2. q \in Commands /\ q.product \in Products /\ product[q.product] \in Rows
    BY <2>1, CommandShape DEF Requested, Typed, TypeOK
  <2>3. Noted(q.product) \in Priors
    BY <2>2, NotedType
  <2>4. seen \in Remembered /\ seen.row \in Rows
    BY <1>1, <2>2, <2>3 DEF Remembered
  <2>5. saw' = [saw EXCEPT ![r] = seen]
    BY <1>1, <2>1
  <2>6. Fits("find", q, seen)
    <3>1. saw[r] = NothingSeen
      BY <1>1, <1>6 DEF CheckArchive, Fits, Running
    <3>2. seen.stale = {}
      BY <3>1 DEF NothingSeen
    <3> QED
      BY <2>1, <3>2 DEF Fits, Running, Steps
  <2>7. Goes("find", q, seen)
    BY <1>6, <2>1, <2>2, <2>4, <2>5, <2>6 DEF CheckArchive, Goto, Runs, Steps
  <2> QED
    BY <2>7
<1>7. CASE FindChecked(r)
  <2> DEFINE seen == [saw[r] EXCEPT !.row = product[Product(r)]]
  <2>1. pc[r] \in Running
    BY <1>7 DEF FindChecked, Running, Steps
  <2>2. product[Product(r)] \in Rows
    BY <2>1, EntityType DEF Typed
  <2>3. seen \in Remembered /\ seen.row \in Rows
    BY <1>1, <2>2 DEF Remembered
  <2>4. saw' = [saw EXCEPT ![r] = seen]
    BY <1>7 DEF FindChecked
  <2>5. Fits("loadDetail", req[r], seen)
    <3>1. req[r].kind = "replace" /\ seen.stale = {}
      BY <1>1, <1>7 DEF FindChecked, Fits, Remembered
    <3> QED
      BY <3>1 DEF Fits, Running, Steps
  <2>6. Goes("loadDetail", req[r], seen)
    BY <1>1, <1>2, <1>7, <2>1, <2>3, <2>4, <2>5 DEF FindChecked, Goto, Runs, Steps, Product
  <2> QED
    BY <2>6
<1>8. CASE LoadForPublication(r) \/ Replaces(r) \/ MovesOn(r)
  <2>1. pc[r] \in Running
    BY <1>8 DEF LoadForPublication, Replaces, MovesOn, Running, Steps
  <2>2. PICK s \in {"compare", "commit"} : pc' = [pc EXCEPT ![r] = s] /\ Fits(s, req[r], saw[r])
    BY <1>1, <1>8 DEF LoadForPublication, Replaces, MovesOn, Goto, Fits, Running, Steps
  <2>3. Goes(s, req[r], saw[r])
    BY <1>1, <1>2, <1>8, <2>1, <2>2
    DEF LoadForPublication, Replaces, MovesOn, Runs, Steps, Product
  <2> QED
    BY <2>3
<1>9. CASE LoadForReplacement(r)
  <2>1. pc[r] \in Running
    BY <1>9 DEF LoadForReplacement, Running, Steps
  <2>2. PICK body \in Configurations : req' = [req EXCEPT ![r].body = body]
    BY <1>9 DEF LoadForReplacement
  <2> DEFINE q == [req[r] EXCEPT !.body = body]
  <2>3. req[r] \in Replacements
    BY <1>1, <1>9, <2>1 DEF LoadForReplacement, Commands, Edits, Transitioned
  <2>4. q \in Replacements /\ q.product = Product(r)
    BY <2>3 DEF Replacements, Bodies, Product
  <2>5. Fits("replace", q, saw[r])
    <3>1. q.kind = "replace"
      BY <2>4 DEF Replacements
    <3>2. saw[r].stale = {}
      BY <1>1, <1>9 DEF LoadForReplacement, Fits
    <3> QED
      BY <3>1, <3>2 DEF Fits, Running, Steps
  <2>6. Goes("replace", q, saw[r])
    BY <1>1, <1>2, <1>9, <2>1, <2>2, <2>4, <2>5
    DEF LoadForReplacement, Goto, Runs, Steps, Commands
  <2> QED
    BY <2>6
<1>10. CASE FindsSlug(r) \/ Compare(r)
  <2>1. pc[r] \in Running
    BY <1>10 DEF FindsSlug, Compare, Running, Steps
  <2>2. CASE FindsSlug(r)
    <3> DEFINE seen == [saw[r] EXCEPT !.reservation = slugs[req[r].slug]]
    <3>1. seen.row = saw[r].row /\ saw' = [saw EXCEPT ![r] = seen]
      BY <1>1, <2>2 DEF FindsSlug, Remembered
    <3>2. req[r].kind = "edit" /\ seen.stale = {} /\ seen.prior = saw[r].prior
      BY <1>1, <2>2 DEF FindsSlug, Fits, Remembered
    <3>3. slugs[req[r].slug] \in Reservations \cup {None}
      BY <1>1, <2>1, <3>2, CommandShape DEF Typed, TypeOK
    <3>4. seen \in Remembered
      BY <1>1, <3>3 DEF Remembered
    <3>5. Fits("moveSlug", req[r], seen)
      BY <1>1, <3>2 DEF Fits, Running, Steps
    <3>6. Goes("moveSlug", req[r], seen)
      BY <1>1, <1>2, <2>1, <2>2, <3>1, <3>4, <3>5 DEF FindsSlug, Goto, Runs, Steps, Product
    <3> QED
      BY <3>6
  <2>3. CASE Compare(r)
    <3> DEFINE diff == {c \in Columns : Entity(r)[c] # product[Product(r)][c]}
               seen == [saw[r] EXCEPT !.stale = diff]
    <3>1. seen \in Remembered /\ seen.row = saw[r].row /\ seen.prior = saw[r].prior
      BY <1>1 DEF Remembered
    <3>2. saw' = [saw EXCEPT ![r] = seen]
      BY <2>3 DEF Compare
    <3>3. Fits("commit", req[r], seen)
      BY <1>1, <2>3, <3>1 DEF Compare, Fits, Running, Steps
    <3>4. Goes("commit", req[r], seen)
      BY <1>1, <1>2, <2>1, <2>3, <3>1, <3>2, <3>3 DEF Compare, Goto, Runs, Steps, Product
    <3> QED
      BY <3>4
  <2> QED
    BY <1>10, <2>2, <2>3
<1> QED
  BY <1>3, <1>4, <1>5, <1>6, <1>7, <1>8, <1>9, <1>10 DEF Step

LEMMA TypedStep ==
  ASSUME Typed, NEW r \in Requests, Step(r)
  PROVE  Typed'
<1>1. PICK s, q, seen : /\ Runs(s, q, seen)
                        /\ pc' = [pc EXCEPT ![r] = s]
                        /\ req' = [req EXCEPT ![r] = q]
                        /\ saw' = [saw EXCEPT ![r] = seen]
  BY StepRuns
<1>2. /\ product' \in [Products -> Rows \cup {None}]
      /\ slugs' \in [Slugs -> Reservations \cup {None}]
      /\ config' \in [Products -> StoredBodies]
      /\ reverted' \in BOOLEAN
      /\ \A p \in Products : product[p] # None => product'[p] # None
  BY RowsType DEF Typed
<1>3. /\ pc' \in [Requests -> Steps] /\ req' \in [Requests -> Commands \cup {NoCommand}]
      /\ saw' \in [Requests -> Remembered]
  BY <1>1 DEF Runs, Typed, TypeOK, Remembered
<1>4. ASSUME NEW o \in Requests, pc'[o] \in Running
      PROVE  req'[o] \in Commands /\ product'[req'[o].product] # None /\ saw'[o].row \in Rows
  <2>1. req'[o] \in Commands /\ product[req'[o].product] # None /\ saw'[o].row \in Rows
    BY <1>1, <1>4 DEF Runs, Typed, TypeOK, Product
  <2> QED
    BY <1>2, <2>1, CommandShape
<1>5. StepsFit'
  BY <1>1 DEF Runs, StepsFit, Typed, TypeOK
<1> QED
  BY <1>2, <1>3, <1>4, <1>5 DEF Typed, TypeOK, Product, Remembered

PublishedRow(s) ==
  [NewRow(s) EXCEPT !.version = 2, !.status = "published", !.everPublished = TRUE]

\* The products that were created, and those that were published, at the start.
StartsWith(home, created, published) ==
  /\ product = [p \in Products |->
       IF p \in published THEN PublishedRow(home[p])
       ELSE IF p \in created THEN NewRow(home[p]) ELSE None]
  /\ slugs = [s \in Slugs |->
       IF \E p \in created : home[p] = s
       THEN [product |-> CHOOSE p \in created : home[p] = s, canonical |-> TRUE]
       ELSE None]

LEMMA PublishedType ==
  ASSUME NEW s \in Slugs
  PROVE  /\ PublishedRow(s) \in Rows
         /\ PublishedRow(s).slug = s /\ PublishedRow(s).everPublished
<1>1. NewRow(s) \in Rows /\ NewRow(s).slug = s
  BY NewRowType DEF NewRow
<1>2. \A row \in Rows : [row EXCEPT !.version = 2] \in Rows
                        /\ [row EXCEPT !.version = 2].slug = row.slug
  BY DEF Rows
<1>3. \A row \in Rows : [row EXCEPT !.status = "published"] \in Rows
                        /\ [row EXCEPT !.status = "published"].slug = row.slug
  BY DEF Rows, ProductStatuses
<1>4. \A row \in Rows : [row EXCEPT !.everPublished = TRUE] \in Rows
                        /\ [row EXCEPT !.everPublished = TRUE].slug = row.slug
                        /\ [row EXCEPT !.everPublished = TRUE].everPublished
  BY DEF Rows
<1> QED
  BY <1>1, <1>2, <1>3, <1>4 DEF PublishedRow

LEMMA Starts ==
  ASSUME Init
  PROVE  \E home \in [Products -> Slugs], created \in SUBSET Products :
           IsInjective(home) /\ \E published \in SUBSET created :
             StartsWith(home, created, published)
<1>1. PICK home \in {f \in [Products -> Slugs] : IsInjective(f)} :
        \E created \in SUBSET Products : \E published \in SUBSET created :
          StartsWith(home, created, published)
  BY DEF Init, StartsWith, PublishedRow
<1> QED
  BY <1>1

LEMMA TypedInit ==
  ASSUME Init
  PROVE  Typed
<1>1. PICK home \in [Products -> Slugs], created \in SUBSET Products,
          published \in SUBSET Products : StartsWith(home, created, published)
  BY Starts
<1>2. product \in [Products -> Rows \cup {None}]
  BY <1>1, NewRowType, PublishedType DEF StartsWith
<1>3. slugs \in [Slugs -> Reservations \cup {None}]
  <2>1. ASSUME NEW s \in Slugs, \E p \in created : home[p] = s
        PROVE  [product |-> CHOOSE p \in created : home[p] = s, canonical |-> TRUE]
                 \in Reservations
    <3>1. (CHOOSE p \in created : home[p] = s) \in created
      BY <2>1
    <3> QED
      BY <3>1 DEF Reservations
  <2>2. slugs = [s \in Slugs |->
          IF \E p \in created : home[p] = s
          THEN [product |-> CHOOSE p \in created : home[p] = s, canonical |-> TRUE]
          ELSE None]
    BY <1>1 DEF StartsWith
  <2>3. ASSUME NEW s \in Slugs
        PROVE  slugs[s] \in Reservations \cup {None}
    <3>1. CASE \E p \in created : home[p] = s
      BY <2>1, <2>2, <3>1
    <3>2. CASE ~ \E p \in created : home[p] = s
      BY <2>2, <3>2
    <3> QED
      BY <3>1, <3>2
  <2>4. slugs = [s \in Slugs |-> slugs[s]]
    BY <2>2
  <2> QED
    BY <2>3, <2>4
<1>4. config \in [Products -> StoredBodies]
  <2>1. PICK c \in Stocked : config = [p \in Products |-> c]
    BY DEF Init
  <2> QED
    BY <2>1, BodiesShape
<1>5. /\ pc = [r \in Requests |-> "idle"] /\ req = [r \in Requests |-> NoCommand]
      /\ saw = [r \in Requests |-> NothingSeen] /\ reverted = FALSE
  BY DEF Init
<1>6. TypeOK
  BY <1>2, <1>3, <1>4, <1>5, NothingType, StepsDisjoint DEF TypeOK, Remembered, Steps
<1>7. Fits("idle", NoCommand, NothingSeen)
  BY StepsDisjoint DEF Fits, NothingSeen, NoCommand
<1> QED
  BY <1>5, <1>6, <1>7 DEF Typed, StepsFit

LEMMA TypedStutter ==
  ASSUME Typed, UNCHANGED vars
  PROVE  Typed'
BY DEF Typed, TypeOK, StepsFit, Fits, Product, vars, rows

LEMMA StaysTyped == ReadSpec => []Typed
<1>1. ReadInit => Typed
  BY TypedInit DEF ReadInit
<1>2. Typed /\ [ReadNext]_readVars => Typed'
  BY TypedStep, TypedStutter, Steps1 DEF readVars
<1> QED
  BY <1>1, <1>2, PTL DEF ReadSpec

\* Type correctness: each request is at a step that its command takes, and what
\* it works on is there for as long as it does.
THEOREM TypeCorrect == ReadSpec => []TypeOK
BY StaysTyped, PTL DEF Typed
-----------------------------------------------------------------------------
(* One step at a time *)

LEMMA OthersKept ==
  ASSUME Typed, NEW r \in Requests, Step(r), NEW o \in Requests, o # r
  PROVE  pc'[o] = pc[o] /\ req'[o] = req[o] /\ saw'[o] = saw[o]
BY StepRuns DEF Typed, TypeOK

\* How a request comes to a step, without having written anything on the way.
LEMMA Arrives ==
  ASSUME Typed, NEW r \in Requests, Step(r), pc'[r] \in Running
  PROVE  /\ UNCHANGED rows
         /\ pc'[r] = "find" => CheckArchive(r)
         /\ pc'[r] = "loadDetail" => Find(r) \/ FindChecked(r)
         /\ pc'[r] = "findSlug" => Find(r)
         /\ pc'[r] = "moveSlug" => FindsSlug(r)
         /\ pc'[r] = "compare" => Find(r) \/ LoadForPublication(r) \/ MovesOn(r)
         /\ pc'[r] = "replace" => LoadForReplacement(r)
         /\ pc'[r] = "commit" => Replaces(r) \/ Compare(r)
<1>1. \A s : Goto(r, s) => pc'[r] = s
  BY DEF Goto, Typed, TypeOK
<1>2. ASSUME Find(r)
      PROVE  pc'[r] \in {"loadDetail", "findSlug", "compare"}
  <2>1. PICK q \in Requested : Goto(r, FirstStep(q, product[q.product]))
    BY <1>2 DEF Find
  <2> QED
    BY <1>1, <2>1, FirstStepType DEF Requested
<1>3. /\ CheckArchive(r) => pc'[r] = "find"
      /\ FindChecked(r) => pc'[r] = "loadDetail"
      /\ LoadForPublication(r) => pc'[r] = "compare"
      /\ LoadForReplacement(r) => pc'[r] = "replace"
      /\ Replaces(r) => pc'[r] = "commit"
      /\ FindsSlug(r) => pc'[r] = "moveSlug"
      /\ MovesOn(r) => pc'[r] = "compare"
      /\ Compare(r) => pc'[r] = "commit"
  BY <1>1 DEF CheckArchive, FindChecked, LoadForPublication, LoadForReplacement,
     Replaces, FindsSlug, MovesOn, Compare
<1>4. ~ Rollback(r) /\ ~ Create(r) /\ ~ Commit(r) /\ ~ Reads(r)
  BY <1>1, StepsDisjoint DEF Rollback, Create, Commit, Reads, End
<1>5. UNCHANGED rows
  BY <1>4 DEF Step, Find, CheckArchive, FindChecked, LoadForPublication,
     LoadForReplacement, Replaces, FindsSlug, MovesOn, Compare
<1> QED
  BY <1>2, <1>3, <1>4, <1>5 DEF Step

\* A step writes only to create a product or to commit.
LEMMA Writes ==
  ASSUME NEW r \in Requests, Step(r)
  PROVE  UNCHANGED rows \/ Create(r) \/ Commit(r)
BY DEF Step, Rollback, Reads, Find, CheckArchive, FindChecked, LoadForPublication,
   LoadForReplacement, Replaces, FindsSlug, MovesOn, Compare

\* The row that a commit leaves.
LEMMA CommitRow ==
  ASSUME Typed, NEW r \in Requests, Commit(r)
  PROVE  /\ Product(r) \in Products /\ product[Product(r)] # None
         /\ product' = [product EXCEPT ![Product(r)] =
                          [Saved(r) EXCEPT !.version = Incremented(@)]]
         /\ product'[Product(r)] \in Rows
         /\ product'[Product(r)].version = Saved(r).version + 1
         /\ product'[Product(r)].slug = Saved(r).slug
         /\ Saved(r) \in Rows /\ Entity(r) \in Rows /\ saw[r].row \in Rows
         /\ product[Product(r)] \in Rows /\ req[r] \in Commands
<1>1. pc[r] \in Running
  BY DEF Commit, Running, Steps
<1>2. /\ Product(r) \in Products /\ Saved(r) \in Rows /\ Entity(r) \in Rows
      /\ saw[r].row \in Rows /\ product[Product(r)] \in Rows
      /\ product[Product(r)] # None /\ req[r] \in Commands
  BY <1>1, EntityType DEF Typed, TypeOK
<1>3. [Saved(r) EXCEPT !.version = Incremented(@)] \in Rows
  BY <1>1, SavedNext DEF Typed
<1>4. product' = [product EXCEPT ![Product(r)] = [Saved(r) EXCEPT !.version = Incremented(@)]]
  BY DEF Commit
<1>5. product'[Product(r)] = [Saved(r) EXCEPT !.version = Incremented(@)]
  BY <1>2, <1>4 DEF Typed, TypeOK
<1>6. ASSUME NEW row \in Rows
      PROVE  /\ [row EXCEPT !.version = Incremented(@)].version = row.version + 1
             /\ [row EXCEPT !.version = Incremented(@)].slug = row.slug
  BY DEF Rows, Incremented
<1> QED
  BY <1>2, <1>3, <1>4, <1>5, <1>6
-----------------------------------------------------------------------------
(* Configurations *)

Accepted(c) == Consistent(c) /\ DistinctVariants(c)

\* What is stored was accepted, and a body that is to be stored is, with the
\* statuses its caller may give.
ConfigInv ==
  /\ \A p \in Products : Accepted(config[p])
  /\ \A r \in Requests : pc[r] \in {"replace", "commit"} /\ req[r].kind = "replace" =>
       /\ Consistent(req[r].body) /\ Permitted(saw[r].prior, req[r].body)
       /\ pc[r] = "commit" => DistinctVariants(Folded(req[r].body))

LEMMA ConfigStep ==
  ASSUME Typed, ConfigInv, NEW r \in Requests, Step(r)
  PROVE  ConfigInv'
<1>1. ASSUME NEW p \in Products
      PROVE  Accepted(config'[p])
  <2>1. CASE UNCHANGED rows
    BY <2>1 DEF rows, ConfigInv
  <2>2. CASE Create(r)
    <3>1. PICK o \in Products : config' = [config EXCEPT ![o] = Default]
      BY <2>2 DEF Create
    <3>2. Accepted(Default)
      BY CatalogAssumption DEF Accepted
    <3> QED
      BY <3>1, <3>2 DEF ConfigInv, Typed, TypeOK
  <2>3. CASE Commit(r)
    <3>1. CASE req[r].kind = "replace"
      <4>1. config' = [config EXCEPT ![Product(r)] = Folded(req[r].body)]
        BY <2>3, <3>1 DEF Commit
      <4>2. WellFormed(req[r].body)
        BY <2>3, <3>1, CommitRow, CommandShape, BodiesShape
      <4>3. Consistent(req[r].body) /\ DistinctVariants(Folded(req[r].body))
        BY <2>3, <3>1 DEF Commit, ConfigInv
      <4>4. Accepted(Folded(req[r].body))
        BY <4>2, <4>3, FoldedConsistent DEF Accepted
      <4> QED
        BY <4>1, <4>4 DEF ConfigInv, Typed, TypeOK
    <3>2. CASE req[r].kind # "replace"
      BY <2>3, <3>2 DEF Commit, ConfigInv
    <3> QED
      BY <3>1, <3>2
  <2> QED
    BY <2>1, <2>2, <2>3, Writes
<1>2. ASSUME NEW o \in Requests, pc'[o] \in {"replace", "commit"}, req'[o].kind = "replace"
      PROVE  /\ Consistent(req'[o].body) /\ Permitted(saw'[o].prior, req'[o].body)
             /\ pc'[o] = "commit" => DistinctVariants(Folded(req'[o].body))
  <2>1. CASE o # r
    BY <1>2, <2>1, OthersKept DEF ConfigInv
  <2>2. CASE o = r /\ pc'[r] = "replace"
    <3>1. LoadForReplacement(r)
      BY <2>2, Arrives DEF Running, Steps
    <3>2. PICK body \in Configurations :
            /\ Permitted(saw[r].prior, body)
            /\ Replaceable(saw[r].row, config[Product(r)], body)
            /\ req' = [req EXCEPT ![r].body = body]
      BY <3>1 DEF LoadForReplacement
    <3>3. req[r] \in Replacements
      BY <3>1 DEF LoadForReplacement, Typed, TypeOK, Commands, Edits, Transitioned,
                  Running, Steps
    <3>4. req'[r].body = body
      BY <3>2, <3>3 DEF Typed, TypeOK, Replacements
    <3> QED
      BY <2>2, <3>1, <3>2, <3>4 DEF LoadForReplacement, Replaceable
  <2>3. CASE o = r /\ pc'[r] = "commit"
    <3>1. Replaces(r) \/ Compare(r)
      BY <2>3, Arrives DEF Running, Steps
    <3>2. ~ Compare(r)
      BY <1>2, <2>3 DEF Compare, Typed, StepsFit, Fits
    <3> QED
      BY <1>2, <2>3, <3>1, <3>2 DEF Replaces, ConfigInv
  <2> QED
    BY <1>2, <2>1, <2>2, <2>3
<1> QED
  BY <1>1, <1>2 DEF ConfigInv

LEMMA ConfigInit ==
  ASSUME Init
  PROVE  ConfigInv
<1>1. PICK c \in Stocked : config = [p \in Products |-> c]
  BY DEF Init
<1>2. \A p \in Products : config[p] = c
  BY <1>1
<1>3. Accepted(c)
  BY CatalogAssumption DEF Accepted
<1>4. \A r \in Requests : pc[r] = "idle"
  BY DEF Init
<1> QED
  BY <1>2, <1>3, <1>4 DEF ConfigInv

LEMMA ConfigStutter ==
  ASSUME ConfigInv, UNCHANGED vars
  PROVE  ConfigInv'
BY DEF ConfigInv, vars, rows

LEMMA StaysAccepted == ReadSpec => []ConfigInv
<1>1. ReadInit => ConfigInv
  BY ConfigInit DEF ReadInit
<1>2. Typed /\ ConfigInv /\ [ReadNext]_readVars => ConfigInv'
  BY ConfigStep, ConfigStutter, Steps1 DEF readVars
<1> QED
  BY <1>1, <1>2, StaysTyped, PTL DEF ReadSpec

\* In whatever order commands overlapped, until one has written an old version back:
\* the stored variants are different choices of one value of every option.
THEOREM CoherentAlways == ReadSpec => []ConfigurationsCoherent
<1>1. TypeOK /\ ConfigInv => ConfigurationsCoherent
  <2> SUFFICES ASSUME TypeOK, ConfigInv, NEW p \in Products
               PROVE  Coherent(config[p])
    BY DEF ConfigurationsCoherent
  <2>1. WellFormed(config[p]) /\ Consistent(config[p])
    BY BodiesShape DEF TypeOK, ConfigInv, Accepted
  <2> QED
    BY <2>1, ConsistentIsCoherent
<1> QED
  BY <1>1, StaysAccepted, TypeCorrect, PTL
-----------------------------------------------------------------------------
(* Slugs *)

OwnedBy(s, p) == slugs[s] # None /\ slugs[s].product = p

CanonicalSlugs(p) == {s \in SlugsOf(p) : slugs[s].canonical}

\* What a request found of a slug stays so until it commits: a reservation has
\* one owner forever, and who is about to take a slug is alone with it.
Undisturbed ==
  /\ \A r \in Requests : pc[r] = "moveSlug" /\ saw[r].reservation # None =>
       OwnedBy(req[r].slug, Product(r))
  /\ \A r \in Requests : MovesSlug(r) =>
       slugs[req[r].slug] = None \/ OwnedBy(req[r].slug, Product(r))
  /\ \A r, o \in Requests : r # o /\ MovesSlug(r) /\ MovesSlug(o) =>
       req[r].slug # req[o].slug /\ Product(r) # Product(o)
  /\ \A r \in Requests : pc[r] \in Running => OwnedBy(saw[r].row.slug, Product(r))

\* The rows of slugs belong to products, and each product has its slug.
Reserved ==
  /\ \A s \in Slugs : slugs[s] # None => product[slugs[s].product] # None
  /\ \A p \in Products : product[p] # None =>
       OwnedBy(product[p].slug, p) /\ \E s \in Slugs : CanonicalSlugs(p) = {s}

SlugInv == Undisturbed /\ Reserved

\* Only Compare and MovesOn bring a request to where it is to take a slug.
LEMMA MovesBegin ==
  ASSUME Typed, NEW r \in Requests, Step(r), MovesSlug(r)'
  PROVE  /\ UNCHANGED rows /\ req'[r] = req[r]
         /\ MovesSlug(r) \/ MovesOn(r)
<1>1. pc'[r] \in {"compare", "commit"} /\ req'[r].kind = "edit"
      /\ req'[r].slug # saw'[r].row.slug
  BY DEF MovesSlug
<1>2. UNCHANGED rows
  BY <1>1, Arrives DEF Running, Steps
<1>3. ASSUME Find(r), pc'[r] = "compare"
      PROVE  FALSE
  <2>1. PICK q \in Requested :
          /\ req' = [req EXCEPT ![r] = q]
          /\ saw' = [saw EXCEPT ![r].row = product[q.product]]
          /\ Goto(r, FirstStep(q, product[q.product]))
    BY <1>3 DEF Find
  <2>2. req'[r] = q /\ saw'[r].row = product[q.product]
        /\ FirstStep(q, product[q.product]) = "compare"
    BY <1>3, <2>1 DEF Goto, Typed, TypeOK
  <2> QED
    BY <1>1, <2>2 DEF FirstStep
<1>4. ASSUME LoadForPublication(r) \/ Replaces(r)
      PROVE  FALSE
  BY <1>1, <1>4 DEF LoadForPublication, Replaces, Typed, StepsFit, Fits
<1>5. MovesOn(r) \/ Compare(r)
  BY <1>1, <1>3, <1>4, Arrives DEF Running, Steps
<1>6. ASSUME Compare(r)
      PROVE  MovesSlug(r) /\ req'[r] = req[r]
  <2>1. saw'[r].row = saw[r].row
    BY <1>6 DEF Compare, Typed, TypeOK
  <2> QED
    BY <1>1, <1>6, <2>1 DEF Compare, MovesSlug
<1> QED
  BY <1>2, <1>5, <1>6 DEF MovesOn

\* A step takes at most one slug, and one that is free or the product's own.
LEMMA SlugWrites ==
  ASSUME Typed, SlugInv, NEW r \in Requests, Step(r)
  PROVE  \/ UNCHANGED slugs
         \/ \E p \in Products, s \in Slugs :
              /\ Create(r) /\ product[p] = None /\ slugs[s] = None /\ ~ SlugBusy(s)
              /\ product' = [product EXCEPT ![p] = NewRow(s)]
              /\ slugs' = [slugs EXCEPT ![s] = [product |-> p, canonical |-> TRUE]]
         \/ /\ Commit(r) /\ MovesSlug(r)
            /\ Product(r) \in Products /\ req[r].slug \in Slugs
            /\ slugs' = MovedSlugs(Product(r), req[r].slug)
<1>1. CASE UNCHANGED rows
  BY <1>1 DEF rows
<1>2. CASE Create(r)
  BY <1>2 DEF Create
<1>3. CASE Commit(r) /\ MovesSlug(r)
  <2>1. req[r] \in Commands
    BY <1>3 DEF Commit, Typed, TypeOK, Running, Steps
  <2>2. Product(r) \in Products /\ req[r].slug \in Slugs
    BY <1>3, <2>1, CommandShape DEF MovesSlug, Product
  <2> QED
    BY <1>3, <2>2 DEF Commit
<1>4. CASE Commit(r) /\ ~ MovesSlug(r)
  BY <1>4 DEF Commit
<1> QED
  BY <1>1, <1>2, <1>3, <1>4, Writes

\* A reservation keeps its product.
LEMMA OwnersKept ==
  ASSUME Typed, SlugInv, NEW r \in Requests, Step(r), NEW s \in Slugs, slugs[s] # None
  PROVE  slugs'[s] # None /\ slugs'[s].product = slugs[s].product
<1>1. \A p \in Products : [product |-> p, canonical |-> TRUE] # None
  <2>1. \A p \in Products : [product |-> p, canonical |-> TRUE] \in Reservations
    BY DEF Reservations
  <2> QED
    BY <2>1, NoneAssumption
<1>2. CASE UNCHANGED slugs
  BY <1>2
<1>3. CASE \E p \in Products, t \in Slugs :
             /\ slugs[t] = None
             /\ slugs' = [slugs EXCEPT ![t] = [product |-> p, canonical |-> TRUE]]
  BY <1>3 DEF Typed, TypeOK
<1>4. CASE /\ MovesSlug(r) /\ Product(r) \in Products
           /\ slugs' = MovedSlugs(Product(r), req[r].slug)
  <2>1. CASE s = req[r].slug
    <3>1. slugs'[s] = [product |-> Product(r), canonical |-> TRUE]
      BY <1>4, <2>1 DEF MovedSlugs
    <3>2. slugs[s].product = Product(r)
      BY <1>4, <2>1 DEF SlugInv, Undisturbed, OwnedBy
    <3> QED
      BY <1>1, <1>4, <3>1, <3>2
  <2>2. CASE s # req[r].slug /\ s \in SlugsOf(Product(r))
    <3>1. slugs'[s] = [slugs[s] EXCEPT !.canonical = FALSE]
      BY <1>4, <2>2 DEF MovedSlugs
    <3>2. slugs[s] \in Reservations
      BY DEF Typed, TypeOK
    <3>3. slugs'[s] \in Reservations /\ slugs'[s].product = slugs[s].product
      BY <3>1, <3>2 DEF Reservations
    <3> QED
      BY <3>3, NoneAssumption
  <2>3. CASE s # req[r].slug /\ s \notin SlugsOf(Product(r))
    BY <1>4, <2>3 DEF MovedSlugs
  <2> QED
    BY <2>1, <2>2, <2>3
<1> QED
  BY <1>2, <1>3, <1>4, SlugWrites

\* The row a request works on is one that it has just read, or read before.
LEMMA RowSeen ==
  ASSUME Typed, NEW r \in Requests, Step(r), pc'[r] \in Running
  PROVE  \/ /\ pc[r] \in Running
            /\ saw'[r].row = saw[r].row /\ req'[r].product = req[r].product
         \/ saw'[r].row = product[req'[r].product]
<1>1. CASE Find(r) \/ CheckArchive(r)
  <2>1. PICK q \in Requested :
          /\ req' = [req EXCEPT ![r] = q]
          /\ \/ saw' = [saw EXCEPT ![r].row = product[q.product]]
             \/ saw' = [saw EXCEPT ![r].row = product[q.product],
                                   ![r].prior = Noted(q.product)]
    BY <1>1 DEF Find, CheckArchive, Noted
  <2>2. req'[r] = q /\ saw'[r].row = product[q.product]
    BY <2>1 DEF Typed, TypeOK
  <2> QED
    BY <2>2
<1>2. CASE FindChecked(r)
  BY <1>2 DEF FindChecked, Product, Typed, TypeOK
<1>3. CASE LoadForReplacement(r)
  BY <1>3 DEF LoadForReplacement, Running, Steps, Typed, TypeOK
<1>4. CASE LoadForPublication(r) \/ Replaces(r) \/ MovesOn(r)
  BY <1>4 DEF LoadForPublication, Replaces, MovesOn, Running, Steps
<1>5. CASE FindsSlug(r) \/ Compare(r)
  BY <1>5 DEF FindsSlug, Compare, Running, Steps, Typed, TypeOK
<1> QED
  BY <1>1, <1>2, <1>3, <1>4, <1>5, Arrives DEF Running, Steps

LEMMA SlugShape ==
  ASSUME Typed, NEW r \in Requests
  PROVE  /\ pc[r] \in Running => saw[r].row.slug \in Slugs
         /\ pc[r] = "moveSlug" \/ MovesSlug(r) => req[r].slug \in Slugs
<1>1. pc[r] \in Running => saw[r].row \in Rows /\ req[r] \in Commands
  BY DEF Typed, TypeOK
<1>2. pc[r] = "moveSlug" \/ MovesSlug(r) => pc[r] \in Running /\ req[r].kind = "edit"
  BY DEF Typed, StepsFit, Fits, MovesSlug, Running, Steps
<1> QED
  BY <1>1, <1>2, CommandShape DEF Rows

LEMMA OwnedKept ==
  ASSUME Typed, SlugInv, NEW r \in Requests, Step(r), NEW s \in Slugs, NEW p, OwnedBy(s, p)
  PROVE  slugs'[s] # None /\ slugs'[s].product = p
BY OwnersKept DEF OwnedBy

LEMMA UndisturbedStep ==
  ASSUME Typed, SlugInv, NEW r \in Requests, Step(r)
  PROVE  Undisturbed'
<1> USE DEF OwnedBy
<1>0. /\ Typed' /\ Undisturbed /\ Reserved
      /\ \A o \in Requests \ {r} : pc'[o] = pc[o] /\ req'[o] = req[o] /\ saw'[o] = saw[o]
      /\ \A o \in Requests \ {r} : MovesSlug(o)' <=> MovesSlug(o)
  BY TypedStep, OthersKept DEF SlugInv, MovesSlug
<1>1. ASSUME NEW o \in Requests, pc'[o] = "moveSlug", saw'[o].reservation # None
      PROVE  slugs'[req'[o].slug] # None /\ slugs'[req'[o].slug].product = req'[o].product
  <2>1. CASE o # r
    <3>1. OwnedBy(req[o].slug, Product(o)) /\ req[o].slug \in Slugs
      BY <1>0, <1>1, <2>1, SlugShape DEF Undisturbed
    <3> QED
      BY <1>0, <2>1, <3>1, OwnedKept DEF Product
  <2>2. CASE o = r
    <3>1. FindsSlug(r)
      BY <1>1, <2>2, Arrives DEF Running, Steps
    <3>2. saw'[r].reservation = slugs[req[r].slug]
      BY <3>1 DEF FindsSlug, Typed, TypeOK
    <3> QED
      BY <1>1, <2>2, <3>1, <3>2 DEF FindsSlug, Product, rows
  <2> QED
    BY <2>1, <2>2
<1>2. ASSUME NEW o \in Requests, MovesSlug(o)'
      PROVE  \/ slugs'[req'[o].slug] = None
             \/ slugs'[req'[o].slug] # None /\ slugs'[req'[o].slug].product = req'[o].product
  <2>1. CASE o # r
    <3>1. MovesSlug(o) /\ req[o].slug \in Slugs /\ req'[o] = req[o]
      BY <1>0, <1>2, <2>1, SlugShape
    <3>2. CASE slugs[req[o].slug] # None
      <4>1. OwnedBy(req[o].slug, Product(o))
        BY <1>0, <3>1, <3>2 DEF Undisturbed
      <4> QED
        BY <3>1, <4>1, OwnedKept DEF Product
    <3>3. CASE slugs[req[o].slug] = None
      <4>1. CASE UNCHANGED slugs
        BY <3>1, <3>3, <4>1
      <4>2. CASE \E p \in Products, s \in Slugs :
                   /\ ~ SlugBusy(s)
                   /\ slugs' = [slugs EXCEPT ![s] = [product |-> p, canonical |-> TRUE]]
        BY <3>1, <3>3, <4>2 DEF SlugBusy, Typed, TypeOK
      <4>3. CASE MovesSlug(r) /\ slugs' = MovedSlugs(Product(r), req[r].slug)
        <5>1. req[o].slug # req[r].slug
          BY <1>0, <2>1, <3>1, <4>3 DEF Undisturbed
        <5> QED
          BY <3>1, <3>3, <4>3, <5>1 DEF MovedSlugs, SlugsOf
      <4> QED
        BY <4>1, <4>2, <4>3, SlugWrites
    <3> QED
      BY <3>2, <3>3
  <2>2. CASE o = r
    <3>1. UNCHANGED slugs /\ req'[r] = req[r] /\ (MovesSlug(r) \/ MovesOn(r))
      BY <1>2, <2>2, MovesBegin DEF rows
    <3> QED
      BY <1>0, <2>2, <3>1 DEF Undisturbed, MovesOn, Product
  <2> QED
    BY <2>1, <2>2
<1>3. ASSUME NEW a \in Requests, NEW o \in Requests, a # o, MovesSlug(a)', MovesSlug(o)'
      PROVE  req'[a].slug # req'[o].slug /\ req'[a].product # req'[o].product
  <2>1. ASSUME NEW b \in Requests, b # r, MovesSlug(r)', MovesSlug(b)
        PROVE  req'[r].slug # req[b].slug /\ req'[r].product # req[b].product
    BY <1>0, <2>1, MovesBegin DEF Undisturbed, MovesOn, SlugBusy, SlugsOfBusy, Product
  <2>2. CASE a # r /\ o # r
    BY <1>0, <1>3, <2>2 DEF Undisturbed, Product
  <2> QED
    BY <1>0, <1>3, <2>1, <2>2
<1>4. ASSUME NEW o \in Requests, pc'[o] \in Running
      PROVE  slugs'[saw'[o].row.slug] # None /\ slugs'[saw'[o].row.slug].product = req'[o].product
  <2>1. CASE o # r
    <3>1. OwnedBy(saw[o].row.slug, Product(o)) /\ saw[o].row.slug \in Slugs
      BY <1>0, <1>4, <2>1, SlugShape DEF Undisturbed
    <3> QED
      BY <1>0, <2>1, <3>1, OwnedKept DEF Product
  <2>2. CASE o = r
    <3>1. UNCHANGED rows
      BY <1>4, <2>2, Arrives
    <3>2. req'[r] \in Commands /\ product'[req'[r].product] # None
      BY <1>0, <1>4, <2>2 DEF Typed, TypeOK, Product
    <3>3. ASSUME saw'[r].row = product[req'[r].product]
          PROVE  OwnedBy(saw'[r].row.slug, req'[r].product)
      BY <1>0, <3>1, <3>2, <3>3, CommandShape DEF Reserved, rows
    <3>4. OwnedBy(saw'[r].row.slug, req'[r].product)
      BY <1>0, <1>4, <2>2, <3>3, RowSeen DEF Undisturbed, Product
    <3> QED
      BY <2>2, <3>1, <3>4 DEF rows
  <2> QED
    BY <2>1, <2>2
<1> QED
  BY <1>1, <1>2, <1>3, <1>4 DEF Undisturbed, Product

LEMMA SavedSlug ==
  ASSUME NEW r, saw[r].row \in Rows, req[r] \in Commands
  PROVE  \/ Saved(r).slug = product[Product(r)].slug
         \/ Saved(r).slug = saw[r].row.slug
         \/ req[r].kind = "edit" /\ Saved(r).slug = req[r].slug
<1>1. Saved(r).slug \in {product[Product(r)].slug, Entity(r).slug}
  BY DEF Saved, Columns
<1>2. req[r].kind = "edit" => Entity(r).slug = req[r].slug
  BY DEF Entity, Rows
<1>3. req[r].kind = "transition" => Entity(r).slug = saw[r].row.slug
  BY DEF Entity, Rows
<1>4. req[r].kind = "replace" => Entity(r).slug = saw[r].row.slug
  BY DEF Entity
<1> QED
  BY <1>1, <1>2, <1>3, <1>4, CommandShape

\* p has the slugs it had, and these have the state they had.
LEMMA SameCanonical ==
  ASSUME NEW p, \A s \in Slugs : \/ slugs'[s] = slugs[s]
                                 \/ /\ slugs[s] # None => slugs[s].product # p
                                    /\ slugs'[s] # None => slugs'[s].product # p
  PROVE  CanonicalSlugs(p)' = CanonicalSlugs(p)
BY DEF CanonicalSlugs, SlugsOf

LEMMA ReservedStep ==
  ASSUME Typed, SlugInv, NEW r \in Requests, Step(r)
  PROVE  Reserved'
<1>0. /\ Typed' /\ Undisturbed /\ Reserved
      /\ \A p \in Products : product[p] # None => product'[p] # None
      /\ slugs \in [Slugs -> Reservations \cup {None}]
      /\ product \in [Products -> Rows \cup {None}]
  BY TypedStep, RowsType DEF SlugInv, Typed, TypeOK
<1>1. CASE UNCHANGED <<product, slugs>>
  BY <1>0, <1>1 DEF Reserved, OwnedBy, CanonicalSlugs, SlugsOf
<1>2. ASSUME NEW p \in Products, NEW s \in Slugs, product[p] = None, slugs[s] = None,
             product' = [product EXCEPT ![p] = NewRow(s)],
             slugs' = [slugs EXCEPT ![s] = [product |-> p, canonical |-> TRUE]]
      PROVE  Reserved'
  <2> DEFINE new == [product |-> p, canonical |-> TRUE]
  <2>1. new \in Reservations /\ NewRow(s) \in Rows
    BY NewRowType DEF Reservations
  <2>2. /\ new # None /\ NewRow(s) # None /\ NewRow(s).slug = s
        /\ slugs'[s] = new /\ product'[p] = NewRow(s)
        /\ \A t \in Slugs \ {s} : slugs'[t] = slugs[t]
        /\ \A o \in Products \ {p} : product'[o] = product[o]
    BY <1>0, <1>2, <2>1, NoneAssumption DEF NewRow
  <2>3. \A t \in Slugs : slugs[t] # None => slugs[t].product # p
    BY <1>0, <1>2 DEF Reserved
  <2>4. ASSUME NEW t \in Slugs, slugs'[t] # None
        PROVE  product'[slugs'[t].product] # None
    BY <1>0, <2>2, <2>4 DEF Reserved, Reservations
  <2>5. ASSUME NEW o \in Products, product'[o] # None
        PROVE  /\ slugs'[product'[o].slug] # None /\ slugs'[product'[o].slug].product = o
               /\ \E t \in Slugs : CanonicalSlugs(o)' = {t}
    <3>1. CASE o = p
      <4>1. CanonicalSlugs(p)' = {s}
        BY <2>2, <2>3 DEF CanonicalSlugs, SlugsOf
      <4> QED
        BY <2>2, <3>1, <4>1
    <3>2. CASE o # p
      <4>1. product'[o] = product[o] /\ product[o] # None /\ product[o].slug \in Slugs
        BY <1>0, <2>2, <2>5, <3>2 DEF Rows
      <4>2. OwnedBy(product[o].slug, o) /\ \E t \in Slugs : CanonicalSlugs(o) = {t}
        BY <1>0, <4>1 DEF Reserved
      <4>3. CanonicalSlugs(o)' = CanonicalSlugs(o)
        BY <1>2, <2>2, <3>2, SameCanonical
      <4> QED
        BY <1>2, <2>2, <4>1, <4>2, <4>3 DEF OwnedBy
    <3> QED
      BY <3>1, <3>2
  <2> QED
    BY <2>4, <2>5 DEF Reserved, OwnedBy
<1>3. ASSUME Commit(r)
      PROVE  Reserved'
  <2>0. PICK p, s : p = Product(r) /\ s = req[r].slug
    OBVIOUS
  <2>1. /\ p \in Products /\ product[p] # None /\ product'[p] \in Rows
        /\ product'[p].slug = Saved(r).slug
        /\ \A o \in Products \ {p} : product'[o] = product[o]
        /\ saw[r].row \in Rows /\ req[r] \in Commands
    BY <1>0, <1>3, <2>0, CommitRow
  <2>2. OwnedBy(product[p].slug, p) /\ OwnedBy(saw[r].row.slug, p)
        /\ product[p].slug \in Slugs /\ saw[r].row.slug \in Slugs
    BY <1>0, <1>3, <2>0, <2>1, SlugShape DEF Commit, Reserved, Undisturbed, Running, Steps, Rows
  <2>3. \/ product'[p].slug = product[p].slug
        \/ product'[p].slug = saw[r].row.slug
        \/ req[r].kind = "edit" /\ product'[p].slug = s
    BY <2>0, <2>1, SavedSlug
  <2>4. CASE ~ MovesSlug(r)
    <3>1. UNCHANGED slugs
      BY <1>3, <2>4 DEF Commit
    <3>2. OwnedBy(product'[p].slug, p)
      BY <1>3, <2>0, <2>2, <2>3, <2>4 DEF Commit, MovesSlug
    <3>3. \A o \in Products : CanonicalSlugs(o)' = CanonicalSlugs(o)
      BY <3>1, SameCanonical
    <3> QED
      BY <1>0, <2>1, <3>1, <3>2, <3>3 DEF Reserved, OwnedBy, Reservations
  <2>5. CASE MovesSlug(r)
    <3> DEFINE new == [product |-> p, canonical |-> TRUE]
    <3>1. s \in Slugs /\ slugs' = MovedSlugs(p, s)
      BY <1>3, <2>0, <2>5, SlugShape DEF Commit
    <3>2. slugs[s] = None \/ OwnedBy(s, p)
      BY <1>0, <2>0, <2>5 DEF Undisturbed
    <3>3. new \in Reservations /\ new # None
      <4>1. new \in Reservations
        BY <2>1 DEF Reservations
      <4> QED
        BY <4>1, NoneAssumption
    <3>4. /\ slugs'[s] = new
          /\ \A t \in SlugsOf(p) \ {s} : slugs'[t] = [slugs[t] EXCEPT !.canonical = FALSE]
          /\ \A t \in Slugs \ {s} : t \notin SlugsOf(p) => slugs'[t] = slugs[t]
      BY <3>1 DEF MovedSlugs, SlugsOf
    <3>5. \A t \in SlugsOf(p) \ {s} :
            slugs'[t] # None /\ slugs'[t].product = p /\ ~ slugs'[t].canonical
      <4> SUFFICES ASSUME NEW t \in SlugsOf(p) \ {s}
                   PROVE  slugs'[t] # None /\ slugs'[t].product = p /\ ~ slugs'[t].canonical
        OBVIOUS
      <4>1. slugs[t] \in Reservations /\ slugs[t].product = p
        BY <1>0 DEF SlugsOf
      <4>2. slugs'[t] \in Reservations /\ slugs'[t].product = p /\ ~ slugs'[t].canonical
        BY <3>4, <4>1 DEF Reservations
      <4> QED
        BY <4>2, NoneAssumption
    <3>6. \A t \in Slugs : slugs'[t] # None =>
            \/ slugs'[t].product = p /\ (slugs'[t].canonical => t = s)
            \/ slugs'[t] = slugs[t] /\ slugs[t].product # p
      BY <3>4, <3>5 DEF SlugsOf
    <3>7. CanonicalSlugs(p)' = {s}
      <4>1. slugs'[s] # None /\ slugs'[s].product = p /\ slugs'[s].canonical
        BY <3>3, <3>4
      <4>2. \A t \in Slugs : slugs'[t] # None /\ slugs'[t].product = p /\ slugs'[t].canonical
                             => t = s
        BY <3>6
      <4> QED
        BY <3>1, <4>1, <4>2 DEF CanonicalSlugs, SlugsOf
    <3>8. \A t \in Slugs : slugs[t] # None /\ slugs[t].product = p =>
            slugs'[t] # None /\ slugs'[t].product = p
      BY <3>3, <3>4, <3>5 DEF SlugsOf
    <3>9. \A t \in Slugs : slugs'[t] # None => product'[slugs'[t].product] # None
      BY <1>0, <2>1, <3>6 DEF Reserved, Reservations
    <3>10. slugs'[product'[p].slug] # None /\ slugs'[product'[p].slug].product = p
      BY <2>2, <2>3, <3>1, <3>3, <3>4, <3>8 DEF OwnedBy
    <3>11. ASSUME NEW o \in Products \ {p}, product[o] # None
           PROVE  /\ slugs'[product[o].slug] # None /\ slugs'[product[o].slug].product = o
                  /\ \E t \in Slugs : CanonicalSlugs(o)' = {t}
      <4>1. product[o].slug \in Slugs /\ OwnedBy(product[o].slug, o)
            /\ \E t \in Slugs : CanonicalSlugs(o) = {t}
        BY <1>0, <3>11 DEF Reserved, Rows
      <4>2. \A t \in Slugs : \/ slugs'[t] = slugs[t]
                             \/ /\ slugs[t] # None => slugs[t].product # o
                                /\ slugs'[t] # None => slugs'[t].product # o
        BY <3>2, <3>3, <3>4, <3>6 DEF SlugsOf, OwnedBy
      <4>3. CanonicalSlugs(o)' = CanonicalSlugs(o)
        BY <4>2, SameCanonical
      <4> QED
        BY <4>1, <4>2, <4>3 DEF OwnedBy
    <3>12. ASSUME NEW o \in Products, product'[o] # None
           PROVE  /\ slugs'[product'[o].slug] # None /\ slugs'[product'[o].slug].product = o
                  /\ \E t \in Slugs : CanonicalSlugs(o)' = {t}
      <4>1. CASE o = p
        BY <3>1, <3>7, <3>10, <4>1
      <4>2. CASE o # p
        <5>1. product'[o] = product[o]
          BY <2>1, <4>2
        <5> QED
          BY <3>11, <3>12, <4>2, <5>1
      <4> QED
        BY <4>1, <4>2
    <3> QED
      BY <3>9, <3>12 DEF Reserved, OwnedBy
  <2> QED
    BY <2>4, <2>5
<1>4. ASSUME Create(r)
      PROVE  Reserved'
  <2>1. PICK p \in Products, s \in Slugs :
          /\ product[p] = None /\ slugs[s] = None
          /\ product' = [product EXCEPT ![p] = NewRow(s)]
          /\ slugs' = [slugs EXCEPT ![s] = [product |-> p, canonical |-> TRUE]]
    BY <1>4 DEF Create
  <2> QED
    BY <1>2, <2>1
<1> QED
  BY <1>1, <1>3, <1>4, Writes DEF rows

LEMMA SlugInit ==
  ASSUME Init
  PROVE  SlugInv
<1>1. PICK home \in [Products -> Slugs], created \in SUBSET Products :
        IsInjective(home) /\ \E published \in SUBSET created :
          StartsWith(home, created, published)
  BY Starts
<1>2. PICK published \in SUBSET created : StartsWith(home, created, published)
  BY <1>1
<1>3. \A r \in Requests : pc[r] = "idle"
  BY DEF Init
<1>4. Undisturbed
  BY <1>3, StepsDisjoint DEF Undisturbed, MovesSlug
<1>5. ASSUME NEW p \in Products
      PROVE  /\ p \in created => product[p] # None /\ product[p].slug = home[p]
             /\ p \notin created => product[p] = None
  <2>1. NewRow(home[p]) \in Rows /\ NewRow(home[p]).slug = home[p]
    BY NewRowType DEF NewRow
  <2>2. PublishedRow(home[p]) \in Rows /\ PublishedRow(home[p]).slug = home[p]
    BY PublishedType
  <2> QED
    BY <1>2, <2>1, <2>2, NoneAssumption DEF StartsWith
<1>6. ASSUME NEW s \in Slugs, slugs[s] # None
      PROVE  \E p \in created : home[p] = s /\ slugs[s] = [product |-> p, canonical |-> TRUE]
  BY <1>2, <1>6 DEF StartsWith
<1>7. ASSUME NEW p \in created
      PROVE  /\ home[p] \in Slugs /\ slugs[home[p]] # None
             /\ slugs[home[p]].product = p /\ slugs[home[p]].canonical = TRUE
  <2>1. slugs[home[p]] = [product |-> CHOOSE q \in created : home[q] = home[p],
                          canonical |-> TRUE]
    BY <1>2 DEF StartsWith
  <2>2. (CHOOSE q \in created : home[q] = home[p]) = p
    BY <1>1 DEF IsInjective
  <2>3. [product |-> p, canonical |-> TRUE] \in Reservations
    BY DEF Reservations
  <2>4. home[p] \in Slugs
    OBVIOUS
  <2>5. slugs[home[p]] = [product |-> p, canonical |-> TRUE]
    BY <2>1, <2>2
  <2>6. slugs[home[p]] # None
    BY <2>3, <2>5, NoneAssumption
  <2>7. slugs[home[p]].product = p /\ slugs[home[p]].canonical = TRUE
    BY <2>5
  <2> QED
    BY <2>4, <2>6, <2>7
<1>8. ASSUME NEW p \in created
      PROVE  CanonicalSlugs(p) = {home[p]}
  <2>1. ASSUME NEW s \in Slugs, slugs[s] # None, slugs[s].product = p
        PROVE  s = home[p]
    <3>1. PICK q \in created : home[q] = s /\ slugs[s] = [product |-> q, canonical |-> TRUE]
      BY <1>6, <2>1
    <3> QED
      BY <2>1, <3>1
  <2>2. home[p] \in Slugs /\ slugs[home[p]] # None
        /\ slugs[home[p]].product = p /\ slugs[home[p]].canonical = TRUE
    BY <1>7
  <2> QED
    BY <2>1, <2>2 DEF CanonicalSlugs, SlugsOf
<1>9. ASSUME NEW s \in Slugs, slugs[s] # None
      PROVE  product[slugs[s].product] # None
  <2>1. PICK q \in created : slugs[s] = [product |-> q, canonical |-> TRUE]
    BY <1>6, <1>9
  <2> QED
    BY <1>5, <2>1
<1>10. ASSUME NEW p \in Products, product[p] # None
       PROVE  OwnedBy(product[p].slug, p) /\ \E s \in Slugs : CanonicalSlugs(p) = {s}
  <2>1. p \in created /\ product[p].slug = home[p] /\ home[p] \in Slugs
    BY <1>5, <1>10
  <2>2. slugs[home[p]].product = p /\ slugs[home[p]] # None
    BY <1>7, <2>1
  <2> QED
    BY <1>8, <2>1, <2>2 DEF OwnedBy
<1>11. Reserved
  BY <1>9, <1>10 DEF Reserved
<1> QED
  BY <1>4, <1>11 DEF SlugInv

LEMMA SlugStutter ==
  ASSUME SlugInv, UNCHANGED vars
  PROVE  SlugInv'
BY DEF SlugInv, Undisturbed, Reserved, OwnedBy, CanonicalSlugs, SlugsOf, MovesSlug,
   Product, vars, rows

LEMMA SlugsStay == ReadSpec => []SlugInv
<1>1. ReadInit => SlugInv
  BY SlugInit DEF ReadInit
<1>2. Typed /\ SlugInv /\ [ReadNext]_readVars => SlugInv'
  BY UndisturbedStep, ReservedStep, SlugStutter, Steps1 DEF readVars, SlugInv
<1> QED
  BY <1>1, <1>2, StaysTyped, PTL DEF ReadSpec

\* The slug a product carries is one of its own: no edit can leave it with one
\* that another product took in the meantime.
THEOREM OwnSlugAlways == ReadSpec => []OwnSlug
<1>1. TypeOK /\ SlugInv => OwnSlug
  BY DEF TypeOK, SlugInv, Reserved, OwnSlug, OwnedBy, SlugsOf, Rows
<1> QED
  BY <1>1, SlugsStay, TypeCorrect, PTL

\* Among the slugs of a product exactly one is canonical, whichever edits
\* overlapped and wherever they failed.
THEOREM OneCanonicalAlways == ReadSpec => []OneCanonicalSlug
<1>1. SlugInv => OneCanonicalSlug
  <2> SUFFICES ASSUME SlugInv, NEW p \in Products, product[p] # None
               PROVE  Cardinality({s \in SlugsOf(p) : slugs[s].canonical}) = 1
    BY DEF OneCanonicalSlug
  <2>1. PICK s \in Slugs : CanonicalSlugs(p) = {s}
    BY DEF SlugInv, Reserved
  <2> QED
    BY <2>1, FS_Singleton DEF CanonicalSlugs
<1> QED
  BY <1>1, SlugsStay, PTL

\* A slug, once reserved, leads to the same product forever.
THEOREM SlugsReservedForever == ReadSpec => SlugsReserved
<1>1. Typed /\ SlugInv /\ [ReadNext]_readVars =>
        [\A s \in Slugs : slugs[s] # None =>
           slugs'[s] # None /\ slugs'[s].product = slugs[s].product]_slugs
  BY OwnersKept, Steps1 DEF readVars, vars, rows
<1> QED
  BY <1>1, SlugsStay, StaysTyped, PTL DEF ReadSpec, SlugsReserved
=============================================================================
