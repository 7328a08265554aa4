---------------------------- MODULE CatalogReads ----------------------------
(***************************************************************************)
(* The reads of the catalogue beside its commands: a slug resolved for the *)
(* public, one row of the public list, a detail for staff and a variant    *)
(* for another module.  A read is several statements, each of which sees   *)
(* what is committed when it runs, so that a command may commit between    *)
(* them.  Reads write nothing: one of them at a time is enough.            *)
(***************************************************************************)
EXTENDS Catalog

VARIABLE read   \* what the read in progress has seen

readVars == <<vars, read>>

Kinds == {"slug", "list", "detail", "contract"}

ReadSteps == {"findProduct", "readOptions", "readValues", "readVariants",
              "readSelections", "readOwner", "answer"}

NoDetail == [options |-> << >>, variants |-> << >>]
NoRead   == [step |-> "none"]

Begun(kind, p, s) ==
  [kind |-> kind, step |-> s, product |-> p, row |-> NoRow, detail |-> NoDetail,
   slug |-> None,         \* the slug asked for
   canonical |-> FALSE,   \* whether its reservation is
   overtaken |-> FALSE]   \* whether a command on the product committed since

ReadInit == Init /\ read = NoRead
-----------------------------------------------------------------------------
(* What a read has found *)

\* Mutation: whatever has an active variant is public.
PublicWhateverStatus(row, detail) == HasActiveVariant(detail)

\* getPublicByProductId and resolvePublishedSlug
Public(row, detail) == row.status = "published" /\ HasActiveVariant(detail)

Found ==
  CASE read.kind \in {"slug", "list"} -> Public(read.row, read.detail)
    [] read.kind = "detail"           -> read.row # NoRow
    [] read.kind = "contract"         -> read.detail.variants # << >>

\* toPublic
Shown == {v \in Elements(read.detail.variants) : v.status = "active"}

Stored(p) == IF product[p] = None THEN NoRow ELSE product[p]

Listed == {p \in Products : product[p] # None /\ Public(product[p], config[p])}

\* The entry of entries that has this id, or the default.
ById(entries, id, default) ==
  IF \E e \in Elements(entries) : e.id = id
  THEN CHOOSE e \in Elements(entries) : e.id = id ELSE default
-----------------------------------------------------------------------------
(* The first statement *)

Begin(r, record) ==
  /\ pc[r] = "idle" /\ read = NoRead
  /\ Goto(r, "reading")
  /\ read' = record
  /\ UNCHANGED <<rows, req, saw>>

\* resolvePublishedSlug: the reservation.
ResolveSlug(r) ==
  \E s \in Slugs :
    /\ slugs[s] # None
    /\ Begin(r, [Begun("slug", slugs[s].product, "findProduct")
                 EXCEPT !.slug = s, !.canonical = slugs[s].canonical])

\* listPublished: the rows, then a detail of each in a transaction of its own.
ListPublished(r) == \E p \in Listed : Begin(r, Begun("list", p, "findProduct"))

\* getAdminDetail; that of a listed product is read in the list as well.
GetDetail(r) ==
  \E p \in Products \ Listed : Begin(r, Begun("detail", p, "findProduct"))

\* readVariants: the variants ...
ReadVariant(r) ==
  \E p \in Products : \E v \in Elements(config[p].variants) :
    /\ product[p] # None
    /\ Begin(r, [Begun("contract", p, "readOwner") EXCEPT !.detail.variants = <<v>>])

\* An invalid input, a slug or an id that no row has, or an empty page.
RefuseRead(r) ==
  /\ pc[r] = "idle" /\ read = NoRead
  /\ \/ \E s \in Slugs : slugs[s] = None
     \/ Listed = {}
  /\ Rollback(r)
  /\ UNCHANGED read
-----------------------------------------------------------------------------
(* The others *)

Continue(r, s) ==
  /\ pc[r] = "reading" /\ read.step = s
  /\ UNCHANGED vars

\* ... and their products.
ReadOwner(r) ==
  /\ Continue(r, "readOwner")
  /\ read' = [read EXCEPT !.row = Stored(read.product), !.step = "answer"]

FindProduct(r) ==
  LET row == Stored(read.product)
      ends == row = NoRow \/ (read.kind = "slug" /\ row.status # "published")
  IN  /\ Continue(r, "findProduct")
      /\ read' = [read EXCEPT !.row = row,
                              !.step = IF ends THEN "answer" ELSE "readOptions"]

\* loadDetail's four statements: the options,
ReadOptions(r) ==
  LET options == config[read.product].options
  IN  /\ Continue(r, "readOptions")
      /\ read' = [read EXCEPT
           !.detail.options = [i \in DOMAIN options |-> [options[i] EXCEPT !.values = << >>]],
           !.step = IF options = << >> THEN "readVariants" ELSE "readValues"]

\* the values of these options,
ReadValues(r) ==
  LET options == read.detail.options
      Values(o) == ById(config[read.product].options, o.id, o).values
  IN  /\ Continue(r, "readValues")
      /\ read' = [read EXCEPT
           !.detail.options = [i \in DOMAIN options |->
              [options[i] EXCEPT !.values = Values(options[i])]],
           !.step = "readVariants"]

\* the variants,
ReadVariants(r) ==
  LET variants == config[read.product].variants
  IN  /\ Continue(r, "readVariants")
      /\ read' = [read EXCEPT
           !.detail.variants = [i \in DOMAIN variants |-> [variants[i] EXCEPT !.selection = << >>]],
           !.step = "readSelections"]

\* and the selections of these variants.
ReadSelections(r) ==
  LET variants == read.detail.variants
      Selection(v) == ById(config[read.product].variants, v.id, v).selection
  IN  /\ Continue(r, "readSelections")
      /\ read' = [read EXCEPT
           !.detail.variants = [i \in DOMAIN variants |->
              [variants[i] EXCEPT !.selection = Selection(variants[i])]],
           !.step = "answer"]

\* The answer is made of what was read.
Answer(r) ==
  /\ pc[r] = "reading" /\ read.step = "answer"
  /\ Rollback(r)
  /\ read' = NoRead

FailRead(r) ==
  /\ pc[r] = "reading"
  /\ Rollback(r)
  /\ read' = NoRead
-----------------------------------------------------------------------------
(* Commands go on meanwhile; each that commits increments the version. *)

Watch ==
  read' = IF read # NoRead /\ product'[read.product] # product[read.product]
          THEN [read EXCEPT !.overtaken = TRUE] ELSE read

Read(r) ==
  \/ ResolveSlug(r) \/ ListPublished(r) \/ GetDetail(r) \/ ReadVariant(r)
  \/ RefuseRead(r)
  \/ FindProduct(r) \/ ReadOwner(r)
  \/ ReadOptions(r) \/ ReadValues(r) \/ ReadVariants(r) \/ ReadSelections(r)
  \/ Answer(r) \/ FailRead(r)

ReadNext ==
  \/ \E r \in Requests : Command(r) /\ Watch
  \/ \E r \in Requests : Read(r)
  \/ Finished /\ UNCHANGED read

ReadSpec == ReadInit /\ [][ReadNext]_readVars
-----------------------------------------------------------------------------
(* Safety *)

Answered == read.step = "answer"

Choices(variants) == {<<v.id, CombinationKey(v)>> : v \in variants}

\* A read that no command overtook tells the truth, although it was put together
\* from several statements: it finds exactly what is public, shows the stored
\* configuration, and offers a variant for sale only if it is active and its
\* product published.
UndisturbedReadsTrue ==
  Answered /\ ~ read.overtaken =>
    LET p == read.product
    IN  CASE read.kind = "contract" ->
               Public(read.row, read.detail) <=>
                 /\ product[p].status = "published"
                 /\ \E v \in Elements(config[p].variants) :
                      v.id = read.detail.variants[1].id /\ v.status = "active"
          [] read.kind = "detail" ->
               Found => read.row = product[p] /\ read.detail = config[p]
          [] OTHER ->
               /\ Found <=> p \in Listed
               /\ Found => read.detail = config[p]

\* Whoever follows the public resolution of a slug stays with its product: the slug
\* it is answered with leads there, whatever happened meanwhile.  Only if no command
\* overtook the resolution, and none wrote an old version back, is it also known to
\* be the canonical one, so that the client is sent on once: a resolution that was
\* overtaken may send it from a slug to that slug.
RedirectsLead ==
  Answered /\ read.kind = "slug" /\ Found =>
    /\ read.row.slug \in SlugsOf(read.product)
    /\ ~ read.overtaken /\ ~ reverted =>
         /\ read.canonical <=> read.slug = read.row.slug
         /\ slugs[read.row.slug].canonical

\* However many commands a public read was overtaken by, each variant it shows is
\* still there and is still the same choice: after its publication a product is
\* reshaped only in ways that a customer who holds a variant's id may ignore.
\* (The values that are shown may lack one that a variant selects.)
VariantsKeepChoices ==
  Answered /\ read.kind \in {"slug", "list"} /\ Found /\ ~ reverted =>
    Choices(Shown) \subseteq Choices(Elements(config[read.product].variants))

\* Every command that commits acts as if it had run alone and at once, unless
\* an old version was written back before.
Register == INSTANCE CatalogRegister WITH lost <- reverted
CommandsAtomic == Register!Spec
=============================================================================
