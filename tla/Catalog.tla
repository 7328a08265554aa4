------------------------------ MODULE Catalog -------------------------------
(***************************************************************************)
(* The administrative commands of the catalogue: products, the slugs that  *)
(* are reserved for them, and their configurations.                        *)
(*                                                                         *)
(* A command is one transaction at READ COMMITTED.  It reads the product   *)
(* without a lock, checks the version the caller expects, works, and ends  *)
(* with an UPDATE that compares the version and increments it.  One action *)
(* is one of its statements, or several that cannot be told apart; what it *)
(* wrote is seen by others at Commit.  The products row is locked last, by *)
(* save or by the comparison, so that locking it, comparing the version    *)
(* and committing are one action.                                          *)
(*                                                                         *)
(* The texts of a product and its dates are left out, as are SKUs, which   *)
(* only a unique index compares.  loadDetail's four reads are one here.    *)
(* The ids in a body are those of its product: no id of another product's  *)
(* row, which would move it.  Of a variant's id the spelling counts: the   *)
(* code compares ids as texts, and the database does not.  (Option and     *)
(* value ids spelled differently are only refused more often.)             *)
(***************************************************************************)
EXTENDS CatalogRules

CONSTANTS
  Products,
  Slugs,
  Requests,         \* commands, one each
  Configurations,   \* the bodies of replaceConfiguration
  Default,          \* the configuration createProduct stores
  Stocked,          \* the configurations products may have at the start
  Lower(_),         \* an id as a uuid column spells it
  None              \* no product, no reservation

Bodies == Configurations \cup Stocked \cup {Default}

\* A body as it is stored.
Folded(c) ==
  [c EXCEPT !.variants = [i \in DOMAIN c.variants |->
     [c.variants[i] EXCEPT !.id = Lower(c.variants[i].id)]]]

StoredBodies == {Folded(c) : c \in Bodies}

\* The primary key of the variants.
DistinctVariants(c) == Cardinality(VariantIds(c)) = Len(c.variants)

ASSUME CatalogAssumption ==
  /\ None \notin Products
  /\ \A c \in Bodies :
       WellFormed(c) /\ \A i \in VariantIds(c) : Lower(Lower(i)) = Lower(i)
  /\ \A c \in Stocked \cup {Default} :
       Folded(c) = c /\ Consistent(c) /\ DistinctVariants(c) /\ HasActiveVariant(c)

VARIABLES
  product,   \* product[p]: the row of p, or None
  slugs,     \* slugs[s]: its row of catalog_product_slugs, or None
  config,    \* config[p]: the options, values, variants and selections of p
  reverted,  \* whether a save has written an old version back
  pc,        \* pc[r]: the next statement of request r
  req,       \* req[r]: its command
  saw        \* saw[r]: what it read and found to differ

rows == <<product, slugs, config, reverted>>
vars == <<rows, pc, req, saw>>

Columns == {"version", "status", "slug", "everPublished"}
Rows    == [version : Nat \ {0}, status : ProductStatuses, slug : Slugs,
            everPublished : BOOLEAN]
Reservations == [product : Products, canonical : BOOLEAN]

NoRow   == [version |-> 0, status |-> "draft", slug |-> None, everPublished |-> FALSE]
NoCommand == [kind |-> "none"]
NothingSeen == [row |-> NoRow, reservation |-> None, stale |-> {}, prior |-> None]

Edits        == [kind : {"edit"}, product : Products, slug : Slugs]
Transitioned == [kind : {"transition"}, product : Products, target : ProductStatuses]
Replacements == [kind : {"replace"}, product : Products, body : Bodies]
Commands     == Edits \cup Transitioned \cup Replacements
Requested    == {q \in Commands : q.kind = "replace" => q.body = Default}

Steps    == {"idle", "find", "loadDetail", "findSlug", "moveSlug", "compare",
             "replace", "commit", "reading", "done"}
Running  == Steps \ {"idle", "reading", "done"}
-----------------------------------------------------------------------------
(* Helpers *)

Product(r) == req[r].product

Goto(r, s) == pc' = [pc EXCEPT ![r] = s]

\* The transaction ends, and with it all it remembered; what it answered is
\* left out.
End(r) ==
  /\ Goto(r, "done")
  /\ req' = [req EXCEPT ![r] = NoCommand]
  /\ saw' = [saw EXCEPT ![r] = NothingSeen]

\* It ends without having written anything.
Rollback(r) == End(r) /\ UNCHANGED rows

\* Uncommitted slug rows: a unique index or a row lock makes others wait.
MovesSlug(r) ==
  /\ pc[r] \in {"compare", "commit"}
  /\ req[r].kind = "edit" /\ req[r].slug # saw[r].row.slug

SlugBusy(s)      == \E r \in Requests : MovesSlug(r) /\ req[r].slug = s
SlugsOfBusy(p)   == \E r \in Requests : MovesSlug(r) /\ Product(r) = p
ConfigBusy(p)    == \E r \in Requests :
                      pc[r] = "commit" /\ req[r].kind = "replace" /\ Product(r) = p

SlugsOf(p) == {s \in Slugs : slugs[s] # None /\ slugs[s].product = p}
-----------------------------------------------------------------------------
(* Creation *)

NewRow(s) == [version |-> 1, status |-> "draft", slug |-> s, everPublished |-> FALSE]

\* Some products exist, as they were created or after a first publication; all
\* of them have the same configuration.
Init ==
  /\ \E home \in {f \in [Products -> Slugs] : IsInjective(f)} :
     \E created \in SUBSET Products : \E published \in SUBSET created :
       /\ product = [p \in Products |->
            IF p \in published
            THEN [NewRow(home[p]) EXCEPT !.version = 2, !.status = "published",
                                         !.everPublished = TRUE]
            ELSE IF p \in created THEN NewRow(home[p]) ELSE None]
       /\ slugs = [s \in Slugs |->
            IF \E p \in created : home[p] = s
            THEN [product |-> CHOOSE p \in created : home[p] = s, canonical |-> TRUE]
            ELSE None]
  /\ \E c \in Stocked : config = [p \in Products |-> c]
  /\ reverted = FALSE
  /\ pc = [r \in Requests |-> "idle"]
  /\ req = [r \in Requests |-> NoCommand]
  /\ saw = [r \in Requests |-> NothingSeen]

\* createProduct: three inserts; the slug's unique index decides.
Create(r) ==
  /\ pc[r] = "idle"
  /\ \E p \in Products, s \in Slugs :
       /\ product[p] = None
       /\ slugs[s] = None /\ ~ SlugBusy(s)
       /\ product' = [product EXCEPT ![p] = NewRow(s)]
       /\ slugs' = [slugs EXCEPT ![s] = [product |-> p, canonical |-> TRUE]]
       /\ config' = [config EXCEPT ![p] = Default]
  /\ UNCHANGED reverted
  /\ End(r)

RefuseCreate(r) ==
  /\ pc[r] = "idle"
  /\ \E s \in Slugs : slugs[s] # None
  /\ Rollback(r)
-----------------------------------------------------------------------------
(* Commands *)

FirstStep(q, row) ==
  CASE q.kind = "edit"       -> IF q.slug = row.slug THEN "compare" ELSE "findSlug"
    [] q.kind = "replace"    -> "loadDetail"
    [] q.kind = "transition" -> IF q.target = "published" THEN "loadDetail" ELSE "compare"

Standing(c) == {[id |-> v.id, status |-> v.status] : v \in Elements(c.variants)}

\* What the controller has read of a product.
Priors == [version : Nat \ {0}, standing : {Standing(c) : c \in StoredBodies}]

ASSUME NoneAssumption == None \notin Rows \cup Reservations \cup Priors

\* Mutation: nobody asks what variants were before.
PermittedToAll(prior, body) == prior # None \/ prior = None

\* Whoever may not archive leaves the status of existing variants as it was read.
Permitted(prior, body) ==
  prior # None => \A was \in prior.standing, is \in Standing(body) :
                    was.id = is.id => was.status = is.status

\* command: the product is there, in the version the caller expects.
Find(r) ==
  /\ pc[r] = "idle"
  /\ \E q \in Requested :
       LET row == product[q.product]
       IN  /\ row # None
           /\ q.kind = "transition" => q.target \in Transitions(row.status)
           /\ req' = [req EXCEPT ![r] = q]
           /\ saw' = [saw EXCEPT ![r].row = row]
           /\ Goto(r, FirstStep(q, row))
  /\ UNCHANGED rows

\* requireArchiveForExistingVariantTransitions: before replaceConfiguration and
\* outside of its transaction, the controller reads the status of every variant
\* for a caller who may not archive.
CheckArchive(r) ==
  /\ pc[r] = "idle"
  /\ \E q \in Requested :
       /\ q.kind = "replace" /\ product[q.product] # None
       /\ req' = [req EXCEPT ![r] = q]
       /\ saw' = [saw EXCEPT ![r].row = product[q.product],
                            ![r].prior = [version |-> product[q.product].version,
                                          standing |-> Standing(config[q.product])]]
  /\ Goto(r, "find")
  /\ UNCHANGED rows

\* command, after that.  The version it compares is the one the caller sent, not
\* the one the controller read: any will do, guessed or not.
FindChecked(r) ==
  /\ pc[r] = "find"
  /\ saw' = [saw EXCEPT ![r].row = product[Product(r)]]
  /\ Goto(r, "loadDetail")
  /\ UNCHANGED <<rows, req>>

\* No such product, another version, not a transition, or not permitted.
RefuseCommand(r) ==
  /\ pc[r] \in {"idle", "find"}
  /\ Rollback(r)

\* loadDetail for the checks of publish ...
LoadForPublication(r) ==
  /\ pc[r] = "loadDetail" /\ req[r].kind = "transition"
  /\ Publishable(config[Product(r)])
  /\ Goto(r, "compare")
  /\ UNCHANGED <<rows, req, saw>>

\* ... and of replaceConfiguration, whose body counts from here on.
LoadForReplacement(r) ==
  /\ pc[r] = "loadDetail" /\ req[r].kind = "replace"
  /\ \E body \in Configurations :
       /\ Permitted(saw[r].prior, body)
       /\ Replaceable(saw[r].row, config[Product(r)], body)
       /\ req' = [req EXCEPT ![r].body = body]
  /\ Goto(r, "replace")
  /\ UNCHANGED <<rows, saw>>

\* A body may always be refused; a publication is for its configuration.
RefuseDetail(r) ==
  /\ pc[r] = "loadDetail"
  /\ req[r].kind = "transition" => ~ Publishable(config[Product(r)])
  /\ Rollback(r)

\* replaceConfigurationRows: waits for another replacement of these rows; two
\* variants of one id violate the primary key.  (Rows that the other inserted are
\* not among those a DELETE that waited removes.  They would stay beside the new
\* ones, in place of which the model has the new ones only; but such a command
\* commits only after an old version was written back.)
Replace(r) ==
  /\ pc[r] = "replace"
  /\ ~ ConfigBusy(Product(r))
  /\ IF DistinctVariants(Folded(req[r].body))
     THEN Goto(r, "commit") /\ UNCHANGED <<req, saw>>
     ELSE End(r)
  /\ UNCHANGED rows
-----------------------------------------------------------------------------
(* Slugs *)

\* Mutation: the owner of the reservation is not compared.
FindSlugOfAnyone(r) ==
  /\ pc[r] = "findSlug"
  /\ saw' = [saw EXCEPT ![r].reservation = slugs[req[r].slug]]
  /\ Goto(r, "moveSlug")
  /\ UNCHANGED <<rows, req>>

\* replaceCanonicalSlug: who holds the new slug?
FindSlug(r) ==
  LET reservation == slugs[req[r].slug]
  IN  /\ pc[r] = "findSlug"
      /\ IF reservation # None /\ reservation.product # Product(r)
         THEN End(r)
         ELSE /\ saw' = [saw EXCEPT ![r].reservation = reservation]
              /\ Goto(r, "moveSlug") /\ UNCHANGED req
      /\ UNCHANGED rows

\* The old canonical row is demoted; an INSERT of a slug that was reserved in
\* the meantime violates the unique index.
MoveSlug(r) ==
  /\ pc[r] = "moveSlug"
  /\ ~ SlugBusy(req[r].slug) /\ ~ SlugsOfBusy(Product(r))
  /\ IF saw[r].reservation = None /\ slugs[req[r].slug] # None
     THEN End(r)
     ELSE Goto(r, "compare") /\ UNCHANGED <<req, saw>>
  /\ UNCHANGED rows

\* Mutation: the former canonical row stays canonical.
MovedSlugsWithoutDemotion(p, s) ==
  [slugs EXCEPT ![s] = [product |-> p, canonical |-> TRUE]]

\* Mutation: the former slug is given up.
MovedSlugsWithoutAlias(p, s) ==
  [x \in Slugs |->
     IF x = s THEN [product |-> p, canonical |-> TRUE]
     ELSE IF x \in SlugsOf(p) THEN None
     ELSE slugs[x]]

\* The slug rows once p's canonical slug is s.
MovedSlugs(p, s) ==
  [x \in Slugs |->
     IF x = s THEN [product |-> p, canonical |-> TRUE]
     ELSE IF x \in SlugsOf(p) THEN [slugs[x] EXCEPT !.canonical = FALSE]
     ELSE slugs[x]]
-----------------------------------------------------------------------------
(* The products row *)

\* The entity as the command changed it.
Entity(r) ==
  LET q == req[r]  row == saw[r].row
  IN  CASE q.kind = "edit" -> [row EXCEPT !.slug = q.slug]
        [] q.kind = "transition" ->
             [row EXCEPT !.status = q.target,
                         !.everPublished = @ \/ q.target = "published"]
        [] OTHER -> row

\* save loads the row again and picks the columns in which it differs from the
\* entity, whoever changed them.
Compare(r) ==
  /\ pc[r] = "compare"
  /\ saw' = [saw EXCEPT ![r].stale =
       {c \in Columns : Entity(r)[c] # product[Product(r)][c]}]
  /\ Goto(r, "commit")
  /\ UNCHANGED <<rows, req>>

\* The row after save's UPDATE of those columns.
Saved(r) ==
  [c \in Columns |-> IF c \in saw[r].stale THEN Entity(r)[c]
                     ELSE product[Product(r)][c]]

\* Mutation: the version goes down.
Decremented(v) == v - 1

\* compareAndIncrementVersion
Incremented(v) == v + 1

\* Mutation: the version is incremented without a comparison.
VersionIgnored(r) == saw[r].row.version > 0

VersionMatches(r) == Saved(r).version = saw[r].row.version

Commit(r) ==
  LET p == Product(r)
  IN  /\ pc[r] = "commit"
      /\ VersionMatches(r)
      /\ product' = [product EXCEPT ![p] = [Saved(r) EXCEPT !.version = Incremented(@)]]
      /\ slugs' = IF MovesSlug(r) THEN MovedSlugs(p, req[r].slug) ELSE slugs
      /\ config' = IF req[r].kind = "replace"
                   THEN [config EXCEPT ![p] = Folded(req[r].body)] ELSE config
      /\ reverted' = (reverted \/ "version" \in saw[r].stale)
      /\ End(r)

RefuseVersion(r) ==
  /\ pc[r] = "commit"
  /\ ~ VersionMatches(r)
  /\ Rollback(r)

\* A crash, a lost connection or a failing statement.
Fail(r) ==
  /\ pc[r] \in Running
  /\ Rollback(r)

Finished ==
  /\ \A r \in Requests : pc[r] = "done"
  /\ UNCHANGED vars

Command(r) ==
  \/ Create(r) \/ RefuseCreate(r)
  \/ Find(r) \/ CheckArchive(r) \/ FindChecked(r) \/ RefuseCommand(r)
  \/ LoadForPublication(r) \/ LoadForReplacement(r) \/ RefuseDetail(r)
  \/ Replace(r)
  \/ FindSlug(r) \/ MoveSlug(r) \/ Compare(r)
  \/ Commit(r) \/ RefuseVersion(r) \/ Fail(r)

Next == (\E r \in Requests : Command(r)) \/ Finished

Spec == Init /\ [][Next]_vars
-----------------------------------------------------------------------------
(* Safety *)

TypeOK ==
  /\ product \in [Products -> Rows \cup {None}]
  /\ slugs \in [Slugs -> Reservations \cup {None}]
  /\ config \in [Products -> StoredBodies]
  /\ reverted \in BOOLEAN
  /\ pc \in [Requests -> Steps]
  /\ req \in [Requests -> Commands \cup {NoCommand}]
  /\ \A r \in Requests : pc[r] \in Running =>
       req[r] \in Commands /\ product[Product(r)] # None /\ saw[r].row \in Rows
  /\ saw \in [Requests -> [row : Rows \cup {NoRow},
                           reservation : Reservations \cup {None},
                           stale : SUBSET Columns,
                           prior : Priors \cup {None}]]

\* A slug, once reserved, leads to the same product forever, and the slug a
\* product carries is one of its own, whichever edits overlapped.
SlugsReserved ==
  [][\A s \in Slugs : slugs[s] # None =>
       slugs'[s] # None /\ slugs'[s].product = slugs[s].product]_slugs

OwnSlug ==
  \A p \in Products : product[p] # None => product[p].slug \in SlugsOf(p)

\* Among the slugs of a product exactly one is canonical.
OneCanonicalSlug ==
  \A p \in Products : product[p] # None =>
    Cardinality({s \in SlugsOf(p) : slugs[s].canonical}) = 1

\* The stored variants are different choices of one value of every option,
\* although the code counts values and options instead.  Once an old version has
\* been written back, variants of two replacements may be stored side by side.
ConfigurationsCoherent ==
  ~ reverted => \A p \in Products : Coherent(config[p])

\* Whoever may not archive changes the status of no existing variant that the body
\* names as the database does, if the version that is expected is the one that the
\* controller read, in a transaction of its own, and none is written back.  (A
\* caller who guesses the next version, or spells the id differently, is not held.)
ArchiveAuthorized ==
  [][\A r \in Requests :
       LET p == Product(r)
       IN  /\ pc[r] = "commit" /\ pc'[r] = "done"
           /\ saw[r].prior # None /\ saw[r].prior.version = saw[r].row.version
           /\ ~ reverted
           => \A was \in Standing(config[p]), is \in Standing(config'[p]) :
                was.id = is.id /\ was.id \in VariantIds(req[r].body)
                  => was.status = is.status]_vars
-----------------------------------------------------------------------------
(* What the documents say and the code does not keep *)

\* ADR-0005: a published product has at least one active variant.
PublishedSellable ==
  \A p \in Products : product[p] # None /\ product[p].status = "published"
    => HasActiveVariant(config[p])
=============================================================================
