----------------------- MODULE CatalogRegisterProofs ------------------------
(***************************************************************************)
(* Proofs about what the version of a product is for: as long as no old    *)
(* one was written back, a command whose version matches at its commit     *)
(* acts on what it read, so that commands act at once (CatalogRegister),   *)
(* and a check of the archive permission in the version that is replaced   *)
(* is about what is replaced.                                              *)
(***************************************************************************)
EXTENDS CatalogProofs

-----------------------------------------------------------------------------
(* What a matching version says *)

\* What r read, and found to be the case, is still so.
Current(r) ==
  LET p == Product(r)
  IN  /\ saw[r].row = product[p]
      /\ pc[r] \in {"compare", "commit"} /\ req[r].kind = "transition"
           /\ req[r].target = "published" => Publishable(config[p])
      /\ pc[r] \in {"replace", "commit"} /\ req[r].kind = "replace" =>
           Replaceable(product[p], config[p], req[r].body)
      /\ pc[r] = "commit" /\ req[r].kind # "replace" =>
           saw[r].stale = {c \in Columns : Entity(r)[c] # product[p][c]}

\* Versions only grow, and one that did not grow since says that nothing changed,
\* neither of what r read in its transaction nor of what the controller read.
Informed(r) ==
  /\ saw[r].row.version <= product[Product(r)].version
  /\ saw[r].row.version = product[Product(r)].version => Current(r)
  /\ saw[r].prior # None =>
       /\ saw[r].prior.version <= product[Product(r)].version
       /\ saw[r].prior.version = product[Product(r)].version =>
            saw[r].prior.standing = Standing(config[Product(r)])

\* The row of a product agrees with its slugs and its past.
Settled(p) ==
  /\ \A s \in Slugs : OwnedBy(s, p) => (slugs[s].canonical <=> s = product[p].slug)
  /\ product[p].status = "published" => product[p].everPublished

VersionInv ==
  ~ reverted => /\ \A r \in Requests : pc[r] \in Running => Informed(r)
                /\ \A p \in Products : product[p] # None => Settled(p)

LEMMA RowsEqual ==
  ASSUME NEW a \in Rows, NEW b \in Rows, \A c \in Columns : a[c] = b[c]
  PROVE  a = b
BY DEF Rows, Columns

LEMMA VersionType ==
  ASSUME Typed, NEW r \in Requests, pc[r] \in Running
  PROVE  /\ saw[r].row.version \in Nat /\ product[Product(r)].version \in Nat
         /\ saw[r].prior # None => saw[r].prior.version \in Nat
<1>1. saw[r].row \in Rows /\ product[Product(r)] \in Rows
  BY EntityType DEF Typed
<1>2. saw[r].prior # None => saw[r].prior \in Priors
  BY DEF Typed, TypeOK
<1> QED
  BY <1>1, <1>2 DEF Rows, Priors

\* A step of r that does not end its transaction.
LEMMA InformedOnward ==
  ASSUME Typed, NEW r \in Requests, Step(r), pc'[r] \in Running,
         pc[r] \in Running => Informed(r)
  PROVE  Informed(r)'
<1>0. /\ pc \in [Requests -> Steps] /\ req \in [Requests -> Commands \cup {NoCommand}]
      /\ saw \in [Requests -> Remembered]
      /\ UNCHANGED <<product, config>>
  BY Arrives DEF Typed, TypeOK, Remembered, rows
<1>1. CASE Find(r)
  <2>1. PICK q \in Requested :
          /\ product[q.product] # None
          /\ req' = [req EXCEPT ![r] = q]
          /\ saw' = [saw EXCEPT ![r].row = product[q.product]]
          /\ Goto(r, FirstStep(q, product[q.product]))
    BY <1>1 DEF Find
  <2>2. saw[r] = NothingSeen
    BY <1>1 DEF Find, Typed, StepsFit, Fits, Running
  <2>3. /\ req'[r] = q /\ saw'[r].row = product[q.product] /\ saw'[r].prior = None
        /\ pc'[r] = FirstStep(q, product[q.product])
    BY <1>0, <2>1, <2>2 DEF NothingSeen, Goto
  <2>4. q \in Commands /\ product[q.product] \in Rows
    BY <2>1, CommandShape DEF Requested, Typed, TypeOK
  <2>5. pc'[r] \notin {"replace", "commit"}
        /\ (pc'[r] = "compare" => ~ (q.kind = "transition" /\ q.target = "published"))
    BY <2>3, <2>4, CommandShape DEF FirstStep
  <2>6. product[q.product].version \in Nat
    BY <2>4 DEF Rows
  <2> QED
    BY <1>0, <2>3, <2>5, <2>6 DEF Informed, Current, Product
<1>2. CASE CheckArchive(r)
  <2>1. PICK q \in Requested :
          /\ product[q.product] # None
          /\ req' = [req EXCEPT ![r] = q]
          /\ saw' = [saw EXCEPT ![r].row = product[q.product],
                               ![r].prior = Noted(q.product)]
    BY <1>2 DEF CheckArchive, Noted
  <2>2. /\ req'[r] = q /\ saw'[r].row = product[q.product]
        /\ saw'[r].prior = Noted(q.product) /\ pc'[r] = "find"
    BY <1>0, <1>2, <2>1 DEF CheckArchive, Goto, Remembered
  <2>3. q \in Commands /\ product[q.product] \in Rows
    BY <2>1, CommandShape DEF Requested, Typed, TypeOK
  <2>4. product[q.product].version \in Nat
    BY <2>3 DEF Rows
  <2> QED
    BY <1>0, <2>2, <2>4 DEF Informed, Current, Product, Noted
<1>3. CASE FindChecked(r)
  <2>1. pc[r] \in Running /\ Informed(r)
    BY <1>3 DEF FindChecked, Running, Steps
  <2>2. /\ saw'[r].row = product[Product(r)] /\ saw'[r].prior = saw[r].prior
        /\ pc'[r] = "loadDetail" /\ req'[r] = req[r]
    BY <1>0, <1>3 DEF FindChecked, Goto, Remembered
  <2>3. product[Product(r)].version \in Nat
    BY <2>1, VersionType
  <2> QED
    BY <1>0, <2>1, <2>2, <2>3 DEF Informed, Current, Product
<1>4. CASE LoadForPublication(r)
  <2>1. pc[r] \in Running /\ Informed(r)
    BY <1>4 DEF LoadForPublication, Running, Steps
  <2>2. pc'[r] = "compare" /\ req'[r] = req[r] /\ saw'[r] = saw[r]
        /\ req[r].kind = "transition" /\ Publishable(config[Product(r)])
    BY <1>0, <1>4 DEF LoadForPublication, Goto
  <2> QED
    BY <1>0, <2>1, <2>2 DEF Informed, Current, Product
<1>5. CASE LoadForReplacement(r)
  <2>1. pc[r] \in Running /\ Informed(r)
    BY <1>5 DEF LoadForReplacement, Running, Steps
  <2>2. PICK body \in Configurations :
          /\ Replaceable(saw[r].row, config[Product(r)], body)
          /\ req' = [req EXCEPT ![r].body = body]
    BY <1>5 DEF LoadForReplacement
  <2>3. req[r] \in Replacements
    BY <1>5, <2>1 DEF LoadForReplacement, Typed, TypeOK, Commands, Edits, Transitioned
  <2>4. /\ req'[r].body = body /\ req'[r].product = Product(r) /\ req'[r].kind = "replace"
        /\ saw'[r] = saw[r] /\ pc'[r] = "replace"
    BY <1>0, <1>5, <2>2, <2>3 DEF LoadForReplacement, Goto, Replacements, Product
  <2> QED
    BY <1>0, <2>1, <2>2, <2>4 DEF Informed, Current, Product
<1>6. CASE Replaces(r) \/ FindsSlug(r) \/ MovesOn(r)
  <2>1. pc[r] \in Running /\ Informed(r)
    BY <1>6 DEF Replaces, FindsSlug, MovesOn, Running, Steps
  <2>2. /\ req'[r] = req[r] /\ saw'[r].row = saw[r].row /\ saw'[r].prior = saw[r].prior
        /\ \/ pc[r] = "replace" /\ req[r].kind = "replace" /\ pc'[r] = "commit"
           \/ req[r].kind = "edit" /\ pc'[r] \in {"moveSlug", "compare"}
    BY <1>0, <1>6 DEF Replaces, FindsSlug, MovesOn, Goto, Typed, StepsFit, Fits, Remembered
  <2> QED
    BY <1>0, <2>1, <2>2 DEF Informed, Current, Product
<1>7. CASE Compare(r)
  <2>1. pc[r] \in Running /\ Informed(r)
    BY <1>7 DEF Compare, Running, Steps
  <2>2. /\ req'[r] = req[r] /\ saw'[r].row = saw[r].row /\ saw'[r].prior = saw[r].prior
        /\ saw'[r].stale = {c \in Columns : Entity(r)[c] # product[Product(r)][c]}
        /\ pc[r] = "compare" /\ pc'[r] = "commit" /\ req[r].kind # "replace"
    BY <1>0, <1>7 DEF Compare, Goto, Typed, StepsFit, Fits, Remembered
  <2>3. Entity(r)' = Entity(r)
    BY <2>2 DEF Entity
  <2> QED
    BY <1>0, <2>1, <2>2, <2>3 DEF Informed, Current, Product
<1> QED
  BY <1>1, <1>2, <1>3, <1>4, <1>5, <1>6, <1>7, Arrives DEF Running, Steps
-----------------------------------------------------------------------------
(* Commits *)

\* A commit that does not write an old version back finds everything as r read
\* it, and leaves what r made of that.
LEMMA CommitCurrent ==
  ASSUME Typed, VersionInv, NEW r \in Requests, Commit(r), ~ reverted'
  PROVE  /\ ~ reverted /\ Current(r) /\ Saved(r) = Entity(r)
         /\ Saved(r).version = product[Product(r)].version
         /\ product'[Product(r)].version = product[Product(r)].version + 1
<1>1. ~ reverted /\ "version" \notin saw[r].stale
  BY DEF Commit, Typed, TypeOK
<1>2. /\ pc[r] = "commit" /\ pc[r] \in Running
      /\ Saved(r).version = saw[r].row.version
  BY DEF Commit, VersionMatches, Running, Steps
<1>3. Saved(r).version = product[Product(r)].version
  BY <1>1 DEF Saved, Columns
<1>4. Current(r)
  BY <1>1, <1>2, <1>3 DEF VersionInv, Informed
<1>5. /\ Entity(r) \in Rows /\ Saved(r) \in Rows /\ product[Product(r)] \in Rows
      /\ saw[r].row \in Rows /\ req[r] \in Commands
      /\ product'[Product(r)].version = Saved(r).version + 1
  BY CommitRow
<1>6. Saved(r) = Entity(r)
  <2>1. CASE req[r].kind = "replace"
    <3>1. Entity(r) = product[Product(r)]
      BY <1>4, <2>1 DEF Entity, Current
    <3>2. \A c \in Columns : Saved(r)[c] = Entity(r)[c]
      BY <3>1 DEF Saved
    <3> QED
      BY <1>5, <3>2, RowsEqual
  <2>2. CASE req[r].kind # "replace"
    <3>1. saw[r].stale = {c \in Columns : Entity(r)[c] # product[Product(r)][c]}
      BY <1>2, <1>4, <2>2 DEF Current
    <3>2. \A c \in Columns : Saved(r)[c] = Entity(r)[c]
      BY <3>1 DEF Saved
    <3> QED
      BY <1>5, <3>2, RowsEqual
  <2> QED
    BY <2>1, <2>2
<1> QED
  BY <1>1, <1>3, <1>4, <1>5, <1>6

\* The entity of a command that found product[p], column by column.
LEMMA EntityColumns ==
  ASSUME NEW r, saw[r].row \in Rows, req[r] \in Commands
  PROVE  /\ req[r].kind = "edit" =>
              /\ Entity(r).slug = req[r].slug /\ Entity(r).status = saw[r].row.status
              /\ Entity(r).everPublished = saw[r].row.everPublished
         /\ req[r].kind = "transition" =>
              /\ Entity(r).slug = saw[r].row.slug /\ Entity(r).status = req[r].target
              /\ Entity(r).everPublished =
                   (saw[r].row.everPublished \/ req[r].target = "published")
         /\ req[r].kind = "replace" => Entity(r) = saw[r].row
<1>1. CASE req[r].kind = "edit"
  BY <1>1 DEF Entity, Rows
<1>2. CASE req[r].kind = "transition"
  <2> DEFINE e == saw[r].row.everPublished \/ req[r].target = "published"
  <2>1. Entity(r) = [saw[r].row EXCEPT !.status = req[r].target, !.everPublished = e]
    BY <1>2 DEF Entity
  <2> HIDE DEF e
  <2>2. /\ Entity(r).slug = saw[r].row.slug /\ Entity(r).status = req[r].target
        /\ Entity(r).everPublished = e
    BY <2>1 DEF Rows
  <2> QED
    BY <1>2, <2>2 DEF e
<1>3. CASE req[r].kind = "replace"
  BY <1>3 DEF Entity
<1> QED
  BY <1>1, <1>2, <1>3, CommandShape

LEMMA NextColumns ==
  ASSUME Typed, NEW r \in Requests, Commit(r)
  PROVE  /\ product'[Product(r)].slug = Saved(r).slug
         /\ product'[Product(r)].status = Saved(r).status
         /\ product'[Product(r)].everPublished = Saved(r).everPublished
<1>1. /\ Saved(r) \in Rows /\ Product(r) \in Products
      /\ product' = [product EXCEPT ![Product(r)] =
                       [Saved(r) EXCEPT !.version = Incremented(@)]]
  BY CommitRow
<1>2. product'[Product(r)] = [Saved(r) EXCEPT !.version = Incremented(@)]
  BY <1>1 DEF Typed, TypeOK
<1>3. ASSUME NEW row \in Rows
      PROVE  LET new == [row EXCEPT !.version = Incremented(@)]
             IN  /\ new.slug = row.slug /\ new.status = row.status
                 /\ new.everPublished = row.everPublished
  BY DEF Rows
<1> QED
  BY <1>1, <1>2, <1>3

\* Only the slugs of one product are written, and of these one is canonical.
LEMMA MovedCanonical ==
  ASSUME Typed, NEW p \in Products, NEW s \in Slugs, slugs' = MovedSlugs(p, s),
         NEW t \in Slugs, slugs'[t] # None
  PROVE  \/ slugs'[t].product = p /\ (slugs'[t].canonical <=> t = s)
         \/ slugs'[t] = slugs[t] /\ slugs[t].product # p
<1>1. CASE t = s
  <2>1. slugs'[t] = [product |-> p, canonical |-> TRUE]
    BY <1>1 DEF MovedSlugs
  <2>2. slugs'[t].product = p /\ slugs'[t].canonical = TRUE
    BY <2>1
  <2> QED
    BY <1>1, <2>2
<1>2. CASE t # s /\ t \in SlugsOf(p)
  <2>1. slugs'[t] = [slugs[t] EXCEPT !.canonical = FALSE]
    BY <1>2 DEF MovedSlugs
  <2>2. slugs[t] \in Reservations /\ slugs[t].product = p
    BY <1>2 DEF SlugsOf, Typed, TypeOK
  <2>3. slugs'[t].product = p /\ slugs'[t].canonical = FALSE
    BY <2>1, <2>2 DEF Reservations
  <2> QED
    BY <1>2, <2>3
<1>3. CASE t # s /\ t \notin SlugsOf(p)
  BY <1>3 DEF MovedSlugs, SlugsOf
<1> QED
  BY <1>1, <1>2, <1>3

LEMMA SettledCommit ==
  ASSUME Typed, SlugInv, VersionInv, NEW r \in Requests, Commit(r), ~ reverted',
         NEW o \in Products, product'[o] # None
  PROVE  Settled(o)'
<1>0. PICK p, s : p = Product(r) /\ s = req[r].slug
  OBVIOUS
<1>1. /\ ~ reverted /\ Current(r) /\ Saved(r) = Entity(r)
      /\ p \in Products /\ product[p] # None /\ product[p] \in Rows
      /\ \A x \in Products \ {p} : product'[x] = product[x]
      /\ saw[r].row = product[p] /\ req[r] \in Commands
      /\ \A x \in Products : product[x] # None => Settled(x)
  BY <1>0, CommitCurrent, CommitRow DEF Current, VersionInv, Typed, TypeOK
<1>2. /\ product'[p].slug = Entity(r).slug /\ product'[p].status = Entity(r).status
      /\ product'[p].everPublished = Entity(r).everPublished
  BY <1>0, <1>1, NextColumns
<1>3. product'[p].status = "published" => product'[p].everPublished
  <2>1. Entity(r).status = "published" /\ req[r].kind # "transition" =>
          product[p].status = "published" /\ Entity(r).everPublished = product[p].everPublished
    BY <1>1, EntityColumns, CommandShape
  <2>2. Entity(r).status = "published" /\ req[r].kind = "transition" => Entity(r).everPublished
    BY <1>1, EntityColumns
  <2> QED
    BY <1>1, <1>2, <2>1, <2>2 DEF Settled
<1>4. CASE ~ MovesSlug(r)
  <2>1. UNCHANGED slugs
    BY <1>4 DEF Commit
  <2>2. product'[p].slug = product[p].slug
    <3>1. req[r].kind = "edit" => req[r].slug = product[p].slug
      BY <1>1, <1>4 DEF MovesSlug, Commit
    <3> QED
      BY <1>1, <1>2, <3>1, EntityColumns, CommandShape
  <2>3. CASE o = p
    BY <1>1, <1>3, <2>1, <2>2, <2>3 DEF Settled, OwnedBy
  <2>4. CASE o # p
    <3>1. product'[o] = product[o] /\ Settled(o)
      BY <1>1, <2>4
    <3> QED
      BY <2>1, <3>1 DEF Settled, OwnedBy
  <2> QED
    BY <2>3, <2>4
<1>5. CASE MovesSlug(r)
  <2>1. s \in Slugs /\ slugs' = MovedSlugs(p, s) /\ product'[p].slug = s
    BY <1>0, <1>1, <1>2, <1>5, SlugShape, EntityColumns DEF Commit, MovesSlug
  <2>2. \A t \in Slugs : slugs'[t] # None =>
          \/ slugs'[t].product = p /\ (slugs'[t].canonical <=> t = s)
          \/ slugs'[t] = slugs[t] /\ slugs[t].product # p
    BY <1>1, <2>1, MovedCanonical
  <2>3. CASE o = p
    BY <1>3, <2>1, <2>2, <2>3 DEF Settled, OwnedBy
  <2>4. CASE o # p
    <3>1. product'[o] = product[o] /\ Settled(o)
      BY <1>1, <2>4
    <3> QED
      BY <2>2, <2>4, <3>1 DEF Settled, OwnedBy
  <2> QED
    BY <2>3, <2>4
<1> QED
  BY <1>4, <1>5

\* What others write elsewhere does not matter.
LEMMA InformedElsewhere ==
  ASSUME NEW o, Informed(o),
         pc'[o] = pc[o], req'[o] = req[o], saw'[o] = saw[o],
         product'[Product(o)] = product[Product(o)],
         config'[Product(o)] = config[Product(o)]
  PROVE  Informed(o)'
<1>1. Entity(o)' = Entity(o) /\ Product(o)' = Product(o)
  BY DEF Entity, Product
<1>2. Current(o) => Current(o)'
  BY <1>1 DEF Current
<1> QED
  BY <1>1, <1>2 DEF Informed

LEMMA VersionStep ==
  ASSUME Typed, SlugInv, VersionInv, NEW r \in Requests, Step(r)
  PROVE  VersionInv'
<1> SUFFICES ASSUME ~ reverted'
             PROVE  /\ \A o \in Requests : pc'[o] \in Running => Informed(o)'
                    /\ \A p \in Products : product'[p] # None => Settled(p)'
  BY DEF VersionInv
<1>1. /\ ~ reverted
      /\ \A o \in Requests : pc[o] \in Running => Informed(o)
      /\ \A p \in Products : product[p] # None => Settled(p)
  BY Writes, CommitCurrent DEF VersionInv, rows, Create
<1>2. CASE UNCHANGED rows
  <2>1. ASSUME NEW o \in Requests, pc'[o] \in Running
        PROVE  Informed(o)'
    <3>1. CASE o = r
      BY <1>1, <2>1, <3>1, InformedOnward
    <3>2. CASE o # r
      <4>1. pc'[o] = pc[o] /\ req'[o] = req[o] /\ saw'[o] = saw[o]
        BY <3>2, OthersKept
      <4> QED
        BY <1>1, <1>2, <2>1, <4>1, InformedElsewhere DEF rows
    <3> QED
      BY <3>1, <3>2
  <2> QED
    BY <1>1, <1>2, <2>1 DEF Settled, OwnedBy, rows
<1>3. ASSUME Create(r) \/ Commit(r), NEW o \in Requests, pc'[o] \in Running,
             product'[Product(o)] = product[Product(o)],
             config'[Product(o)] = config[Product(o)]
      PROVE  Informed(o)'
  <2>1. o # r
    BY <1>3, StepsDisjoint DEF Create, Commit, End, Goto, Typed, TypeOK
  <2>2. pc'[o] = pc[o] /\ req'[o] = req[o] /\ saw'[o] = saw[o]
    BY <2>1, OthersKept
  <2> QED
    BY <1>1, <1>3, <2>2, InformedElsewhere
<1>4. CASE Create(r)
  <2>1. PICK p \in Products, s \in Slugs :
          /\ product[p] = None /\ slugs[s] = None
          /\ product' = [product EXCEPT ![p] = NewRow(s)]
          /\ slugs' = [slugs EXCEPT ![s] = [product |-> p, canonical |-> TRUE]]
          /\ config' = [config EXCEPT ![p] = Default]
    BY <1>4 DEF Create
  <2>2. ASSUME NEW o \in Requests, pc'[o] \in Running
        PROVE  Informed(o)'
    <3>1. pc[o] \in Running
      BY <1>4, <2>2, OthersKept, StepsDisjoint DEF Create, End, Goto, Typed, TypeOK
    <3>2. Product(o) \in Products /\ Product(o) # p
      BY <2>1, <3>1, EntityType DEF Typed, TypeOK
    <3> QED
      BY <1>3, <1>4, <2>1, <2>2, <3>2 DEF Typed, TypeOK
  <2>3. ASSUME NEW o \in Products, product'[o] # None
        PROVE  Settled(o)'
    <3>1. CASE o = p
      <4>1. product'[p] = NewRow(s)
        BY <2>1 DEF Typed, TypeOK
      <4>2. \A t \in Slugs \ {s} : slugs'[t] = slugs[t] /\ ~ OwnedBy(t, p)
        BY <2>1 DEF Typed, TypeOK, SlugInv, Reserved, OwnedBy
      <4>3. slugs'[s].canonical = TRUE
        BY <2>1 DEF Typed, TypeOK
      <4> QED
        BY <3>1, <4>1, <4>2, <4>3 DEF Settled, OwnedBy, NewRow
    <3>2. CASE o # p
      <4>1. product'[o] = product[o] /\ Settled(o)
        BY <1>1, <2>1, <2>3, <3>2 DEF Typed, TypeOK
      <4>2. slugs'[s].product = p /\ \A t \in Slugs \ {s} : slugs'[t] = slugs[t]
        BY <2>1 DEF Typed, TypeOK
      <4> QED
        BY <3>2, <4>1, <4>2 DEF Settled, OwnedBy
    <3> QED
      BY <3>1, <3>2
  <2> QED
    BY <2>2, <2>3
<1>5. CASE Commit(r)
  <2>1. ASSUME NEW o \in Requests, pc'[o] \in Running
        PROVE  Informed(o)'
    <3>1. o # r
      BY <1>5, <2>1, StepsDisjoint DEF Commit, End, Goto, Typed, TypeOK
    <3>2. pc[o] \in Running /\ pc'[o] = pc[o] /\ req'[o] = req[o] /\ saw'[o] = saw[o]
      BY <2>1, <3>1, OthersKept
    <3>3. CASE Product(o) # Product(r)
      <4>1. product'[Product(o)] = product[Product(o)] /\ config'[Product(o)] = config[Product(o)]
        BY <1>5, <3>2, <3>3, EntityType, CommitRow DEF Commit, Typed, TypeOK
      <4> QED
        BY <1>3, <1>5, <2>1, <4>1
    <3>4. CASE Product(o) = Product(r)
      <4>1. /\ saw[o].row.version <= product[Product(o)].version
            /\ saw[o].row.version \in Nat /\ product[Product(o)].version \in Nat
            /\ saw[o].prior # None =>
                 /\ saw[o].prior.version <= product[Product(o)].version
                 /\ saw[o].prior.version \in Nat
        BY <1>1, <3>2, VersionType DEF Informed
      <4>2. product'[Product(o)].version = product[Product(o)].version + 1
        BY <1>5, <3>4, CommitCurrent
      <4>3. Product(o)' = Product(o) /\ saw'[o] = saw[o]
        BY <3>2 DEF Product
      <4>4. ASSUME NEW v \in Nat, v <= product[Product(o)].version
            PROVE  v <= product'[Product(o)].version /\ v # product'[Product(o)].version
        <5>1. PICK n \in Nat : n = product[Product(o)].version
          BY <4>1
        <5>2. v <= n + 1 /\ v # n + 1
          BY <4>4, <5>1
        <5> QED
          BY <4>2, <5>1, <5>2
      <4>5. saw[o].row.version <= product'[Product(o)].version
            /\ saw[o].row.version # product'[Product(o)].version
        BY <4>1, <4>4
      <4>6. saw[o].prior # None =>
              /\ saw[o].prior.version <= product'[Product(o)].version
              /\ saw[o].prior.version # product'[Product(o)].version
        BY <4>1, <4>4
      <4> QED
        BY <4>3, <4>5, <4>6 DEF Informed
    <3> QED
      BY <3>3, <3>4
  <2> QED
    BY <1>5, <2>1, SettledCommit
<1> QED
  BY <1>2, <1>4, <1>5, Writes

LEMMA VersionInit ==
  ASSUME Init
  PROVE  VersionInv
<1>1. Typed /\ SlugInv
  BY TypedInit, SlugInit
<1>2. \A r \in Requests : pc[r] \notin Running
  BY StepsDisjoint DEF Init
<1>3. PICK home \in [Products -> Slugs], created \in SUBSET Products,
          published \in SUBSET Products : StartsWith(home, created, published)
  BY Starts
<1>4. \A s \in Slugs : slugs[s] # None => slugs[s].canonical = TRUE
  BY <1>3 DEF StartsWith
<1>5. ASSUME NEW p \in Products, product[p] # None
      PROVE  Settled(p)
  <2>1. product[p].status = "published" => product[p].everPublished
    <3>1. NewRow(home[p]).status = "draft" /\ PublishedRow(home[p]).everPublished
      BY PublishedType DEF NewRow
    <3> QED
      BY <1>3, <1>5, <3>1 DEF StartsWith
  <2>2. PICK s \in Slugs : CanonicalSlugs(p) = {s}
    BY <1>1, <1>5 DEF SlugInv, Reserved
  <2>3. \A t \in Slugs : OwnedBy(t, p) => t = s /\ slugs[t].canonical = TRUE
    BY <1>4, <2>2 DEF CanonicalSlugs, SlugsOf, OwnedBy
  <2>4. product[p].slug = s
    BY <1>1, <1>5, <2>3 DEF SlugInv, Reserved, Typed, TypeOK, Rows
  <2> QED
    BY <2>1, <2>3, <2>4 DEF Settled
<1> QED
  BY <1>2, <1>5 DEF VersionInv

LEMMA VersionStutter ==
  ASSUME VersionInv, UNCHANGED vars
  PROVE  VersionInv'
<1>1. \A r \in Requests : Informed(r) => Informed(r)'
  BY InformedElsewhere DEF vars, rows
<1> QED
  BY <1>1 DEF VersionInv, Settled, OwnedBy, vars, rows

LEMMA VersionsStay == ReadSpec => []VersionInv
<1>1. ReadInit => VersionInv
  BY VersionInit DEF ReadInit
<1>2. Typed /\ SlugInv /\ VersionInv /\ [ReadNext]_readVars => VersionInv'
  BY VersionStep, VersionStutter, Steps1 DEF readVars
<1> QED
  BY <1>1, <1>2, StaysTyped, SlugsStay, PTL DEF ReadSpec
-----------------------------------------------------------------------------
(* The archive permission *)

\* A variant that is stored has its id alone.
LEMMA VariantsById ==
  ASSUME NEW c, WellFormed(c), DistinctVariants(c),
         NEW v \in Elements(c.variants), NEW w \in Elements(c.variants), v.id = w.id
  PROVE  v = w
<1> DEFINE n == Len(c.variants)
           ids == [i \in 1 .. n |-> c.variants[i].id]
<1>1. n \in Nat /\ DOMAIN c.variants = 1 .. n
  BY ListShape DEF WellFormed
<1>2. Elements(ids) = VariantIds(c)
  BY <1>1 DEF Elements, VariantIds
<1>3. IsList(ids) /\ Len(ids) = n
  <2>1. ids \in [1 .. n -> Elements(ids)]
    BY DEF Elements
  <2> QED
    BY <1>1, <2>1 DEF IsList
<1>4. IsInjective(ids)
  BY <1>2, <1>3, RepeatedNever DEF DistinctVariants
<1>5. PICK i \in 1 .. n, j \in 1 .. n : v = c.variants[i] /\ w = c.variants[j]
  BY <1>1 DEF Elements
<1>6. ids[i] = ids[j]
  BY <1>5
<1> QED
  BY <1>4, <1>5, <1>6 DEF IsInjective

\* Of a stored variant's id a body has at most one spelling that is to be stored.
LEMMA SpelledOnce ==
  ASSUME NEW c, WellFormed(c), DistinctVariants(Folded(c)),
         NEW v \in Elements(c.variants), NEW w \in Elements(c.variants),
         Lower(v.id) = Lower(w.id)
  PROVE  v = w
<1> DEFINE n == Len(c.variants)
           ids == [i \in 1 .. n |-> Folded(c).variants[i].id]
<1>1. /\ n \in Nat /\ DOMAIN c.variants = 1 .. n
      /\ DOMAIN Folded(c).variants = 1 .. n /\ Len(Folded(c).variants) = n
      /\ \A i \in 1 .. n : ids[i] = Lower(c.variants[i].id)
  BY ListShape, FoldedShape DEF WellFormed
<1>2. Elements(ids) = VariantIds(Folded(c))
  BY <1>1 DEF Elements, VariantIds
<1>3. IsList(ids) /\ Len(ids) = n
  <2>1. PICK s : s = ids
    OBVIOUS
  <2>2. s \in [1 .. n -> Elements(s)]
    BY <2>1 DEF Elements
  <2>3. IsList(s) /\ Len(s) = n
    BY <1>1, <2>2 DEF IsList
  <2> QED
    BY <2>1, <2>3
<1>4. IsInjective(ids)
  BY <1>1, <1>2, <1>3, RepeatedNever DEF DistinctVariants
<1>5. PICK i \in 1 .. n, j \in 1 .. n : v = c.variants[i] /\ w = c.variants[j]
  BY <1>1 DEF Elements
<1>6. ids[i] = ids[j]
  BY <1>1, <1>5
<1> QED
  BY <1>4, <1>5, <1>6 DEF IsInjective

\* What is stored under an id that the body has, as it has it, is what it says.
LEMMA StoredAsSaid ==
  ASSUME NEW c, WellFormed(c), DistinctVariants(Folded(c)),
         NEW v \in Elements(c.variants), Lower(v.id) = v.id,
         NEW e \in Elements(Folded(c).variants), e.id = v.id
  PROVE  e.status = v.status /\ e.selection = v.selection
<1>1. PICK w \in Elements(c.variants) :
        e.id = Lower(w.id) /\ e.status = w.status /\ e.selection = w.selection
  BY FoldedElements
<1>2. v = w
  BY <1>1, SpelledOnce
<1> QED
  BY <1>1, <1>2

\* A commit of a body.
LEMMA Stores ==
  ASSUME Typed, ConfigInv, NEW r \in Requests, Commit(r), req[r].kind = "replace"
  PROVE  /\ config'[Product(r)] = Folded(req[r].body)
         /\ WellFormed(req[r].body) /\ DistinctVariants(Folded(req[r].body))
         /\ \A v \in Elements(config[Product(r)].variants) : Lower(v.id) = v.id
<1>1. Product(r) \in Products /\ req[r].body \in Bodies
  BY CommitRow, CommandShape
<1>2. config'[Product(r)] = Folded(req[r].body)
  BY <1>1 DEF Commit, Typed, TypeOK
<1>3. config[Product(r)] \in StoredBodies
  BY <1>1 DEF Typed, TypeOK
<1>4. DistinctVariants(Folded(req[r].body))
  BY DEF Commit, ConfigInv
<1> QED
  BY <1>1, <1>2, <1>3, <1>4, BodiesShape

LEMMA ArchiveStep ==
  ASSUME Typed, ConfigInv, VersionInv, NEW r \in Requests, Step(r),
         NEW o \in Requests, pc[o] = "commit", pc'[o] = "done",
         saw[o].prior # None, saw[o].prior.version = saw[o].row.version, ~ reverted,
         NEW was \in Standing(config[Product(o)]),
         NEW is \in Standing(config'[Product(o)]),
         was.id = is.id, was.id \in VariantIds(req[o].body)
  PROVE  was.status = is.status
<1>1. o = r
  BY OthersKept
<1>2. req[r].kind = "replace" /\ Product(r) \in Products /\ pc[r] \in Running
  BY <1>1, EntityType DEF Typed, StepsFit, Fits, Running, Steps
<1>3. PICK old \in Elements(config[Product(r)].variants) :
        was = [id |-> old.id, status |-> old.status]
  BY <1>1 DEF Standing
<1>4. PICK e \in Elements(config'[Product(r)].variants) :
        is = [id |-> e.id, status |-> e.status]
  BY <1>1 DEF Standing
<1>5. CASE Commit(r)
  <2>1. ~ reverted'
    BY <1>2, <1>5 DEF Commit, Typed, StepsFit, Fits
  <2>2. saw[r].row = product[Product(r)]
    BY <1>5, <2>1, CommitCurrent DEF Current
  <2>3. saw[r].prior.standing = Standing(config[Product(r)])
    BY <1>1, <1>2, <2>2 DEF VersionInv, Informed
  <2>4. PICK v \in Elements(req[r].body.variants) : v.id = was.id
    BY <1>1 DEF VariantIds
  <2>5. Permitted(saw[r].prior, req[r].body)
    BY <1>1, <1>2 DEF ConfigInv
  <2>6. was.status = v.status
    <3>1. PICK said : said = [id |-> v.id, status |-> v.status]
      OBVIOUS
    <3>2. said \in Standing(req[r].body)
      BY <3>1 DEF Standing
    <3>3. was \in saw[r].prior.standing /\ was.id = said.id
      BY <1>1, <2>3, <2>4, <3>1
    <3>4. was.status = said.status
      BY <1>1, <2>5, <3>2, <3>3 DEF Permitted
    <3> QED
      BY <3>1, <3>4
  <2>7. Lower(v.id) = v.id /\ e.id = v.id
    <3>1. v.id = old.id /\ e.id = old.id
      BY <1>3, <1>4, <2>4
    <3>2. Lower(old.id) = old.id
      BY <1>2, <1>5, Stores
    <3> QED
      BY <3>1, <3>2
  <2>8. e.status = v.status
    BY <1>2, <1>4, <1>5, <2>7, Stores, StoredAsSaid
  <2> QED
    BY <1>4, <2>6, <2>8
<1>6. CASE UNCHANGED rows
  <2>1. WellFormed(config[Product(r)]) /\ DistinctVariants(config[Product(r)])
    BY <1>2, BodiesShape DEF Typed, TypeOK, ConfigInv, Accepted
  <2>2. e \in Elements(config[Product(r)].variants) /\ old.id = e.id
    BY <1>3, <1>4, <1>6 DEF rows
  <2>3. old = e
    BY <2>1, <2>2, VariantsById
  <2> QED
    BY <1>3, <1>4, <2>3
<1> QED
  BY <1>1, <1>5, <1>6, Writes DEF Create

\* Whoever may not archive changes the status of no existing variant that the body
\* names as it is stored, if the version that the command is for is the one that
\* the controller read: between its check and the commit nothing was stored then.
THEOREM ArchiveAlwaysAuthorized == ReadSpec => ArchiveAuthorized
<1>1. Typed /\ ConfigInv /\ VersionInv /\ [ReadNext]_readVars =>
        [\A r \in Requests :
           LET p == Product(r)
           IN  /\ pc[r] = "commit" /\ pc'[r] = "done"
               /\ saw[r].prior # None /\ saw[r].prior.version = saw[r].row.version
               /\ ~ reverted
               => \A was \in Standing(config[p]), is \in Standing(config'[p]) :
                    was.id = is.id /\ was.id \in VariantIds(req[r].body)
                      => was.status = is.status]_vars
  BY ArchiveStep, Steps1 DEF readVars
<1> QED
  BY <1>1, StaysTyped, StaysAccepted, VersionsStay, PTL DEF ReadSpec, ArchiveAuthorized
-----------------------------------------------------------------------------
(* Commands implement the register *)

LEMMA SameRules ==
  /\ Register!ProductStatuses = ProductStatuses
  /\ \A from : Register!Transitions(from) = Transitions(from)
  /\ \A c : Register!Publishable(c) = Publishable(c)
  /\ \A row, c, d : Register!Replaceable(row, c, d) = Replaceable(row, c, d)
<1>1. \A s : Register!Elements(s) = Elements(s)
  BY DEF Register!Elements, Elements
<1>2. /\ \A c : Register!ValueIds(c) = ValueIds(c)
      /\ \A c : Register!OptionIds(c) = OptionIds(c)
      /\ \A c : Register!VariantIds(c) = VariantIds(c)
      /\ \A v : Register!CombinationKey(v) = CombinationKey(v)
      /\ \A c : Register!HasActiveVariant(c) = HasActiveVariant(c)
  BY <1>1 DEF Register!ValueIds, ValueIds, Register!OptionIds, OptionIds,
     Register!VariantIds, VariantIds, Register!CombinationKey, CombinationKey,
     Register!HasActiveVariant, HasActiveVariant
<1>3. \A options : Register!OptionsValid(options) = OptionsValid(options)
  BY DEF Register!OptionsValid, OptionsValid, Register!Elements, Elements,
     Register!IsInjective, IsInjective
<1>4. \A c, v : Register!SelectedOptions(c, v) = SelectedOptions(c, v)
  <2> SUFFICES ASSUME NEW c, NEW v
               PROVE  Register!SelectedOptions(c, v) = SelectedOptions(c, v)
    OBVIOUS
  <2> QED
    BY Zenon DEF Register!SelectedOptions, SelectedOptions, Register!Elements, Elements
<1>5. \A c, v : Register!SelectionValid(c, v) = SelectionValid(c, v)
  <2> SUFFICES ASSUME NEW c, NEW v
               PROVE  Register!SelectionValid(c, v) = SelectionValid(c, v)
    OBVIOUS
  <2>1. /\ Register!Elements(v.selection) = Elements(v.selection)
        /\ Register!ValueIds(c) = ValueIds(c)
        /\ Register!SelectedOptions(c, v) = SelectedOptions(c, v)
    BY <1>1, <1>2, <1>4
  <2>2. Register!IsInjective(v.selection) = IsInjective(v.selection)
    BY DEF Register!IsInjective, IsInjective
  <2> QED
    BY <2>1, <2>2 DEF Register!SelectionValid, SelectionValid, Register!Cardinality, Cardinality
<1>6. \A c : Register!Consistent(c) = Consistent(c)
  BY <1>2, <1>3, <1>5 DEF Register!Consistent, Consistent
<1>7. \A c : Register!SingleFulfillmentClassification(c) = SingleFulfillmentClassification(c)
  BY <1>1 DEF Register!SingleFulfillmentClassification, SingleFulfillmentClassification
<1>8. \A c, d : Register!Reshapes(c, d) = Reshapes(c, d)
  BY <1>1, <1>2 DEF Register!Reshapes, Reshapes
<1>9. \A c : Register!Publishable(c) = Publishable(c)
  BY <1>2, <1>6, <1>7 DEF Register!Publishable, Publishable
<1>10. \A row, c, d : Register!Replaceable(row, c, d) = Replaceable(row, c, d)
  BY <1>2, <1>6, <1>7, <1>8 DEF Register!Replaceable, Replaceable
<1> QED
  BY <1>9, <1>10 DEF Register!ProductStatuses, ProductStatuses,
     Register!Transitions, Transitions

\* The row that a current commit leaves is the entity, one version on.
LEMMA CommitUpdates ==
  ASSUME Typed, VersionInv, NEW r \in Requests, Commit(r), ~ reverted'
  PROVE  LET p == Product(r)
         IN  product' = [product EXCEPT ![p] =
                           [Entity(r) EXCEPT !.version = product[p].version + 1]]
<1>1. /\ Saved(r) = Entity(r) /\ Saved(r).version = product[Product(r)].version
      /\ Saved(r) \in Rows
      /\ product' = [product EXCEPT ![Product(r)] =
                       [Saved(r) EXCEPT !.version = Incremented(@)]]
  BY CommitCurrent, CommitRow
<1>2. \A row \in Rows : [row EXCEPT !.version = Incremented(@)]
                          = [row EXCEPT !.version = row.version + 1]
  BY DEF Rows, Incremented
<1> QED
  BY <1>1, <1>2

LEMMA EditImplements ==
  ASSUME Typed, SlugInv, VersionInv, NEW r \in Requests, Commit(r), ~ reverted',
         req[r].kind = "edit"
  PROVE  \E p \in Products, s \in Slugs : Register!Edit(p, s)
<1>0. PICK p, s : p = Product(r) /\ s = req[r].slug
  OBVIOUS
<1>1. /\ ~ reverted /\ Current(r) /\ p \in Products /\ product[p] # None
      /\ product[p] \in Rows /\ saw[r].row = product[p] /\ req[r] \in Commands
  BY <1>0, CommitCurrent, CommitRow DEF Current
<1>2. s \in Slugs /\ Settled(p) /\ OwnedBy(product[p].slug, p)
  BY <1>0, <1>1, CommandShape DEF VersionInv, SlugInv, Reserved
<1>3. Register!Update(p, [product[p] EXCEPT !.slug = s])
  <2>1. Entity(r) = [product[p] EXCEPT !.slug = s]
    BY <1>0, <1>1 DEF Entity
  <2> QED
    BY <1>0, <1>1, <2>1, CommitUpdates DEF Register!Update, Register!Exists
<1>4. CASE MovesSlug(r)
  <2>1. slugs[s] = None \/ OwnedBy(s, p)
    BY <1>0, <1>4 DEF SlugInv, Undisturbed
  <2>2. slugs' = MovedSlugs(p, s)
    BY <1>0, <1>3, <1>4 DEF Commit
  <2>3. ASSUME NEW x \in Slugs
        PROVE  slugs'[x] = IF x = s \/ OwnedBy(x, p)
                           THEN [product |-> p, canonical |-> x = s] ELSE slugs[x]
    <3>1. CASE x = s
      <4>1. slugs'[x] = [product |-> p, canonical |-> TRUE]
        BY <2>2, <3>1 DEF MovedSlugs
      <4> QED
        BY <3>1, <4>1
    <3>2. CASE x # s /\ OwnedBy(x, p)
      <4>1. slugs'[x] = [slugs[x] EXCEPT !.canonical = FALSE]
        BY <2>2, <3>2 DEF MovedSlugs, SlugsOf, OwnedBy
      <4>2. slugs[x] \in Reservations /\ slugs[x].product = p
        BY <3>2 DEF OwnedBy, Typed, TypeOK
      <4>3. slugs'[x] = [product |-> p, canonical |-> FALSE]
        BY <4>1, <4>2 DEF Reservations
      <4> QED
        BY <3>2, <4>3
    <3>3. CASE x # s /\ ~ OwnedBy(x, p)
      BY <2>2, <3>3 DEF MovedSlugs, SlugsOf, OwnedBy
    <3> QED
      BY <3>1, <3>2, <3>3
  <2>4. slugs' = [x \in Slugs |-> IF x = s \/ OwnedBy(x, p)
                                  THEN [product |-> p, canonical |-> x = s] ELSE slugs[x]]
    BY <2>2, <2>3 DEF MovedSlugs
  <2>5. UNCHANGED config
    BY DEF Commit
  <2> QED
    BY <1>1, <1>2, <1>3, <2>1, <2>4, <2>5 DEF Register!Edit, Register!Owned, OwnedBy
<1>5. CASE ~ MovesSlug(r)
  <2>1. s = product[p].slug /\ UNCHANGED <<slugs, config>>
    BY <1>0, <1>1, <1>5 DEF MovesSlug, Commit
  <2>2. ASSUME NEW x \in Slugs
        PROVE  slugs[x] = IF x = s \/ OwnedBy(x, p)
                          THEN [product |-> p, canonical |-> x = s] ELSE slugs[x]
    <3>1. CASE OwnedBy(x, p)
      <4>1. slugs[x] \in Reservations /\ slugs[x].product = p
            /\ (slugs[x].canonical <=> x = s)
        BY <1>2, <2>1, <3>1 DEF Settled, OwnedBy, Typed, TypeOK
      <4>2. slugs[x] = [product |-> p, canonical |-> x = s]
        BY <4>1 DEF Reservations
      <4> QED
        BY <3>1, <4>2
    <3>2. CASE ~ OwnedBy(x, p)
      BY <1>2, <2>1, <3>2
    <3> QED
      BY <3>1, <3>2
  <2>3. slugs' = [x \in Slugs |-> IF x = s \/ OwnedBy(x, p)
                                  THEN [product |-> p, canonical |-> x = s] ELSE slugs[x]]
    BY <2>1, <2>2 DEF Typed, TypeOK
  <2> QED
    BY <1>1, <1>2, <1>3, <2>1, <2>3 DEF Register!Edit, Register!Owned, OwnedBy
<1> QED
  BY <1>4, <1>5

LEMMA TransitionImplements ==
  ASSUME Typed, ConfigInv, VersionInv, NEW r \in Requests, Commit(r), ~ reverted',
         req[r].kind = "transition"
  PROVE  \E p \in Products, target \in ProductStatuses : Register!Transition(p, target)
<1>0. PICK p, target : p = Product(r) /\ target = req[r].target
  OBVIOUS
<1>1. /\ Current(r) /\ p \in Products /\ product[p] # None
      /\ product[p] \in Rows /\ saw[r].row = product[p] /\ req[r] \in Commands
  BY <1>0, CommitCurrent, CommitRow DEF Current
<1>2. target \in ProductStatuses /\ target \in Transitions(product[p].status)
  BY <1>0, <1>1, CommandShape DEF Typed, StepsFit, Fits
<1>3. target = "published" => Publishable(config[p])
  BY <1>0, <1>1 DEF Current, Commit
<1>4. Entity(r) = [product[p] EXCEPT !.status = target,
                                     !.everPublished = @ \/ target = "published"]
  BY <1>0, <1>1 DEF Entity
<1>5. Register!Update(p, [product[p] EXCEPT !.status = target,
                                            !.everPublished = @ \/ target = "published"])
  BY <1>0, <1>1, <1>4, CommitUpdates DEF Register!Update, Register!Exists
<1>6. UNCHANGED <<slugs, config>>
  BY DEF Commit, MovesSlug
<1> QED
  BY <1>1, <1>2, <1>3, <1>5, <1>6, SameRules DEF Register!Transition

\* What may replace a stored configuration still may as it is stored.
LEMMA FoldedReplaceable ==
  ASSUME NEW row, NEW c, \A v \in Elements(c.variants) : Lower(v.id) = v.id,
         NEW d, WellFormed(d), DistinctVariants(Folded(d)), Replaceable(row, c, d)
  PROVE  Replaceable(row, c, Folded(d))
<1>1. PICK e : e = Folded(d)
  OBVIOUS
<1>2. WellFormed(e) /\ e.options = d.options
  BY <1>1, FoldedShape
<1>3. /\ \A w \in Elements(e.variants) : \E v \in Elements(d.variants) :
            /\ w.id = Lower(v.id) /\ w.status = v.status /\ w.selection = v.selection
            /\ w.fulfillmentClassification = v.fulfillmentClassification
      /\ \A v \in Elements(d.variants) : \E w \in Elements(e.variants) :
            w.id = Lower(v.id) /\ w.status = v.status
  BY <1>1, FoldedElements
<1>4. Consistent(e)
  BY <1>1, FoldedConsistent DEF Replaceable
<1>5. SingleFulfillmentClassification(e)
  BY <1>3 DEF Replaceable, SingleFulfillmentClassification
<1>6. HasActiveVariant(d) => HasActiveVariant(e)
  BY <1>3 DEF HasActiveVariant
<1>7. ASSUME Reshapes(c, d)
      PROVE  Reshapes(c, e)
  <2>1. OptionIds(c) = OptionIds(e) /\ ValueIds(e) = ValueIds(d)
    BY <1>2, <1>7 DEF Reshapes, OptionIds, ValueIds
  <2>2. ASSUME NEW v \in Elements(c.variants)
        PROVE  \E u \in Elements(d.variants) :
                 u.id = v.id /\ Lower(u.id) = u.id /\ CombinationKey(v) = CombinationKey(u)
    <3>1. PICK u \in Elements(d.variants) : u.id = v.id
      BY <1>7 DEF Reshapes, VariantIds
    <3> QED
      BY <1>7, <3>1 DEF Reshapes
  <2>3. VariantIds(c) \subseteq VariantIds(e)
    BY <1>3, <2>2 DEF VariantIds
  <2>4. ASSUME NEW v \in Elements(c.variants), NEW w \in Elements(e.variants), v.id = w.id
        PROVE  CombinationKey(v) = CombinationKey(w)
    <3>1. PICK u \in Elements(d.variants) :
            u.id = v.id /\ Lower(u.id) = u.id /\ CombinationKey(v) = CombinationKey(u)
      BY <2>2
    <3>2. w.selection = u.selection
      BY <1>1, <2>4, <3>1, StoredAsSaid
    <3> QED
      BY <3>1, <3>2 DEF CombinationKey
  <2>5. ASSUME NEW w \in Elements(e.variants)
        PROVE  Elements(w.selection) \cap (ValueIds(c) \ ValueIds(e)) = {}
    <3>1. PICK u \in Elements(d.variants) : w.selection = u.selection
      BY <1>3
    <3> QED
      BY <1>7, <2>1, <3>1 DEF Reshapes
  <2> QED
    BY <2>1, <2>3, <2>4, <2>5 DEF Reshapes
<1> QED
  BY <1>1, <1>4, <1>5, <1>6, <1>7 DEF Replaceable

LEMMA ReplaceImplements ==
  ASSUME Typed, ConfigInv, VersionInv, NEW r \in Requests, Commit(r), ~ reverted',
         req[r].kind = "replace"
  PROVE  \E p \in Products : Register!Replace(p)
<1>0. PICK p : p = Product(r)
  OBVIOUS
<1>1. /\ Current(r) /\ p \in Products /\ product[p] # None
      /\ product[p] \in Rows /\ saw[r].row = product[p] /\ req[r] \in Commands
  BY <1>0, CommitCurrent, CommitRow DEF Current
<1>2. Replaceable(product[p], config[p], Folded(req[r].body))
  <2>1. Replaceable(product[p], config[p], req[r].body)
    BY <1>0, <1>1 DEF Current, Commit
  <2> QED
    BY <1>0, <2>1, Stores, FoldedReplaceable
<1>3. Register!Update(p, product[p])
  <2>1. Entity(r) = product[p]
    BY <1>1 DEF Entity
  <2> QED
    BY <1>0, <1>1, <2>1, CommitUpdates DEF Register!Update, Register!Exists
<1>4. config' = [config EXCEPT ![p] = Folded(req[r].body)] /\ UNCHANGED slugs
  BY <1>0 DEF Commit, MovesSlug
<1>5. config'[p] = Folded(req[r].body) /\ \A o \in Products \ {p} : config'[o] = config[o]
  BY <1>1, <1>4 DEF Typed, TypeOK
<1> QED
  BY <1>1, <1>2, <1>3, <1>4, <1>5, SameRules DEF Register!Replace

LEMMA StepImplements ==
  ASSUME Typed, ConfigInv, SlugInv, VersionInv, NEW r \in Requests, Step(r)
  PROVE  [Register!Next]_(Register!vars)
<1>1. CASE UNCHANGED rows
  BY <1>1 DEF rows, Register!vars
<1>2. CASE Create(r)
  <2>1. PICK p \in Products, s \in Slugs :
          /\ product[p] = None /\ slugs[s] = None
          /\ product' = [product EXCEPT ![p] = NewRow(s)]
          /\ slugs' = [slugs EXCEPT ![s] = [product |-> p, canonical |-> TRUE]]
          /\ config' = [config EXCEPT ![p] = Default]
    BY <1>2 DEF Create
  <2>2. Register!Create(p, s)
    BY <2>1 DEF Register!Create, Register!Exists, NewRow
  <2>3. UNCHANGED reverted
    BY <1>2 DEF Create
  <2> QED
    BY <2>2, <2>3 DEF Register!Command, Register!Next
<1>3. CASE Commit(r) /\ reverted'
  BY <1>3 DEF Register!Next
<1>4. CASE Commit(r) /\ ~ reverted'
  <2>1. reverted' = reverted
    BY <1>4, CommitCurrent DEF Commit, Typed, TypeOK
  <2>2. req[r].kind \in {"edit", "transition", "replace"}
    BY <1>4, CommitRow, CommandShape
  <2>3. Register!Command
    <3>1. CASE req[r].kind = "edit"
      BY <1>4, <3>1, EditImplements DEF Register!Command
    <3>2. CASE req[r].kind = "transition"
      BY <1>4, <3>2, TransitionImplements, SameRules DEF Register!Command
    <3>3. CASE req[r].kind = "replace"
      BY <1>4, <3>3, ReplaceImplements DEF Register!Command
    <3> QED
      BY <2>2, <3>1, <3>2, <3>3
  <2> QED
    BY <2>1, <2>3 DEF Register!Next
<1> QED
  BY <1>1, <1>2, <1>3, <1>4, Writes

LEMMA InitImplements ==
  ASSUME Init
  PROVE  Register!Init
<1>1. Typed /\ SlugInv /\ reverted = FALSE
  BY TypedInit, SlugInit DEF Init
<1>2. \A p \in Products : product[p] # None => product[p].slug \in Slugs
  BY <1>1 DEF Typed, TypeOK, Rows
<1>3. \A s \in Slugs : slugs[s] # None => product[slugs[s].product] # None
  BY <1>1 DEF SlugInv, Reserved
<1> QED
  BY <1>1, <1>2, <1>3 DEF Register!Init, Register!Exists

\* Commands implement the register: until an old version is written back, each
\* command that commits acts as if it had run alone and at once.
THEOREM CommandsActAtOnce == ReadSpec => CommandsAtomic
<1>1. ReadInit => Register!Init
  BY InitImplements DEF ReadInit
<1>2. Typed /\ ConfigInv /\ SlugInv /\ VersionInv /\ [ReadNext]_readVars
        => [Register!Next]_(Register!vars)
  <2>1. UNCHANGED vars => UNCHANGED Register!vars
    BY DEF vars, rows, Register!vars
  <2> QED
    BY <2>1, StepImplements, Steps1 DEF readVars
<1> QED
  BY <1>1, <1>2, StaysTyped, StaysAccepted, SlugsStay, VersionsStay, PTL
  DEF ReadSpec, CommandsAtomic, Register!Spec
=============================================================================
