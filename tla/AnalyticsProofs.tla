--------------------------- MODULE AnalyticsProofs ---------------------------
(* Proofs about what the dashboard reads: the puzzle catalogue, for any        *)
(* documents and uploads and any number of administrators, the pages of the    *)
(* event feed, for any events and any page size, and the retry ladder of a     *)
(* house, for any rows of any attempts.                                        *)
EXTENDS Catalog, PagePromise, LadderPromise, SequenceTheorems, FiniteSetTheorems, TLAPS

CONSTANTS Events, Filters, PageSize, Slots,
          Blocks, NumAttempts, Waves, Elapsed, MinSamples, MaxEvents, NoBlock

VARIABLES stored, filter, paused, stale, flight, read, done

Pages == INSTANCE Feed
Ladder == INSTANCE Insights

-----------------------------------------------------------------------------
(* The catalogue.                                                            *)

\* The columns of a key.
LEMMA KeyFields ==
    /\ \A a, r, c, h, i : LET k == Key(a, r, c, h, i)
                          IN  k.table = a /\ k.rev = r /\ k.city = c /\ k.house = h /\ k.id = i
    /\ \A r : Revision(r).table = "revision" /\ Revision(r).rev = r
    /\ \A g, i : BlockKey(g, i).table = "block" /\ BlockKey(g, i).rev = g.rev
  BY DEF Key, Revision, BlockKey

\* The fields of a transaction.
LEMMA TxFields ==
    \A o, s, a, n, w : LET t == Tx(o, s, a, n, w)
                       IN  t.op = o /\ t.stage = s /\ t.arg = a /\ t.at = n /\ t.writes = w
  BY DEF Tx

\* The columns of a row, and tables of one row or none.
LEMMA RowFields ==
    /\ \A v, s : BlockRow(v, s).wave = v /\ BlockRow(v, s).shape = s
    /\ \A k, r : DOMAIN OneRow(k, r) = {k} /\ OneRow(k, r)[k] = r
    /\ \A d : DOMAIN RevisionRow(d) = {Revision(d.rev)} /\ RevisionRow(d)[Revision(d.rev)].doc = d
    /\ DOMAIN NoRows = {}
  BY DEF BlockRow, OneRow, RevisionRow, NoRows

\* What is written over old rows is there, and the other rows stay.
LEMMA OverFacts ==
    ASSUME NEW old, NEW new
    PROVE  /\ DOMAIN Over(old, new) = DOMAIN old \cup DOMAIN new
           /\ \A k \in DOMAIN new : Over(old, new)[k] = new[k]
           /\ \A k \in DOMAIN old : k \notin DOMAIN new => Over(old, new)[k] = old[k]
  BY DEF Over

\* What a house's import writes.
HouseRows(d, c, h, part) ==
    /\ \A k \in DOMAIN part : /\ k.table \in {"block", "target", "rule"}
                              /\ k.rev = d.rev /\ k.city = c.id /\ k.house = h.id
                              /\ k.table = "block" => part[k] = BlockRow(part[k].wave, NoShape)
                              /\ k.table = "target" => \E t \in ToSet(h.targets) :
                                    t.id = k.id /\ part[k].wave = t.wave /\ part[k].blocks = t.blocks
                              /\ k.table = "rule" => \E r \in ToSet(h.rules) :
                                    r.id = k.id /\ part[k].groups = r.groups
    /\ \A b \in ToSet(h.blocks) : Key("block", d.rev, c.id, h.id, b) \in DOMAIN part
    /\ \A t \in ToSet(h.targets) : Key("target", d.rev, c.id, h.id, t.id) \in DOMAIN part

\* Such are the rows of a house: blocks without a shape, and targets and rules as
\* the document has them.
LEMMA HouseRowsOf ==
    ASSUME NEW d, NEW c, NEW h
    PROVE  HouseRows(d, c, h, insertPuzzleHouse(d, c, h))
  <1> DEFINE K(table, ids) == {Key(table, d.rev, c.id, h.id, id) : id \in ids}
             Row(k) == CASE k.table = "block" -> BlockRow(WaveOf(h, k.id), NoShape)
                    [] k.table = "target" -> [wave |-> Named(h.targets, k.id).wave,
                                              blocks |-> Named(h.targets, k.id).blocks]
                    [] k.table = "rule" -> [groups |-> Named(h.rules, k.id).groups]
             B == K("block", ToSet(h.blocks))
             T == K("target", {t.id : t \in ToSet(h.targets)})
             R == K("rule", {r.id : r \in ToSet(h.rules)})
             part == insertPuzzleHouse(d, c, h)
  <1>1. part = [k \in B \cup T \cup R |-> Row(k)] BY DEF insertPuzzleHouse
  <1> HIDE DEF part
  <1>2. \A k \in B \cup T \cup R : k.rev = d.rev /\ k.city = c.id /\ k.house = h.id
    BY KeyFields
  <1>3. \A k \in B : k.table = "block" BY KeyFields
  <1>4. \A k \in T : k.table = "target" /\ \E t \in ToSet(h.targets) : t.id = k.id BY KeyFields
  <1>5. \A k \in R : k.table = "rule" /\ \E t \in ToSet(h.rules) : t.id = k.id BY KeyFields
  <1>6. /\ \A b \in ToSet(h.blocks) : Key("block", d.rev, c.id, h.id, b) \in B
        /\ \A t \in ToSet(h.targets) : Key("target", d.rev, c.id, h.id, t.id) \in T
    OBVIOUS
  <1> HIDE DEF B, T, R
  <1>7. DOMAIN part = B \cup T \cup R /\ \A k \in B \cup T \cup R : part[k] = Row(k) BY <1>1
  <1>8. ASSUME NEW k \in B PROVE part[k] = BlockRow(part[k].wave, NoShape)
    <2>1. Row(k) = BlockRow(WaveOf(h, k.id), NoShape) BY <1>3
    <2>2. part[k] = Row(k) BY <1>7
    <2> HIDE DEF Row
    <2> QED BY <2>1, <2>2, RowFields
  <1>9. ASSUME NEW k \in T
        PROVE  \E t \in ToSet(h.targets) : t.id = k.id /\ part[k].wave = t.wave /\ part[k].blocks = t.blocks
    <2>1. Named(h.targets, k.id) \in ToSet(h.targets) /\ Named(h.targets, k.id).id = k.id
      BY <1>4 DEF Named
    <2>2. Row(k) = [wave |-> Named(h.targets, k.id).wave, blocks |-> Named(h.targets, k.id).blocks] BY <1>4
    <2>3. part[k] = Row(k) BY <1>7
    <2> HIDE DEF Row
    <2> QED BY <2>1, <2>2, <2>3
  <1>10. ASSUME NEW k \in R
         PROVE  \E r \in ToSet(h.rules) : r.id = k.id /\ part[k].groups = r.groups
    <2>1. Named(h.rules, k.id) \in ToSet(h.rules) /\ Named(h.rules, k.id).id = k.id
      BY <1>5 DEF Named
    <2>2. Row(k) = [groups |-> Named(h.rules, k.id).groups] BY <1>5
    <2>3. part[k] = Row(k) BY <1>7
    <2> HIDE DEF Row
    <2> QED BY <2>1, <2>2, <2>3
  <1> HIDE DEF Row
  <1>11. \A k \in DOMAIN part :
            /\ k.table \in {"block", "target", "rule"}
            /\ k.table = "block" => k \in B
            /\ k.table = "target" => k \in T
            /\ k.table = "rule" => k \in R
    BY <1>3, <1>4, <1>5, <1>7
  <1> QED BY <1>2, <1>6, <1>7, <1>8, <1>9, <1>10, <1>11 DEF HouseRows, part

\* Every row of a document is one of a house of it.
LEMMA RowsOfHouses ==
    ASSUME NEW d
    PROVE  /\ \A k \in DOMAIN insertPuzzleCatalogRows(d) :
                 \E c \in ToSet(d.cities) : \E h \in ToSet(c.houses) :
                    /\ k \in DOMAIN insertPuzzleHouse(d, c, h)
                    /\ insertPuzzleCatalogRows(d)[k] = insertPuzzleHouse(d, c, h)[k]
           /\ \A c \in ToSet(d.cities) : \A h \in ToSet(c.houses) :
                 DOMAIN insertPuzzleHouse(d, c, h) \subseteq DOMAIN insertPuzzleCatalogRows(d)
  <1> DEFINE parts == UNION {{insertPuzzleHouse(d, c, h) : h \in ToSet(c.houses)} : c \in ToSet(d.cities)}
             all == insertPuzzleCatalogRows(d)
             D == UNION {DOMAIN part : part \in parts}
             Part(k) == CHOOSE part \in parts : k \in DOMAIN part
  <1>1. all = [k \in D |-> Part(k)[k]] BY DEF insertPuzzleCatalogRows
  <1>2. \A part \in parts : \E c \in ToSet(d.cities) : \E h \in ToSet(c.houses) :
           part = insertPuzzleHouse(d, c, h)
    OBVIOUS
  <1>3. \A c \in ToSet(d.cities) : \A h \in ToSet(c.houses) : insertPuzzleHouse(d, c, h) \in parts
    OBVIOUS
  <1> HIDE DEF all, parts
  <1>4. \A k \in D : Part(k) \in parts /\ k \in DOMAIN Part(k) OBVIOUS
  <1>5. \A part \in parts : DOMAIN part \subseteq D OBVIOUS
  <1> HIDE DEF D, Part
  <1>6. DOMAIN all = D /\ \A k \in D : all[k] = Part(k)[k] BY <1>1
  <1>7. ASSUME NEW k \in D
        PROVE  \E c \in ToSet(d.cities) : \E h \in ToSet(c.houses) :
                    /\ k \in DOMAIN insertPuzzleHouse(d, c, h)
                    /\ all[k] = insertPuzzleHouse(d, c, h)[k]
    BY <1>2, <1>4, <1>6
  <1> QED BY <1>3, <1>5, <1>6, <1>7 DEF all

\* What the rows of a document look like, and how a valid one resolves.
DocRows(d, new) ==
    \A k \in DOMAIN new : /\ k.table \in {"block", "target", "rule"} /\ k.rev = d.rev
                          /\ k.table = "block" => new[k] = BlockRow(new[k].wave, NoShape)

Resolves(d, new) ==
    /\ \A k \in DOMAIN new : k.table = "target" =>
          /\ \A b \in new[k].blocks : Key("block", k.rev, k.city, k.house, b) \in DOMAIN new
          /\ \E c \in ToSet(d.cities) : \E h \in ToSet(c.houses) :
                c.id = k.city /\ h.id = k.house /\ \E w \in ToSet(h.waves) : w.id = new[k].wave
    /\ \A k \in DOMAIN new : k.table = "rule" =>
          /\ Key("target", k.rev, k.city, k.house, k.id) \in DOMAIN new
          /\ \A b \in UNION new[k].groups : Key("block", k.rev, k.city, k.house, b) \in DOMAIN new

\* The rows of a document are of its revision, and no block has a shape yet.
LEMMA DocRowsOf == ASSUME NEW d PROVE DocRows(d, insertPuzzleCatalogRows(d))
  <1> SUFFICES ASSUME NEW k \in DOMAIN insertPuzzleCatalogRows(d)
               PROVE  /\ k.table \in {"block", "target", "rule"} /\ k.rev = d.rev
                      /\ k.table = "block" => insertPuzzleCatalogRows(d)[k]
                            = BlockRow(insertPuzzleCatalogRows(d)[k].wave, NoShape)
    BY DEF DocRows
  <1>a. PICK c \in ToSet(d.cities) : \E h \in ToSet(c.houses) :
           /\ k \in DOMAIN insertPuzzleHouse(d, c, h)
           /\ insertPuzzleCatalogRows(d)[k] = insertPuzzleHouse(d, c, h)[k]
    BY RowsOfHouses
  <1>1. PICK h \in ToSet(c.houses) :
           /\ k \in DOMAIN insertPuzzleHouse(d, c, h)
           /\ insertPuzzleCatalogRows(d)[k] = insertPuzzleHouse(d, c, h)[k]
    BY <1>a
  <1> QED BY <1>1, HouseRowsOf DEF HouseRows

\* Validation makes every reference of a document resolve within it.
LEMMA ValidResolves ==
    ASSUME NEW d, ValidCatalog(d)
    PROVE  Resolves(d, insertPuzzleCatalogRows(d))
  <1> DEFINE all == insertPuzzleCatalogRows(d)
  <1>1. ASSUME NEW k \in DOMAIN all
        PROVE  \E c \in ToSet(d.cities) : \E h \in ToSet(c.houses) :
                 /\ k \in DOMAIN insertPuzzleHouse(d, c, h)
                 /\ all[k] = insertPuzzleHouse(d, c, h)[k]
                 /\ DOMAIN insertPuzzleHouse(d, c, h) \subseteq DOMAIN all
                 /\ HouseRows(d, c, h, insertPuzzleHouse(d, c, h))
                 /\ validatePuzzleHouse(h)
    <2>a. PICK c \in ToSet(d.cities) : \E h \in ToSet(c.houses) :
             /\ k \in DOMAIN insertPuzzleHouse(d, c, h)
             /\ all[k] = insertPuzzleHouse(d, c, h)[k]
      BY RowsOfHouses
    <2>1. PICK h \in ToSet(c.houses) :
             /\ k \in DOMAIN insertPuzzleHouse(d, c, h)
             /\ all[k] = insertPuzzleHouse(d, c, h)[k]
      BY <2>a
    <2>2. DOMAIN insertPuzzleHouse(d, c, h) \subseteq DOMAIN all BY RowsOfHouses
    <2>3. validatePuzzleHouse(h) BY DEF ValidCatalog
    <2> QED BY <2>1, <2>2, <2>3, HouseRowsOf
  <1> HIDE DEF all
  <1>2. ASSUME NEW k \in DOMAIN all, k.table = "target"
        PROVE  /\ \A b \in all[k].blocks : Key("block", k.rev, k.city, k.house, b) \in DOMAIN all
               /\ \E c \in ToSet(d.cities) : \E h \in ToSet(c.houses) :
                     c.id = k.city /\ h.id = k.house /\ \E w \in ToSet(h.waves) : w.id = all[k].wave
    <2>a. PICK c \in ToSet(d.cities) : \E h \in ToSet(c.houses) :
                 /\ k \in DOMAIN insertPuzzleHouse(d, c, h)
                 /\ all[k] = insertPuzzleHouse(d, c, h)[k]
                 /\ DOMAIN insertPuzzleHouse(d, c, h) \subseteq DOMAIN all
                 /\ HouseRows(d, c, h, insertPuzzleHouse(d, c, h))
                 /\ validatePuzzleHouse(h)
      BY <1>1
    <2>1. PICK h \in ToSet(c.houses) :
                 /\ k \in DOMAIN insertPuzzleHouse(d, c, h)
                 /\ all[k] = insertPuzzleHouse(d, c, h)[k]
                 /\ DOMAIN insertPuzzleHouse(d, c, h) \subseteq DOMAIN all
                 /\ HouseRows(d, c, h, insertPuzzleHouse(d, c, h))
                 /\ validatePuzzleHouse(h)
      BY <2>a
    <2>2. PICK t \in ToSet(h.targets) : t.id = k.id /\ all[k].wave = t.wave /\ all[k].blocks = t.blocks
      BY <2>1, <1>2 DEF HouseRows
    <2>3. k.rev = d.rev /\ k.city = c.id /\ k.house = h.id BY <2>1 DEF HouseRows
    <2>4. t.wave \in {w.id : w \in ToSet(h.waves)} /\ t.blocks \subseteq ToSet(h.blocks)
      BY <2>1 DEF validatePuzzleHouse, validatePuzzleTargets
    <2>5. \A b \in t.blocks : Key("block", d.rev, c.id, h.id, b) \in DOMAIN all
      BY <2>1, <2>4 DEF HouseRows
    <2>6. \E w \in ToSet(h.waves) : w.id = t.wave BY <2>4
    <2> QED BY <2>2, <2>3, <2>5, <2>6
  <1>3. ASSUME NEW k \in DOMAIN all, k.table = "rule"
        PROVE  /\ Key("target", k.rev, k.city, k.house, k.id) \in DOMAIN all
               /\ \A b \in UNION all[k].groups : Key("block", k.rev, k.city, k.house, b) \in DOMAIN all
    <2>a. PICK c \in ToSet(d.cities) : \E h \in ToSet(c.houses) :
                 /\ k \in DOMAIN insertPuzzleHouse(d, c, h)
                 /\ all[k] = insertPuzzleHouse(d, c, h)[k]
                 /\ DOMAIN insertPuzzleHouse(d, c, h) \subseteq DOMAIN all
                 /\ HouseRows(d, c, h, insertPuzzleHouse(d, c, h))
                 /\ validatePuzzleHouse(h)
      BY <1>1
    <2>1. PICK h \in ToSet(c.houses) :
                 /\ k \in DOMAIN insertPuzzleHouse(d, c, h)
                 /\ all[k] = insertPuzzleHouse(d, c, h)[k]
                 /\ DOMAIN insertPuzzleHouse(d, c, h) \subseteq DOMAIN all
                 /\ HouseRows(d, c, h, insertPuzzleHouse(d, c, h))
                 /\ validatePuzzleHouse(h)
      BY <2>a
    <2>2. PICK r \in ToSet(h.rules) : r.id = k.id /\ all[k].groups = r.groups
      BY <2>1, <1>3 DEF HouseRows
    <2>3. k.rev = d.rev /\ k.city = c.id /\ k.house = h.id BY <2>1 DEF HouseRows
    <2>4. r.id \in {t.id : t \in ToSet(h.targets)} /\ UNION r.groups \subseteq ToSet(h.blocks)
      BY <2>1 DEF validatePuzzleHouse, validatePlacementRules
    <2>5. PICK t \in ToSet(h.targets) : t.id = k.id BY <2>2, <2>4
    <2>6. Key("target", d.rev, c.id, h.id, t.id) \in DOMAIN all BY <2>1 DEF HouseRows
    <2>7. \A b \in UNION r.groups : Key("block", d.rev, c.id, h.id, b) \in DOMAIN all
      BY <2>1, <2>4 DEF HouseRows
    <2> QED BY <2>2, <2>3, <2>5, <2>6, <2>7
  <1> QED BY <1>2, <1>3 DEF Resolves, all

\* A shape that an upload may carry is one.
LEMMA UploadsHaveShapes ==
    ASSUME NEW g, ValidGeometry(g), NEW i \in DOMAIN g.blocks
    PROVE  g.blocks[i].shape # NoShape
  <1>1. g.blocks[i].shape.lo < g.blocks[i].shape.hi BY DEF ValidGeometry, validateBlock
  <1>2. NoShape.lo = 0 /\ NoShape.hi = 0 BY DEF NoShape
  <1> QED BY <1>1, <1>2

-----------------------------------------------------------------------------
(* The invariant gives the promise.                                          *)

\* In whole revisions every reference resolves.
LEMMA WholeResolves ==
    ASSUME RevisionsWhole
    PROVE  StoredReferencesResolve
  <1> USE KeyFields
  <1>1. ASSUME NEW k \in DOMAIN rows, k.table \in {"target", "rule"}
        PROVE  LET d == rows[Revision(k.rev)].doc
                   all == insertPuzzleCatalogRows(d)
               IN  /\ k \in DOMAIN all /\ rows[k] = all[k] /\ DOMAIN all \subseteq DOMAIN rows
                   /\ Resolves(d, all)
    <2> DEFINE d == rows[Revision(k.rev)].doc
               all == insertPuzzleCatalogRows(d)
    <2>1. Revision(k.rev) \in Of("revision") BY DEF RevisionsWhole, Of
    <2>2. ValidCatalog(d) /\ DOMAIN all \subseteq DOMAIN rows BY <2>1 DEF RevisionsWhole
    <2>3. k \in DOMAIN all /\ Semantics(k, rows[k]) = Semantics(k, all[k])
      BY <1>1 DEF RevisionsWhole
    <2>4. rows[k] = all[k] BY <2>3, <1>1 DEF Semantics
    <2> QED BY <2>2, <2>3, <2>4, ValidResolves
  <1>2. \A k \in DOMAIN rows : Revision(k.rev) \in DOMAIN rows BY DEF RevisionsWhole
  <1>3. ASSUME NEW k \in DOMAIN rows, k.table = "target"
        PROVE  /\ \A b \in rows[k].blocks : Key("block", k.rev, k.city, k.house, b) \in DOMAIN rows
               /\ \E c \in ToSet(rows[Revision(k.rev)].doc.cities) : \E h \in ToSet(c.houses) :
                     c.id = k.city /\ h.id = k.house /\ \E w \in ToSet(h.waves) : w.id = rows[k].wave
    <2> DEFINE d == rows[Revision(k.rev)].doc
               all == insertPuzzleCatalogRows(d)
    <2>1. k \in DOMAIN all /\ rows[k] = all[k] /\ DOMAIN all \subseteq DOMAIN rows /\ Resolves(d, all)
      BY <1>1, <1>3
    <2> HIDE DEF d, all
    <2>2. /\ \A b \in all[k].blocks : Key("block", k.rev, k.city, k.house, b) \in DOMAIN all
          /\ \E c \in ToSet(d.cities) : \E h \in ToSet(c.houses) :
                c.id = k.city /\ h.id = k.house /\ \E w \in ToSet(h.waves) : w.id = all[k].wave
      BY <2>1, <1>3 DEF Resolves
    <2>3. \A b \in rows[k].blocks : Key("block", k.rev, k.city, k.house, b) \in DOMAIN rows
      BY <2>1, <2>2
    <2>4. \E c \in ToSet(d.cities) : \E h \in ToSet(c.houses) :
             c.id = k.city /\ h.id = k.house /\ \E w \in ToSet(h.waves) : w.id = rows[k].wave
      BY <2>1, <2>2
    <2> QED BY <2>3, <2>4 DEF d
  <1>4. ASSUME NEW k \in DOMAIN rows, k.table = "rule"
        PROVE  /\ Key("target", k.rev, k.city, k.house, k.id) \in DOMAIN rows
               /\ \A b \in UNION rows[k].groups : Key("block", k.rev, k.city, k.house, b) \in DOMAIN rows
    BY <1>1, <1>4 DEF Resolves
  <1> QED BY <1>2, <1>3, <1>4 DEF StoredReferencesResolve, Of

-----------------------------------------------------------------------------
(* Steps that commit nothing.                                                *)

\* A transaction that has more to do may change what it holds, if that still fits.
LEMMA TransactionGoesOn ==
    ASSUME IInv, NEW p \in Procs, NEW t, Fits(t),
           UNCHANGED rows, tx' = [tx EXCEPT ![p] = t],
           t.op = "import" /\ t.stage # "revision" =>
              \A q \in Procs \ {p} : tx[q].op = "import" /\ tx[q].stage # "revision"
                                     => tx[q].arg.rev # t.arg.rev
    PROVE  IInv'
  <1>1. tx' = [q \in Procs |-> IF q = p THEN t ELSE tx[q]] BY DEF IInv
  <1>2. tx'[p] = t /\ (\A q \in Procs : q # p => tx'[q] = tx[q]) /\ tx' = [q \in Procs |-> tx'[q]] BY <1>1
  <1>3. RevisionsWhole' /\ ShapesUploaded' /\ ShapesOfOneUpload'
    BY DEF IInv, RevisionsWhole, ShapesUploaded, ShapesOfOneUpload, Of
  <1>5. \A q \in Procs : Fits(tx[q]) BY DEF IInv
  <1>6. \A q \in Procs : tx'[q] = t \/ tx'[q] = tx[q] BY <1>2
  <1>7. ASSUME NEW q \in Procs PROVE Fits(tx[q])'
    <2>1. PICK u : tx'[q] = u /\ Fits(u) BY <1>5, <1>6
    <2>2. CASE u = Closed BY <2>1, <2>2 DEF Fits
    <2>3. CASE ImportFits(u) BY <2>1, <2>3 DEF Fits, ImportFits
    <2>4. CASE UploadFits(u) BY <2>1, <2>4 DEF Fits, UploadFits
    <2>5. CASE ArtFits(u) BY <2>1, <2>5 DEF Fits, ArtFits
    <2> QED BY <2>1, <2>2, <2>3, <2>4, <2>5 DEF Fits
  <1>8. OneImport' BY <1>2 DEF IInv, OneImport
  <1> QED BY <1>2, <1>3, <1>7, <1>8 DEF IInv

\* A transaction that ends without a commit leaves nothing behind.
LEMMA TransactionEnds ==
    ASSUME IInv, NEW p \in Procs, UNCHANGED rows, tx' = [tx EXCEPT ![p] = Closed]
    PROVE  IInv'
  <1>1. Fits(Closed) BY DEF Fits
  <1>2. Closed.op # "import" BY TxFields DEF Closed
  <1> QED BY <1>1, <1>2, TransactionGoesOn

\* A transaction begins with nothing written.
LEMMA OpenPreserves ==
    ASSUME Configured, IInv, NEW p \in Procs,
           \/ \E d \in Docs : ImportPuzzleCatalog(p, d)
           \/ \E g \in Geometries : ApplyPuzzleGeometry(p, g)
           \/ \E a \in Arts : ImportPuzzleHouseArt(p, a)
    PROVE  IInv'
  <1>1. ASSUME NEW d \in Docs, ImportPuzzleCatalog(p, d) PROVE IInv'
    <2>1. CASE ~ValidCatalog(d) BY <1>1, <2>1, TransactionEnds DEF ImportPuzzleCatalog, End
    <2>2. CASE ValidCatalog(d)
      <3> DEFINE t == Tx("import", "revision", d, 1, NoRows)
      <3>1. tx' = [tx EXCEPT ![p] = t] /\ UNCHANGED rows BY <1>1, <2>2 DEF ImportPuzzleCatalog, Open
      <3>2. t.op = "import" /\ t.stage = "revision" /\ t.arg = d /\ t.writes = NoRows BY TxFields
      <3> HIDE DEF t
      <3>3. Fits(t) BY <2>2, <3>2 DEF Fits, ImportFits
      <3> QED BY <3>1, <3>2, <3>3, TransactionGoesOn
    <2> QED BY <2>1, <2>2
  <1>2. ASSUME NEW g \in Geometries, ApplyPuzzleGeometry(p, g) PROVE IInv'
    <2>1. CASE ~ValidGeometry(g) BY <1>2, <2>1, TransactionEnds DEF ApplyPuzzleGeometry, End
    <2>2. CASE ValidGeometry(g)
      <3> DEFINE t == Tx("geometry", "exists", g, 1, NoRows)
      <3>1. tx' = [tx EXCEPT ![p] = t] /\ UNCHANGED rows BY <1>2, <2>2 DEF ApplyPuzzleGeometry, Open
      <3>2. t.op = "geometry" /\ t.stage = "exists" /\ t.arg = g /\ t.at = 1 /\ t.writes = NoRows BY TxFields
      <3> HIDE DEF t
      <3>3. Len(g.blocks) \in Nat /\ Len(g.blocks) # 0
        <4>1. g.blocks \in Seq(ToSet(g.blocks)) /\ g.blocks # <<>> BY <2>2 DEF Configured, ValidGeometry
        <4> QED BY <4>1, EmptySeq, LenProperties
      <3>4. 1..(1 - 1) = {} OBVIOUS
      <3>5. DOMAIN t.writes = {BlockKey(g, i) : i \in 1..(1 - 1)} BY <3>2, <3>4, RowFields
      <3>6. t.at \in 1..(Len(g.blocks) + 1) /\ t.at # Len(g.blocks) + 1 BY <3>2, <3>3
      <3>7. UploadFits(t) BY <2>2, <3>2, <3>4, <3>5, <3>6 DEF UploadFits
      <3> QED BY <3>1, <3>2, <3>7, TransactionGoesOn DEF Fits
    <2> QED BY <2>1, <2>2
  <1>3. ASSUME NEW a \in Arts, ImportPuzzleHouseArt(p, a) PROVE IInv'
    <2>1. CASE a.houses = <<>> BY <1>3, <2>1, TransactionEnds DEF ImportPuzzleHouseArt, End
    <2>2. CASE a.houses # <<>>
      <3> DEFINE t == Tx("art", "exists", a, 1, NoRows)
      <3>1. tx' = [tx EXCEPT ![p] = t] /\ UNCHANGED rows BY <1>3, <2>2 DEF ImportPuzzleHouseArt, Open
      <3>2. t.op = "art" /\ t.stage = "exists" /\ DOMAIN t.writes = {} BY TxFields, RowFields
      <3> HIDE DEF t
      <3>3. Fits(t) BY <3>2 DEF Fits, ArtFits
      <3> QED BY <3>1, <3>2, <3>3, TransactionGoesOn
    <2> QED BY <2>1, <2>2
  <1> QED BY <1>1, <1>2, <1>3

\* What a transaction is, by its stage.
LEMMA Stages ==
    ASSUME NEW t, Fits(t)
    PROVE  /\ t.stage \in {"revision", "rows"} => ImportFits(t)
           /\ t.stage = "exists" => UploadFits(t) \/ ArtFits(t)
           /\ t.stage = "attach" /\ t.op = "geometry" => UploadFits(t)
           /\ t.stage = "attach" /\ t.op = "art" => ArtFits(t)
           /\ t.stage = "commit" => ImportFits(t) \/ UploadFits(t) \/ ArtFits(t)
  <1>1. Closed.stage = "none" BY TxFields DEF Closed
  <1>2. CASE t = Closed BY <1>1, <1>2
  <1>3. CASE ImportFits(t) BY <1>3 DEF ImportFits
  <1>4. CASE UploadFits(t) BY <1>4 DEF UploadFits
  <1>5. CASE ArtFits(t) BY <1>5 DEF ArtFits
  <1> QED BY <1>2, <1>3, <1>4, <1>5 DEF Fits

\* The first statement of an import: who holds the key is alone with it.
LEMMA RevisionPreserves ==
    ASSUME IInv, NEW p \in Procs, insertPuzzleRevision(p)
    PROVE  IInv'
  <1> DEFINE d == tx[p].arg
  <1>1. CASE Revision(d.rev) \in DOMAIN rows
    BY <1>1, TransactionEnds DEF insertPuzzleRevision, End
  <1>2. CASE Revision(d.rev) \notin DOMAIN rows
    <2>1. Fits(tx[p]) /\ tx[p].stage = "revision" BY DEF IInv, insertPuzzleRevision
    <2>2. ImportFits(tx[p]) BY <2>1, Stages
    <2>3. tx[p].writes = NoRows /\ tx[p].op = "import" BY <2>1, <2>2 DEF ImportFits
    <2> DEFINE t == Tx("import", "rows", d, tx[p].at + 1, Over(NoRows, RevisionRow(d)))
    <2>4. tx' = [tx EXCEPT ![p] = t] /\ UNCHANGED rows
      BY <1>2, <2>3 DEF insertPuzzleRevision, Write, IInv
    <2>5. Over(NoRows, RevisionRow(d)) = RevisionRow(d) BY DEF Over, NoRows, RevisionRow, OneRow
    <2>6. t.op = "import" /\ t.stage = "rows" /\ t.arg = d /\ t.writes = RevisionRow(d)
      BY <2>5, TxFields
    <2> HIDE DEF t
    <2>7. ImportFits(t) BY <1>2, <2>2, <2>6 DEF ImportFits
    <2>8. ASSUME NEW q \in Procs \ {p}, tx[q].op = "import", tx[q].stage # "revision"
          PROVE  tx[q].arg.rev # d.rev
      <3>1. Fits(tx[q]) BY DEF IInv
      <3>2. Closed.op = "none" BY TxFields DEF Closed
      <3>3. ImportFits(tx[q]) BY <2>8, <3>1, <3>2 DEF Fits, UploadFits, ArtFits
      <3>4. Revision(tx[q].arg.rev) \in DOMAIN tx[q].writes
        <4> DEFINE e == tx[q].arg
        <4>1. Revision(e.rev) \in DOMAIN RevisionRow(e) BY RowFields
        <4>2. Revision(e.rev) \in DOMAIN Over(RevisionRow(e), insertPuzzleCatalogRows(e)) BY <4>1, OverFacts
        <4> QED BY <2>8, <3>3, <4>1, <4>2 DEF ImportFits
      <3>5. Revision(d.rev) \notin DOMAIN tx[q].writes BY DEF insertPuzzleRevision, Locked
      <3> QED BY <3>4, <3>5
    <2> QED BY <2>4, <2>6, <2>7, <2>8, TransactionGoesOn DEF Fits
  <1> QED BY <1>1, <1>2

\* The rows of a revision follow in the transaction that holds its key.
LEMMA RowsPreserve ==
    ASSUME IInv, NEW p \in Procs, InsertRows(p)
    PROVE  IInv'
  <1> DEFINE d == tx[p].arg
             t == Tx("import", "commit", d, tx[p].at + 1, Over(RevisionRow(d), insertPuzzleCatalogRows(d)))
  <1>1. Fits(tx[p]) /\ tx[p].stage = "rows" BY DEF IInv, InsertRows
  <1>2. ImportFits(tx[p]) BY <1>1, Stages
  <1>3. tx[p].writes = RevisionRow(d) /\ tx[p].op = "import" BY <1>1, <1>2 DEF ImportFits
  <1>4. tx' = [tx EXCEPT ![p] = t] /\ UNCHANGED rows BY <1>3 DEF InsertRows, Write, IInv
  <1>5. /\ t.op = "import" /\ t.stage = "commit" /\ t.arg = d
        /\ t.writes = Over(RevisionRow(d), insertPuzzleCatalogRows(d))
    BY TxFields
  <1> HIDE DEF t
  <1>6. ImportFits(t) BY <1>1, <1>2, <1>5 DEF ImportFits
  <1>7. ASSUME NEW q \in Procs \ {p}, tx[q].op = "import", tx[q].stage # "revision"
        PROVE  tx[q].arg.rev # d.rev
    BY <1>1, <1>3, <1>7 DEF IInv, OneImport
  <1> QED BY <1>4, <1>5, <1>6, <1>7, TransactionGoesOn DEF Fits

\* The revision an attachment is for is there, or the attachment ends.
LEMMA ExistsPreserves ==
    ASSUME IInv, NEW p \in Procs, RevisionExists(p)
    PROVE  IInv'
  <1>1. CASE Revision(tx[p].arg.rev) \notin DOMAIN rows
    BY <1>1, TransactionEnds DEF RevisionExists, End
  <1>2. CASE Revision(tx[p].arg.rev) \in DOMAIN rows
    <2> DEFINE t == Tx(tx[p].op, "attach", tx[p].arg, tx[p].at, tx[p].writes)
    <2>1. Fits(tx[p]) /\ tx[p].stage = "exists" BY DEF IInv, RevisionExists
    <2>2. tx' = [tx EXCEPT ![p] = t] /\ UNCHANGED rows BY <1>2 DEF RevisionExists, IInv
    <2>3. /\ t.op = tx[p].op /\ t.stage = "attach" /\ t.arg = tx[p].arg
          /\ t.at = tx[p].at /\ t.writes = tx[p].writes
      BY TxFields
    <2> HIDE DEF t
    <2>4. CASE UploadFits(tx[p])
      <3>1. UploadFits(t) BY <1>2, <2>1, <2>3, <2>4 DEF UploadFits
      <3>2. t.op = "geometry" BY <3>1 DEF UploadFits
      <3> QED BY <2>2, <3>1, <3>2, TransactionGoesOn DEF Fits
    <2>5. CASE ArtFits(tx[p])
      <3>1. ArtFits(t) BY <1>2, <2>3, <2>5 DEF ArtFits
      <3>2. t.op = "art" BY <3>1 DEF ArtFits
      <3> QED BY <2>2, <3>1, <3>2, TransactionGoesOn DEF Fits
    <2> QED BY <2>1, <2>4, <2>5, Stages
  <1> QED BY <1>1, <1>2

\* A block more: its row is the stored one with the upload's shape.
LEMMA BlockPreserves ==
    ASSUME Configured, IInv, NEW p \in Procs, UpdateBlock(p)
    PROVE  IInv'
  <1> DEFINE g == tx[p].arg
             n == tx[p].at
             k == BlockKey(g, n)
  <1>1. CASE k \notin DOMAIN rows
    BY <1>1, TransactionEnds DEF UpdateBlock, End
  <1>2. CASE k \in DOMAIN rows
    <2> DEFINE w == tx[p].writes
               row == BlockRow(rows[k].wave, g.blocks[n].shape)
               stage == IF n = Len(g.blocks) THEN "commit" ELSE "attach"
               t == Tx("geometry", stage, g, n + 1, Over(w, OneRow(k, row)))
    <2>1. Fits(tx[p]) /\ tx[p].stage = "attach" /\ tx[p].op = "geometry" BY DEF IInv, UpdateBlock
    <2>2. UploadFits(tx[p]) BY <2>1, Stages
    <2>3. tx' = [tx EXCEPT ![p] = t] /\ UNCHANGED rows
      BY <1>2, <2>1 DEF UpdateBlock, Write, After, IInv
    <2>4. t.op = "geometry" /\ t.stage = stage /\ t.arg = g /\ t.at = n + 1 /\ t.writes = Over(w, OneRow(k, row))
      BY TxFields
    <2>5. g \in Geometries /\ ValidGeometry(g) /\ Revision(g.rev) \in DOMAIN rows
      BY <2>1, <2>2 DEF UploadFits
    <2>6. Len(g.blocks) \in Nat /\ DOMAIN g.blocks = 1..Len(g.blocks)
      BY <2>5, LenProperties DEF Configured
    <2>7. n \in 1..(Len(g.blocks) + 1) /\ n # Len(g.blocks) + 1 BY <2>1, <2>2 DEF UploadFits
    <2>8. n \in 1..Len(g.blocks) BY <2>6, <2>7
    <2>9. /\ n + 1 \in 1..(Len(g.blocks) + 1) /\ n + 1 - 1 = n
          /\ n + 1 = Len(g.blocks) + 1 <=> n = Len(g.blocks)
          /\ 1..n = 1..(n - 1) \cup {n}
      BY <2>6, <2>8
    <2>10. /\ DOMAIN w = {BlockKey(g, i) : i \in 1..(n - 1)}
           /\ \A i \in 1..(n - 1) : /\ BlockKey(g, i) \in DOMAIN rows
                                    /\ w[BlockKey(g, i)] = BlockRow(rows[BlockKey(g, i)].wave, g.blocks[i].shape)
      BY <2>2 DEF UploadFits
    <2>11. \A i \in 1..(n - 1) : i \in DOMAIN g.blocks /\ i # n BY <2>6, <2>8
    <2>12. \A i \in 1..(n - 1) : BlockKey(g, i) # k
      <3>1. \A i, j \in DOMAIN g.blocks : BlockKey(g, i) = BlockKey(g, j) => i = j
        BY <2>5 DEF ValidGeometry, IsInjective
      <3> QED BY <2>6, <2>8, <2>11, <3>1
    <2> DEFINE one == OneRow(k, row)
               x == Over(w, one)
    <2>13. DOMAIN x = DOMAIN w \cup {k} /\ x[k] = row /\ (\A l \in DOMAIN w : l # k => x[l] = w[l])
      <3>1. DOMAIN one = {k} /\ one[k] = row BY RowFields
      <3> HIDE DEF one, w, k, row
      <3>2. /\ DOMAIN x = DOMAIN w \cup DOMAIN one
            /\ \A l \in DOMAIN one : x[l] = one[l]
            /\ \A l \in DOMAIN w : l \notin DOMAIN one => x[l] = w[l]
        BY OverFacts
      <3> HIDE DEF x
      <3> QED BY <3>1, <3>2
    <2> HIDE DEF x
    <2>14. DOMAIN x = {BlockKey(g, i) : i \in 1..n} BY <2>9, <2>10, <2>13
    <2>15. \A i \in 1..n : /\ BlockKey(g, i) \in DOMAIN rows
                           /\ x[BlockKey(g, i)] = BlockRow(rows[BlockKey(g, i)].wave, g.blocks[i].shape)
      <3>1. \A i \in 1..(n - 1) : x[BlockKey(g, i)] = w[BlockKey(g, i)] BY <2>10, <2>12, <2>13
      <3> QED BY <1>2, <2>9, <2>10, <2>13, <3>1
    <2>16. t.stage \in {"attach", "commit"} /\ (t.stage = "commit" <=> n + 1 = Len(g.blocks) + 1)
      BY <2>4, <2>9
    <2>17. t.writes = x /\ t.at = n + 1 /\ t.arg = g /\ t.op = "geometry" BY <2>4 DEF x
    <2> HIDE DEF t, stage, row, w, k
    <2>18. UploadFits(t)
      <3> HIDE DEF g, n
      <3>1. t.at - 1 = n BY <2>9, <2>17
      <3>2. DOMAIN t.writes = {BlockKey(t.arg, i) : i \in 1..(t.at - 1)} BY <2>14, <2>17, <3>1
      <3>3. \A i \in 1..(t.at - 1) :
               /\ BlockKey(t.arg, i) \in DOMAIN rows
               /\ t.writes[BlockKey(t.arg, i)] = BlockRow(rows[BlockKey(t.arg, i)].wave, t.arg.blocks[i].shape)
        BY <2>15, <2>17, <3>1
      <3>4. t.at \in 1..(Len(t.arg.blocks) + 1) /\ (t.stage = "commit" <=> t.at = Len(t.arg.blocks) + 1)
        BY <2>9, <2>16, <2>17
      <3>5. /\ t.op = "geometry" /\ t.arg \in Geometries /\ ValidGeometry(t.arg)
            /\ t.stage \in {"exists", "attach", "commit"} /\ Revision(t.arg.rev) \in DOMAIN rows
        BY <2>5, <2>16, <2>17
      <3> QED BY <3>2, <3>3, <3>4, <3>5 DEF UploadFits
    <2> QED BY <2>3, <2>17, <2>18, TransactionGoesOn DEF Fits
  <1> QED BY <1>1, <1>2

\* A house's art more.
LEMMA ArtPreserves ==
    ASSUME IInv, NEW p \in Procs, UpsertArt(p)
    PROVE  IInv'
  <1> DEFINE a == tx[p].arg
             h == a.houses[tx[p].at]
             k == Key("art", a.rev, h.city, h.house, 0)
  <1>1. CASE ~h.valid
    BY <1>1, TransactionEnds DEF UpsertArt, End
  <1>2. CASE h.valid
    <2> DEFINE stage == IF tx[p].at = Len(a.houses) THEN "commit" ELSE "attach"
               t == Tx("art", stage, a, tx[p].at + 1, Over(tx[p].writes, OneRow(k, [image |-> h.image])))
    <2>1. Fits(tx[p]) /\ tx[p].stage = "attach" /\ tx[p].op = "art" BY DEF IInv, UpsertArt
    <2>2. ArtFits(tx[p]) BY <2>1, Stages
    <2>3. tx' = [tx EXCEPT ![p] = t] /\ UNCHANGED rows
      BY <1>2, <2>1 DEF UpsertArt, Write, After, IInv
    <2>4. t.op = "art" /\ t.stage = stage /\ t.arg = a /\ DOMAIN t.writes = DOMAIN tx[p].writes \cup {k}
      <3> DEFINE one == OneRow(k, [image |-> h.image])
      <3>1. t.op = "art" /\ t.stage = stage /\ t.arg = a /\ t.writes = Over(tx[p].writes, one) BY TxFields
      <3>2. DOMAIN one = {k} BY RowFields
      <3> HIDE DEF one, t, stage, k
      <3>3. DOMAIN Over(tx[p].writes, one) = DOMAIN tx[p].writes \cup DOMAIN one BY OverFacts
      <3> QED BY <3>1, <3>2, <3>3
    <2>5. stage \in {"commit", "attach"} OBVIOUS
    <2>6. k.table = "art" /\ k.rev = a.rev BY KeyFields
    <2> HIDE DEF t, stage, k
    <2>7. ArtFits(t) BY <2>1, <2>2, <2>4, <2>5, <2>6 DEF ArtFits
    <2> QED BY <2>3, <2>4, <2>7, TransactionGoesOn DEF Fits
  <1> QED BY <1>1, <1>2

-----------------------------------------------------------------------------
(* Commits.                                                                  *)

\* The transactions of others still fit, if no row goes and no wave changes.
LEMMA OthersFit ==
    ASSUME IInv, NEW p \in Procs, tx' = [tx EXCEPT ![p] = Closed],
           DOMAIN rows \subseteq DOMAIN rows',
           \A k \in DOMAIN rows : k.table = "block" => rows'[k].wave = rows[k].wave,
           \A q \in Procs \ {p} : ImportFits(tx[q]) /\ tx[q].stage # "revision"
                                  => Revision(tx[q].arg.rev) \notin DOMAIN rows'
    PROVE  tx' = [q \in Procs |-> tx'[q]] /\ (\A q \in Procs : Fits(tx[q])') /\ OneImport'
  <1>1. tx' = [q \in Procs |-> IF q = p THEN Closed ELSE tx[q]] BY DEF IInv
  <1>2. tx'[p] = Closed /\ (\A q \in Procs : q # p => tx'[q] = tx[q]) /\ tx' = [q \in Procs |-> tx'[q]] BY <1>1
  <1>3. ASSUME NEW q \in Procs PROVE Fits(tx[q])'
    <2>1. CASE q = p BY <1>2, <2>1 DEF Fits
    <2>2. CASE q # p
      <3>1. Fits(tx[q]) /\ tx'[q] = tx[q] BY <1>2, <2>2 DEF IInv
      <3>2. CASE tx[q] = Closed BY <3>1, <3>2 DEF Fits
      <3>3. CASE ImportFits(tx[q])
        <4>1. tx[q].stage # "revision" => Revision(tx[q].arg.rev) \notin DOMAIN rows' BY <2>2, <3>3
        <4> QED BY <3>1, <3>3, <4>1 DEF Fits, ImportFits
      <3>4. CASE UploadFits(tx[q])
        <4> DEFINE t == tx[q]
        <4>1. \A i \in 1..(t.at - 1) :
                 /\ BlockKey(t.arg, i) \in DOMAIN rows'
                 /\ t.writes[BlockKey(t.arg, i)] =
                       BlockRow(rows'[BlockKey(t.arg, i)].wave, t.arg.blocks[i].shape)
          BY <3>4, KeyFields DEF UploadFits
        <4>2. t.stage # "exists" => Revision(t.arg.rev) \in DOMAIN rows' BY <3>4 DEF UploadFits
        <4>3. UploadFits(tx[q])' BY <3>1, <3>4, <4>1, <4>2 DEF UploadFits
        <4> QED BY <4>3 DEF Fits
      <3>5. CASE ArtFits(tx[q])
        <4>1. ArtFits(tx[q])' BY <3>1, <3>5 DEF ArtFits
        <4> QED BY <4>1 DEF Fits
      <3> QED BY <3>1, <3>2, <3>3, <3>4, <3>5 DEF Fits
    <2> QED BY <2>1, <2>2
  <1>4. OneImport'
    <2>1. Closed.op = "none" BY TxFields DEF Closed
    <2> QED BY <1>2, <2>1 DEF IInv, OneImport
  <1> QED BY <1>2, <1>3, <1>4

\* Rows that two shapes of one upload are attached to belong to one revision.
LEMMA DescribedTogether ==
    ASSUME ShapesUploaded, NEW k, NEW l, k \in Of("block"), rows[k].shape # NoShape,
           \A g \in Geometries : g.rev = k.rev /\ ValidGeometry(g) => DescribesBoth(g, k, l)
    PROVE  l.rev = k.rev
  <1>1. PICK g \in Geometries : ValidGeometry(g) /\ g.rev = k.rev BY DEF ShapesUploaded
  <1>2. ShapesIn(g, l) # {} BY <1>1 DEF DescribesBoth
  <1>3. PICK i \in DOMAIN g.blocks : BlockKey(g, i) = l BY <1>2 DEF ShapesIn
  <1> QED BY <1>1, <1>3, KeyFields

\* A revision's rows appear together, all of them new.
LEMMA CommitImport ==
    ASSUME IInv, NEW p \in Procs, Commit(p), ImportFits(tx[p])
    PROVE  IInv' /\ KeepsRevisions
  <1> DEFINE d == tx[p].arg
             N == insertPuzzleCatalogRows(d)
             r == Revision(d.rev)
             w == tx[p].writes
  <1>1. /\ tx[p].stage = "commit" /\ rows' = Over(rows, w) /\ tx' = [tx EXCEPT ![p] = Closed]
    BY DEF Commit, End
  <1>2. d \in Docs /\ ValidCatalog(d) /\ r \notin DOMAIN rows /\ w = Over(RevisionRow(d), N)
    BY <1>1 DEF ImportFits
  <1>3. DocRows(d, N) BY DocRowsOf
  <1>4. r.table = "revision" /\ r.rev = d.rev BY KeyFields
  <1>5. r \notin DOMAIN N BY <1>3, <1>4 DEF DocRows
  <1>6. DOMAIN w = {r} \cup DOMAIN N /\ w[r].doc = d /\ \A k \in DOMAIN N : w[k] = N[k]
    <2> DEFINE R == RevisionRow(d)
    <2>1. DOMAIN R = {r} /\ R[r].doc = d BY RowFields
    <2> HIDE DEF R, N, d, r, w
    <2>2. w = Over(R, N) BY <1>2 DEF R
    <2>3. /\ DOMAIN Over(R, N) = DOMAIN R \cup DOMAIN N
          /\ \A k \in DOMAIN N : Over(R, N)[k] = N[k]
          /\ \A k \in DOMAIN R : k \notin DOMAIN N => Over(R, N)[k] = R[k]
      BY OverFacts
    <2> QED BY <1>5, <2>1, <2>2, <2>3
  <1>7. /\ RevisionsWhole /\ ShapesUploaded /\ ShapesOfOneUpload BY DEF IInv
  <1>8. \A k \in DOMAIN rows : k.rev # d.rev /\ Revision(k.rev) \in DOMAIN rows
    BY <1>2, <1>7 DEF RevisionsWhole
  <1> HIDE DEF w
  <1>9. \A k \in DOMAIN w : k.rev = d.rev BY <1>3, <1>4, <1>6 DEF DocRows
  <1>10. /\ DOMAIN rows' = DOMAIN rows \cup {r} \cup DOMAIN N
         /\ \A k \in DOMAIN rows : rows'[k] = rows[k]
         /\ rows'[r].doc = d
         /\ \A k \in DOMAIN N : rows'[k] = N[k]
    <2>1. /\ DOMAIN Over(rows, w) = DOMAIN rows \cup DOMAIN w
          /\ \A k \in DOMAIN w : Over(rows, w)[k] = w[k]
          /\ \A k \in DOMAIN rows : k \notin DOMAIN w => Over(rows, w)[k] = rows[k]
      BY OverFacts
    <2> HIDE DEF r, N, d
    <2> QED BY <1>1, <1>6, <1>8, <1>9, <2>1
  <1>11. RevisionsWhole'
    <2>1. ASSUME NEW k \in DOMAIN rows'
          PROVE  /\ k.table \in {"revision", "block", "target", "rule", "art"}
                 /\ Revision(k.rev) \in DOMAIN rows'
                 /\ k.table \in {"block", "target", "rule"} =>
                       LET whole == insertPuzzleCatalogRows(rows'[Revision(k.rev)].doc)
                       IN  k \in DOMAIN whole /\ Semantics(k, rows'[k]) = Semantics(k, whole[k])
      <3>1. CASE k \in DOMAIN rows
        <4>1. Revision(k.rev) \in DOMAIN rows /\ rows'[k] = rows[k] /\ rows'[Revision(k.rev)] = rows[Revision(k.rev)]
          BY <1>8, <1>10, <3>1
        <4> QED BY <1>7, <1>10, <3>1, <4>1 DEF RevisionsWhole
      <3>2. CASE k = r BY <1>4, <1>10, <3>2
      <3>3. CASE k \in DOMAIN N
        <4>1. k.rev = d.rev /\ k.table \in {"block", "target", "rule"} BY <1>3, <3>3 DEF DocRows
        <4>2. rows'[Revision(k.rev)].doc = d /\ Revision(k.rev) = r BY <1>10, <4>1
        <4>3. rows'[k] = N[k] BY <1>10, <3>3
        <4> QED BY <1>10, <3>3, <4>1, <4>2, <4>3
      <3> QED BY <1>10, <3>1, <3>2, <3>3
    <2>2. ASSUME NEW k \in DOMAIN rows', k.table = "revision"
          PROVE  LET e == rows'[k].doc
                 IN  /\ k = Revision(e.rev) /\ e \in Docs /\ ValidCatalog(e)
                     /\ DOMAIN insertPuzzleCatalogRows(e) \subseteq DOMAIN rows'
      <3>1. CASE k \in DOMAIN rows
        <4>1. k \in Of("revision") /\ rows'[k] = rows[k] BY <1>10, <2>2, <3>1 DEF Of
        <4> QED BY <1>7, <1>10, <4>1 DEF RevisionsWhole
      <3>2. CASE k = r BY <1>2, <1>10, <3>2
      <3>3. CASE k \in DOMAIN N BY <1>3, <2>2, <3>3 DEF DocRows
      <3> QED BY <1>10, <3>1, <3>2, <3>3
    <2> HIDE DEF r, N, d
    <2> QED BY <2>1, <2>2 DEF RevisionsWhole, Of
  <1>12. ASSUME NEW k \in DOMAIN rows', k.table = "block", rows'[k].shape # NoShape
         PROVE  k \in Of("block") /\ rows'[k] = rows[k] /\ rows[k].shape # NoShape
    <2>1. k \notin DOMAIN N
      <3>1. ASSUME k \in DOMAIN N PROVE FALSE
        <4>1. rows'[k] = BlockRow(N[k].wave, NoShape) BY <1>3, <1>10, <1>12, <3>1 DEF DocRows
        <4>2. rows'[k].shape = NoShape BY <4>1, RowFields
        <4> QED BY <4>2, <1>12
      <3> QED BY <3>1
    <2> QED BY <1>4, <1>10, <1>12, <2>1 DEF Of
  <1>13. ShapesUploaded' BY <1>7, <1>12 DEF ShapesUploaded, Of
  <1>14. ShapesOfOneUpload'
    <2>1. SUFFICES ASSUME NEW k \in DOMAIN rows', NEW l \in DOMAIN rows',
                          k.table = "block", l.table = "block", rows'[k].shape # NoShape,
                          \A g \in Geometries : g.rev = k.rev /\ ValidGeometry(g) => DescribesBoth(g, k, l)
                   PROVE  \E g \in Geometries : /\ DescribesBoth(g, k, l) /\ rows'[k].shape \in ShapesIn(g, k)
                                                /\ rows'[l].shape \in ShapesIn(g, l)
      BY DEF ShapesOfOneUpload, Of
    <2>2. k \in Of("block") /\ rows'[k] = rows[k] /\ rows[k].shape # NoShape BY <1>12, <2>1
    <2>3. l.rev = k.rev BY <1>7, <2>1, <2>2, DescribedTogether
    <2>4. l.rev # d.rev BY <1>8, <2>2, <2>3 DEF Of
    <2>5. l \in DOMAIN rows BY <1>3, <1>4, <1>10, <2>4 DEF DocRows
    <2>6. l \in Of("block") /\ rows'[l] = rows[l] BY <1>10, <2>1, <2>5 DEF Of
    <2> QED BY <1>7, <2>1, <2>2, <2>6 DEF ShapesOfOneUpload
  <1>15. tx' = [q \in Procs |-> tx'[q]] /\ (\A q \in Procs : Fits(tx[q])') /\ OneImport'
    <2>1. ASSUME NEW q \in Procs \ {p}, ImportFits(tx[q]), tx[q].stage # "revision"
          PROVE  Revision(tx[q].arg.rev) \notin DOMAIN rows'
      <3> DEFINE e == tx[q].arg
      <3>1. Revision(e.rev) \notin DOMAIN rows /\ tx[q].op = "import" BY <2>1 DEF ImportFits
      <3>2. e.rev # d.rev
        <4>1. tx[p].op = "import" /\ tx[p].stage # "revision" BY <1>1 DEF ImportFits
        <4> QED BY <2>1, <3>1, <4>1 DEF IInv, OneImport
      <3>3. Revision(e.rev).rev = e.rev BY KeyFields
      <3> QED BY <1>3, <1>4, <1>10, <3>1, <3>2, <3>3 DEF DocRows
    <2>2. \A k \in DOMAIN rows : rows'[k].wave = rows[k].wave BY <1>10
    <2>3. DOMAIN rows \subseteq DOMAIN rows' BY <1>10
    <2> QED BY <1>1, <2>1, <2>2, <2>3, OthersFit
  <1>16. KeepsRevisions BY <1>10 DEF KeepsRevisions
  <1> QED BY <1>11, <1>13, <1>14, <1>15, <1>16 DEF IInv

\* Rows that keep their meaning keep a revision whole.
LEMMA MeaningStays ==
    ASSUME RevisionsWhole, DOMAIN rows \subseteq DOMAIN rows',
           \A k \in DOMAIN rows : k.table # "art" => Semantics(k, rows'[k]) = Semantics(k, rows[k]),
           \A k \in DOMAIN rows' : k \notin DOMAIN rows =>
              k.table = "art" /\ Revision(k.rev) \in DOMAIN rows
    PROVE  RevisionsWhole'
  <1>1. \A k \in DOMAIN rows : k.table = "revision" => rows'[k] = rows[k]
    BY DEF Semantics
  <1>2. \A k \in DOMAIN rows : Revision(k.rev) \in DOMAIN rows /\ rows'[Revision(k.rev)] = rows[Revision(k.rev)]
    BY <1>1, KeyFields DEF RevisionsWhole
  <1>3. ASSUME NEW k \in DOMAIN rows'
        PROVE  /\ k.table \in {"revision", "block", "target", "rule", "art"}
               /\ Revision(k.rev) \in DOMAIN rows'
               /\ k.table \in {"block", "target", "rule"} =>
                     LET whole == insertPuzzleCatalogRows(rows'[Revision(k.rev)].doc)
                     IN  k \in DOMAIN whole /\ Semantics(k, rows'[k]) = Semantics(k, whole[k])
    <2>1. CASE k \notin DOMAIN rows BY <2>1
    <2>2. CASE k \in DOMAIN rows BY <1>2, <2>2 DEF RevisionsWhole
    <2> QED BY <2>1, <2>2
  <1>4. ASSUME NEW k \in DOMAIN rows', k.table = "revision"
        PROVE  LET e == rows'[k].doc
               IN  /\ k = Revision(e.rev) /\ e \in Docs /\ ValidCatalog(e)
                   /\ DOMAIN insertPuzzleCatalogRows(e) \subseteq DOMAIN rows'
    <2>1. k \in Of("revision") /\ rows'[k] = rows[k] BY <1>1, <1>4 DEF Of
    <2> QED BY <2>1 DEF RevisionsWhole
  <1> QED BY <1>3, <1>4 DEF RevisionsWhole, Of

\* An upload changes the shapes of all its blocks at once.
LEMMA CommitUpload ==
    ASSUME Configured, IInv, NEW p \in Procs, Commit(p), UploadFits(tx[p])
    PROVE  IInv' /\ KeepsRevisions
  <1> DEFINE g == tx[p].arg
             w == tx[p].writes
  <1>1. /\ tx[p].stage = "commit" /\ rows' = Over(rows, w) /\ tx' = [tx EXCEPT ![p] = Closed]
    BY DEF Commit, End
  <1>2. /\ g \in Geometries /\ ValidGeometry(g)
        /\ tx[p].at = Len(g.blocks) + 1
    BY <1>1 DEF UploadFits
  <1>3. Len(g.blocks) \in Nat /\ DOMAIN g.blocks = 1..Len(g.blocks)
    BY <1>2, LenProperties DEF Configured
  <1>4. 1..(tx[p].at - 1) = DOMAIN g.blocks BY <1>2, <1>3
  <1>5. /\ DOMAIN w = {BlockKey(g, i) : i \in DOMAIN g.blocks}
        /\ \A i \in DOMAIN g.blocks :
              /\ BlockKey(g, i) \in DOMAIN rows
              /\ w[BlockKey(g, i)] = BlockRow(rows[BlockKey(g, i)].wave, g.blocks[i].shape)
    BY <1>4 DEF UploadFits
  <1> HIDE DEF w
  <1>6. /\ DOMAIN rows' = DOMAIN rows \cup DOMAIN w
        /\ \A k \in DOMAIN w : rows'[k] = w[k]
        /\ \A k \in DOMAIN rows : k \notin DOMAIN w => rows'[k] = rows[k]
    <2>1. /\ DOMAIN Over(rows, w) = DOMAIN rows \cup DOMAIN w
          /\ \A k \in DOMAIN w : Over(rows, w)[k] = w[k]
          /\ \A k \in DOMAIN rows : k \notin DOMAIN w => Over(rows, w)[k] = rows[k]
      BY OverFacts
    <2> QED BY <1>1, <2>1
  <1> HIDE DEF g
  <1>7. DOMAIN rows' = DOMAIN rows BY <1>5, <1>6
  <1>8. ASSUME NEW k \in DOMAIN w
        PROVE  /\ k.table = "block" /\ k.rev = g.rev
               /\ rows'[k].wave = rows[k].wave /\ rows'[k].shape # NoShape /\ rows'[k].shape \in ShapesIn(g, k)
    <2>1. PICK i \in DOMAIN g.blocks : k = BlockKey(g, i) BY <1>5
    <2>2. rows'[k] = BlockRow(rows[k].wave, g.blocks[i].shape) BY <1>5, <1>6, <2>1
    <2>3. rows'[k].wave = rows[k].wave /\ rows'[k].shape = g.blocks[i].shape BY <2>2, RowFields
    <2>4. g.blocks[i].shape # NoShape BY <1>2, UploadsHaveShapes
    <2>5. g.blocks[i].shape \in ShapesIn(g, k) BY <2>1 DEF ShapesIn
    <2> QED BY <2>1, <2>3, <2>4, <2>5, KeyFields
  <1>9. ASSUME NEW k, ShapesIn(g, k) # {} PROVE k \in DOMAIN w BY <1>5, <1>9 DEF ShapesIn
  <1>10. \A k \in DOMAIN rows : Semantics(k, rows'[k]) = Semantics(k, rows[k])
    BY <1>6, <1>8 DEF Semantics
  <1>11. RevisionsWhole /\ ShapesUploaded /\ ShapesOfOneUpload BY DEF IInv
  <1>12. RevisionsWhole' BY <1>7, <1>10, <1>11, MeaningStays
  <1>13. ShapesUploaded'
    <2>1. SUFFICES ASSUME NEW k \in DOMAIN rows', k.table = "block", rows'[k].shape # NoShape
                   PROVE  \E f \in Geometries : ValidGeometry(f) /\ f.rev = k.rev
      BY DEF ShapesUploaded, Of
    <2>2. CASE k \in DOMAIN w BY <1>2, <1>8, <2>2
    <2>3. CASE k \notin DOMAIN w
      <3>1. k \in Of("block") /\ rows[k].shape # NoShape BY <1>6, <1>7, <2>1, <2>3 DEF Of
      <3> QED BY <1>11, <3>1 DEF ShapesUploaded
    <2> QED BY <2>2, <2>3
  <1>14. ShapesOfOneUpload'
    <2>1. SUFFICES ASSUME NEW k \in DOMAIN rows', NEW l \in DOMAIN rows',
                          k.table = "block", l.table = "block", rows'[k].shape # NoShape,
                          \A f \in Geometries : f.rev = k.rev /\ ValidGeometry(f) => DescribesBoth(f, k, l)
                   PROVE  \E f \in Geometries : /\ DescribesBoth(f, k, l) /\ rows'[k].shape \in ShapesIn(f, k)
                                                /\ rows'[l].shape \in ShapesIn(f, l)
      BY DEF ShapesOfOneUpload, Of
    <2>2. CASE g.rev = k.rev
      <3>1. DescribesBoth(g, k, l) BY <1>2, <2>1, <2>2
      <3>2. k \in DOMAIN w /\ l \in DOMAIN w BY <1>9, <3>1 DEF DescribesBoth
      <3> QED BY <1>2, <1>8, <3>1, <3>2
    <2>3. CASE g.rev # k.rev
      <3>1. k \notin DOMAIN w BY <1>8, <2>3
      <3>2. k \in Of("block") /\ rows'[k] = rows[k] BY <1>6, <1>7, <2>1, <3>1 DEF Of
      <3>3. l.rev = k.rev BY <1>11, <2>1, <3>2, DescribedTogether
      <3>4. l \notin DOMAIN w BY <1>8, <2>3, <3>3
      <3>5. l \in Of("block") /\ rows'[l] = rows[l] BY <1>6, <1>7, <2>1, <3>4 DEF Of
      <3> QED BY <1>11, <2>1, <3>2, <3>5 DEF ShapesOfOneUpload
    <2> QED BY <2>2, <2>3
  <1>15. tx' = [q \in Procs |-> tx'[q]] /\ (\A q \in Procs : Fits(tx[q])') /\ OneImport'
    <2>1. \A k \in DOMAIN rows : rows'[k].wave = rows[k].wave BY <1>6, <1>8
    <2>2. \A q \in Procs \ {p} : ImportFits(tx[q]) /\ tx[q].stage # "revision"
                                 => Revision(tx[q].arg.rev) \notin DOMAIN rows'
      BY <1>7 DEF ImportFits
    <2> QED BY <1>1, <1>7, <2>1, <2>2, OthersFit
  <1>16. KeepsRevisions BY <1>6, <1>7, <1>8, <1>10 DEF KeepsRevisions
  <1> QED BY <1>12, <1>13, <1>14, <1>15, <1>16 DEF IInv

\* Art is beside what a revision says.
LEMMA CommitArt ==
    ASSUME IInv, NEW p \in Procs, Commit(p), ArtFits(tx[p])
    PROVE  IInv' /\ KeepsRevisions
  <1> DEFINE a == tx[p].arg
             w == tx[p].writes
  <1>1. /\ tx[p].stage = "commit" /\ rows' = Over(rows, w) /\ tx' = [tx EXCEPT ![p] = Closed]
    BY DEF Commit, End
  <1>2. Revision(a.rev) \in DOMAIN rows /\ \A k \in DOMAIN w : k.table = "art" /\ k.rev = a.rev
    BY <1>1 DEF ArtFits
  <1> HIDE DEF w, a
  <1>3. /\ DOMAIN rows' = DOMAIN rows \cup DOMAIN w
        /\ \A k \in DOMAIN rows : k \notin DOMAIN w => rows'[k] = rows[k]
    BY <1>1, OverFacts
  <1>4. \A k \in DOMAIN rows : k.table # "art" => rows'[k] = rows[k] BY <1>2, <1>3
  <1>5. \A k \in DOMAIN rows' : k \notin DOMAIN rows =>
           k.table = "art" /\ Revision(k.rev) \in DOMAIN rows
    BY <1>2, <1>3
  <1>6. RevisionsWhole /\ ShapesUploaded /\ ShapesOfOneUpload BY DEF IInv
  <1>7. RevisionsWhole' BY <1>3, <1>4, <1>5, <1>6, MeaningStays
  <1>8. \A k \in DOMAIN rows' : k.table = "block" => k \in Of("block") /\ rows'[k] = rows[k]
    BY <1>4, <1>5 DEF Of
  <1>9. ShapesUploaded' BY <1>6, <1>8 DEF ShapesUploaded, Of
  <1>10. ShapesOfOneUpload' BY <1>6, <1>8 DEF ShapesOfOneUpload, Of
  <1>11. tx' = [q \in Procs |-> tx'[q]] /\ (\A q \in Procs : Fits(tx[q])') /\ OneImport'
    <2>1. ASSUME NEW q \in Procs \ {p}, ImportFits(tx[q]), tx[q].stage # "revision"
          PROVE  Revision(tx[q].arg.rev) \notin DOMAIN rows'
      <3>1. Revision(tx[q].arg.rev).table = "revision" BY KeyFields
      <3> QED BY <1>5, <2>1, <3>1 DEF ImportFits
    <2>2. \A k \in DOMAIN rows : k.table = "block" => rows'[k].wave = rows[k].wave BY <1>4
    <2>3. DOMAIN rows \subseteq DOMAIN rows' BY <1>3
    <2> QED BY <1>1, <2>1, <2>2, <2>3, OthersFit
  <1>12. KeepsRevisions BY <1>3, <1>4 DEF KeepsRevisions
  <1> QED BY <1>7, <1>9, <1>10, <1>11, <1>12 DEF IInv

\* A commit is of one of the three.
LEMMA CommitPreserves ==
    ASSUME Configured, IInv, NEW p \in Procs, Commit(p)
    PROVE  IInv' /\ KeepsRevisions
  <1>1. Fits(tx[p]) /\ tx[p].stage = "commit" BY DEF IInv, Commit
  <1> QED BY <1>1, Stages, CommitImport, CommitUpload, CommitArt

\* Where no row changes, none is rewritten.
LEMMA UnchangedRowsKeep ==
    ASSUME UNCHANGED rows
    PROVE  KeepsRevisions
  BY DEF KeepsRevisions

\* Every step keeps the invariant and what was imported: one case per action.
LEMMA CatalogPreserves ==
    ASSUME Configured, IInv, [Next]_vars
    PROVE  IInv' /\ KeepsRevisions
  <1>1. CASE UNCHANGED vars
    <2>1. rows' = rows /\ tx' = tx BY <1>1 DEF vars
    <2>2. IInv'
      BY <2>1 DEF IInv, RevisionsWhole, ShapesUploaded, ShapesOfOneUpload, Of, Fits, ImportFits, UploadFits,
                  ArtFits, OneImport
    <2> QED BY <2>1, <2>2, UnchangedRowsKeep
  <1>2. ASSUME NEW p \in Procs,
               \/ \E d \in Docs : ImportPuzzleCatalog(p, d)
               \/ \E g \in Geometries : ApplyPuzzleGeometry(p, g)
               \/ \E a \in Arts : ImportPuzzleHouseArt(p, a)
        PROVE  IInv' /\ KeepsRevisions
    <2>1. UNCHANGED rows BY <1>2 DEF ImportPuzzleCatalog, ApplyPuzzleGeometry, ImportPuzzleHouseArt, Open, End
    <2> QED BY <1>2, <2>1, OpenPreserves, UnchangedRowsKeep
  <1>3. ASSUME NEW p \in Procs, Step(p) PROVE IInv' /\ KeepsRevisions
    <2>1. CASE insertPuzzleRevision(p)
      <3>1. UNCHANGED rows BY <2>1 DEF insertPuzzleRevision, Write, End
      <3> QED BY <2>1, <3>1, RevisionPreserves, UnchangedRowsKeep
    <2>2. CASE InsertRows(p)
      <3>1. UNCHANGED rows BY <2>2 DEF InsertRows, Write
      <3> QED BY <2>2, <3>1, RowsPreserve, UnchangedRowsKeep
    <2>3. CASE RevisionExists(p)
      <3>1. UNCHANGED rows BY <2>3 DEF RevisionExists, End
      <3> QED BY <2>3, <3>1, ExistsPreserves, UnchangedRowsKeep
    <2>4. CASE UpdateBlock(p)
      <3>1. UNCHANGED rows BY <2>4 DEF UpdateBlock, Write, End
      <3> QED BY <2>4, <3>1, BlockPreserves, UnchangedRowsKeep
    <2>5. CASE UpsertArt(p)
      <3>1. UNCHANGED rows BY <2>5 DEF UpsertArt, Write, End
      <3> QED BY <2>5, <3>1, ArtPreserves, UnchangedRowsKeep
    <2>6. CASE Commit(p) BY <2>6, CommitPreserves
    <2>7. CASE Rollback(p)
      <3>1. UNCHANGED rows /\ tx' = [tx EXCEPT ![p] = Closed] BY <2>7 DEF Rollback, End
      <3> QED BY <3>1, TransactionEnds, UnchangedRowsKeep
    <2> QED BY <1>3, <2>1, <2>2, <2>3, <2>4, <2>5, <2>6, <2>7 DEF Step
  <1> QED BY <1>1, <1>2, <1>3 DEF Next

\* Empty tables satisfy the invariant.
LEMMA CatalogStarts == Init => IInv
  <1> SUFFICES ASSUME Init PROVE IInv OBVIOUS
  <1>1. DOMAIN rows = {} BY RowFields DEF Init
  <1>2. RevisionsWhole /\ ShapesUploaded /\ ShapesOfOneUpload
    BY <1>1 DEF RevisionsWhole, ShapesUploaded, ShapesOfOneUpload, Of
  <1>3. tx = [p \in Procs |-> Closed] BY DEF Init
  <1>4. tx = [p \in Procs |-> tx[p]] /\ \A p \in Procs : tx[p] = Closed BY <1>3
  <1>5. Closed.op = "none" BY TxFields DEF Closed
  <1> QED BY <1>2, <1>4, <1>5 DEF IInv, Fits, OneImport

\* However imports and uploads interleave and wherever each of them fails, stored
\* targets and rules name rows that are stored, and blocks that are described
\* together show shapes of one upload.
THEOREM CatalogStaysWhole == ASSUME Configured PROVE Spec => []CatalogIsWhole
  <1>1. Init => IInv BY CatalogStarts
  <1>2. IInv /\ [Next]_vars => IInv' BY CatalogPreserves
  <1>3. IInv => CatalogIsWhole BY WholeResolves DEF IInv, CatalogIsWhole
  <1> QED BY <1>1, <1>2, <1>3, PTL DEF Spec

\* No step takes back what an imported revision says.
THEOREM RevisionsAreFinal == ASSUME Configured PROVE Spec => RevisionsStay
  <1>1. Init => IInv BY CatalogStarts
  <1>2. IInv /\ [Next]_vars => IInv' BY CatalogPreserves
  <1>3. IInv /\ [Next]_vars => [KeepsRevisions]_rows BY CatalogPreserves
  <1> QED BY <1>1, <1>2, <1>3, PTL DEF Spec, RevisionsStay

-----------------------------------------------------------------------------
(* The event feed.                                                           *)

\* What Feed counts and lists is what this module counts and lists.
LEMMA FeedSets ==
    /\ \A S : Pages!IsFiniteSet(S) <=> IsFiniteSet(S)
    /\ \A S : Pages!Cardinality(S) = Cardinality(S)
    /\ \A s : Pages!Last(s) = Last(s)
  <1>1. ASSUME NEW S PROVE Pages!IsFiniteSet(S) <=> IsFiniteSet(S)
    BY Zenon DEF Pages!IsFiniteSet, IsFiniteSet
  <1>2. ASSUME NEW S PROVE Pages!Cardinality(S) = Cardinality(S)
    BY Zenon DEF Pages!Cardinality, Cardinality
  <1>3. ASSUME NEW s PROVE Pages!Last(s) = Last(s) BY DEF Pages!Last, Last
  <1> QED BY <1>1, <1>2, <1>3

\* Older orders the events.
LEMMA OlderOrders ==
    ASSUME Pages!Configured, NEW e \in Events, NEW d \in Events, NEW x \in Events
    PROVE  /\ ~Pages!Older(e, e)
           /\ Pages!Older(e, d) => ~Pages!Older(d, e)
           /\ Pages!Older(e, d) /\ Pages!Older(d, x) => Pages!Older(e, x)
           /\ e = d \/ Pages!Older(e, d) \/ Pages!Older(d, e)
  <1>1. /\ e \in Int /\ d \in Int /\ x \in Int
        /\ ReceivedAt[e] \in Int /\ ReceivedAt[d] \in Int /\ ReceivedAt[x] \in Int
    BY DEF Pages!Configured
  <1> QED BY <1>1 DEF Pages!Older

\* A newer row has fewer rows above it.
LEMMA RankOrders ==
    ASSUME Pages!Configured, NEW R \in SUBSET Events, IsFiniteSet(R), NEW e \in R, NEW d \in R, Pages!Older(e, d)
    PROVE  Pages!Rank(d, R) < Pages!Rank(e, R)
  <1> DEFINE A == {x \in R : Pages!Older(e, x)}
             B == {x \in R : Pages!Older(d, x)}
  <1>1. IsFiniteSet(A) /\ IsFiniteSet(B) BY FS_Subset
  <1>2. B \subseteq A BY OlderOrders
  <1>3. d \in A /\ d \notin B BY OlderOrders
  <1> HIDE DEF A, B
  <1>4. Cardinality(B) <= Cardinality(A) /\ Cardinality(A) # Cardinality(B)
    BY <1>1, <1>2, <1>3, FS_Subset
  <1>5. Cardinality(A) \in Nat /\ Cardinality(B) \in Nat BY <1>1, FS_CardinalityType
  <1>6. Cardinality(B) < Cardinality(A) BY <1>4, <1>5
  <1> QED BY <1>6, FeedSets DEF Pages!Rank, A, B

\* Ranks are 0, 1, ... without a gap: every place of the order is taken once.
LEMMA RankCounts ==
    ASSUME Pages!Configured, NEW R \in SUBSET Events, IsFiniteSet(R)
    PROVE  /\ Cardinality(R) \in Nat
           /\ \A e \in R : Pages!Rank(e, R) \in 0..(Cardinality(R) - 1)
           /\ \A e, d \in R : Pages!Rank(e, R) = Pages!Rank(d, R) => e = d
           /\ \A i \in 0..(Cardinality(R) - 1) : \E e \in R : Pages!Rank(e, R) = i
  <1> DEFINE n == Cardinality(R)
             f == [e \in R |-> Pages!Rank(e, R)]
  <1>1. n \in Nat BY FS_CardinalityType
  <1>2. ASSUME NEW e \in R PROVE Pages!Rank(e, R) \in 0..(n - 1)
    <2> DEFINE A == {x \in R : Pages!Older(e, x)}
    <2>1. IsFiniteSet(R \ {e}) /\ Cardinality(R \ {e}) = n - 1 BY FS_RemoveElement
    <2>2. A \subseteq R \ {e} BY OlderOrders
    <2> HIDE DEF A
    <2>3. IsFiniteSet(A) /\ Cardinality(A) <= n - 1 BY <2>1, <2>2, FS_Subset
    <2>4. Cardinality(A) \in Nat BY <2>3, FS_CardinalityType
    <2>5. Cardinality(A) \in 0..(n - 1) BY <1>1, <2>3, <2>4
    <2> QED BY <2>5, FeedSets DEF Pages!Rank, A
  <1>3. ASSUME NEW e \in R, NEW d \in R, Pages!Rank(e, R) = Pages!Rank(d, R) PROVE e = d
    <2>1. Pages!Rank(e, R) \in Int /\ Pages!Rank(d, R) \in Int BY <1>2
    <2>2. ~Pages!Older(e, d) BY <1>3, <2>1, RankOrders
    <2>3. ~Pages!Older(d, e) BY <1>3, <2>1, RankOrders
    <2> QED BY <2>2, <2>3, OlderOrders
  <1>4. f \in Injection(R, 0..(n - 1)) BY <1>2, <1>3 DEF Injection, IsInjective
  <1>5. IsFiniteSet(0..(n - 1)) /\ Cardinality(0..(n - 1)) = n
    <2>1. 0 \in Int /\ n - 1 \in Int BY <1>1
    <2>2. /\ IsFiniteSet(0..(n - 1))
          /\ Cardinality(0..(n - 1)) = IF 0 > n - 1 THEN 0 ELSE (n - 1) - 0 + 1
      BY <2>1, FS_Interval
    <2> QED BY <1>1, <2>2
  <1>6. f \in Surjection(R, 0..(n - 1))
    <2> HIDE DEF f
    <2> QED BY <1>4, <1>5, FS_Injection
  <1>7. \A i \in 0..(n - 1) : \E e \in R : f[e] = i BY <1>6 DEF Surjection
  <1> QED BY <1>1, <1>2, <1>3, <1>7

\* The query's page of the rows R: as many of them as fit, the newest first, and
\* none that is left out is newer than one on it.
LEMMA NewestFacts ==
    ASSUME Pages!Configured, NEW R \in SUBSET Events, IsFiniteSet(R)
    PROVE  /\ Pages!Newest(R) \in Seq(R) /\ Len(Pages!Newest(R)) <= PageSize
           /\ \A i, j \in 1..Len(Pages!Newest(R)) : i < j => Pages!Older(Pages!Newest(R)[j], Pages!Newest(R)[i])
           /\ Len(Pages!Newest(R)) # PageSize =>
                 \A e \in R : \E i \in 1..Len(Pages!Newest(R)) : Pages!Newest(R)[i] = e
           /\ Len(Pages!Newest(R)) = PageSize =>
                 \A e \in R : ~Pages!Older(e, Pages!Newest(R)[PageSize])
                               => \E i \in 1..PageSize : Pages!Newest(R)[i] = e
  <1> DEFINE n == Cardinality(R)
             m == IF n < PageSize THEN n ELSE PageSize
             page == Pages!Newest(R)
  <1>1. n \in Nat /\ m \in Nat /\ m <= n /\ m <= PageSize /\ PageSize \in Nat \ {0}
        /\ (m # PageSize => m = n)
    BY RankCounts DEF Pages!Configured
  <1>2. page = [i \in 1..m |-> CHOOSE e \in R : Pages!Rank(e, R) = i - 1]
    BY FeedSets DEF Pages!Newest
  <1>3. ASSUME NEW i \in 1..m PROVE page[i] \in R /\ Pages!Rank(page[i], R) = i - 1
    <2>1. page[i] = CHOOSE e \in R : Pages!Rank(e, R) = i - 1 BY <1>2
    <2>2. i - 1 \in 0..(n - 1) BY <1>1
    <2>3. \E e \in R : Pages!Rank(e, R) = i - 1 BY <2>2, RankCounts
    <2> QED BY <2>1, <2>3
  <1>4. page \in [1..m -> R] BY <1>2, <1>3
  <1> HIDE DEF page, m
  <1>5. page \in Seq(R) BY <1>1, <1>4
  <1>6. Len(page) = m
    <2>1. Len(page) \in Nat /\ DOMAIN page = 1..Len(page) BY <1>5, LenProperties
    <2> QED BY <1>1, <1>4, <2>1
  <1>7. ASSUME NEW i \in 1..m, NEW j \in 1..m, i < j PROVE Pages!Older(page[j], page[i])
    <2>1. page[i] # page[j] /\ page[i] \in R /\ page[j] \in R BY <1>1, <1>3, <1>7
    <2>2. ~Pages!Older(page[i], page[j])
      <3>1. SUFFICES ASSUME Pages!Older(page[i], page[j]) PROVE FALSE OBVIOUS
      <3>2. Pages!Rank(page[j], R) < Pages!Rank(page[i], R) BY <2>1, <3>1, RankOrders
      <3> QED BY <1>1, <1>3, <1>7, <3>2
    <2> QED BY <2>1, <2>2, OlderOrders
  <1>8. ASSUME NEW e \in R, Pages!Rank(e, R) < m PROVE \E i \in 1..m : page[i] = e
    <2>1. Pages!Rank(e, R) \in 0..(n - 1) BY RankCounts
    <2>2. Pages!Rank(e, R) + 1 \in 1..m BY <1>1, <1>8, <2>1
    <2>3. page[Pages!Rank(e, R) + 1] \in R /\ Pages!Rank(page[Pages!Rank(e, R) + 1], R) = Pages!Rank(e, R)
      BY <1>3, <2>1, <2>2
    <2> QED BY <2>2, <2>3, RankCounts
  <1>9. ASSUME m # PageSize, NEW e \in R PROVE \E i \in 1..m : page[i] = e
    <2>1. Pages!Rank(e, R) \in 0..(n - 1) BY RankCounts
    <2>2. Pages!Rank(e, R) < m BY <1>1, <1>9, <2>1
    <2> QED BY <1>8, <2>2
  <1>10. ASSUME m = PageSize, NEW e \in R, ~Pages!Older(e, page[PageSize]) PROVE \E i \in 1..m : page[i] = e
    <2>1. PageSize \in 1..m BY <1>1, <1>10
    <2>2. page[PageSize] \in R /\ Pages!Rank(page[PageSize], R) = PageSize - 1 BY <1>3, <2>1
    <2>3. Pages!Rank(e, R) \in 0..(n - 1) BY RankCounts
    <2>4. e = page[PageSize] \/ Pages!Older(page[PageSize], e) BY <1>10, <2>2, OlderOrders
    <2>5. Pages!Older(page[PageSize], e) => Pages!Rank(e, R) < Pages!Rank(page[PageSize], R) BY <2>2, RankOrders
    <2>6. Pages!Rank(e, R) < m BY <1>1, <1>10, <2>2, <2>3, <2>4, <2>5
    <2> QED BY <1>8, <2>6
  <1> QED BY <1>1, <1>5, <1>6, <1>7, <1>9, <1>10 DEF page

\* A page of the rows `from` below a cursor, and the cursor that comes with it: what
\* matches and is not below the new cursor is on the page.
PageOK(page, from, f, before) ==
    /\ page \in Seq(stored)
    /\ \A i, j \in 1..Len(page) : i < j => Pages!Older(page[j], page[i])
    /\ before # Pages!None => \A i \in 1..Len(page) : Pages!Older(page[i], before)
    /\ Pages!NextBefore(page) # Pages!None => page # <<>> /\ Pages!NextBefore(page) = page[Len(page)]
    /\ \A e \in from :
         (/\ NameOf[e] = f /\ (before # Pages!None => Pages!Older(e, before))
          /\ Pages!NextBefore(page) # Pages!None => ~Pages!Older(e, Pages!NextBefore(page)))
         => \E i \in 1..Len(page) : page[i] = e

\* The query returns such a page.
LEMMA PageFacts ==
    ASSUME Pages!Configured, IsFiniteSet(stored), stored \subseteq Events,
           NEW from \in SUBSET stored, NEW f, NEW before
    PROVE  PageOK(Pages!Page(from, f, before), from, f, before)
  <1> DEFINE page == Pages!Page(from, f, before)
  <1> SUFFICES PageOK(page, from, f, before) OBVIOUS
  <1> DEFINE R == {e \in from : NameOf[e] = f /\ (before = Pages!None \/ Pages!Older(e, before))}
  <1>1. R \in SUBSET Events /\ R \subseteq stored OBVIOUS
  <1>2. IsFiniteSet(R) BY <1>1, FS_Subset
  <1>3. page = Pages!Newest(R) BY DEF Pages!Page
  <1>4. \A e \in R : e \in from /\ NameOf[e] = f /\ (before # Pages!None => Pages!Older(e, before)) OBVIOUS
  <1>5. \A e \in from : NameOf[e] = f /\ (before # Pages!None => Pages!Older(e, before)) => e \in R OBVIOUS
  <1> HIDE DEF R, page
  <1>6. /\ page \in Seq(R) /\ Len(page) <= PageSize
        /\ \A i, j \in 1..Len(page) : i < j => Pages!Older(page[j], page[i])
        /\ Len(page) # PageSize => \A e \in R : \E i \in 1..Len(page) : page[i] = e
        /\ Len(page) = PageSize =>
              \A e \in R : ~Pages!Older(e, page[PageSize]) => \E i \in 1..PageSize : page[i] = e
    BY <1>1, <1>2, <1>3, NewestFacts
  <1>7. page \in Seq(stored) BY <1>1, <1>6, SeqMonotonic
  <1>8. \A i \in 1..Len(page) : page[i] \in R BY <1>6, ElementOfSeq
  <1>9. PageSize \in Nat \ {0} /\ \A e \in R : e # Pages!None BY <1>1 DEF Pages!Configured
  <1>10. CASE Len(page) = PageSize
    <2>1. Pages!NextBefore(page) = page[PageSize] BY <1>10, FeedSets DEF Pages!NextBefore, Last
    <2>2. page # <<>> BY <1>9, <1>10
    <2>3. ASSUME NEW e \in from, NameOf[e] = f, before # Pages!None => Pages!Older(e, before),
                 ~Pages!Older(e, Pages!NextBefore(page))
          PROVE  \E i \in 1..Len(page) : page[i] = e
      BY <1>5, <1>6, <1>10, <2>1, <2>3
    <2>4. Pages!NextBefore(page) # Pages!None BY <1>8, <1>9, <1>10, <2>1
    <2>5. before # Pages!None => \A i \in 1..Len(page) : Pages!Older(page[i], before) BY <1>4, <1>8
    <2> QED BY <1>6, <1>7, <1>10, <2>1, <2>2, <2>3, <2>4, <2>5 DEF PageOK
  <1>11. CASE Len(page) # PageSize
    <2>1. Pages!NextBefore(page) = Pages!None BY <1>11 DEF Pages!NextBefore
    <2> QED BY <1>4, <1>5, <1>6, <1>7, <1>8, <1>11, <2>1 DEF PageOK
  <1> QED BY <1>10, <1>11

\* What a request may be.
LEMMA RequestKinds ==
    ASSUME NEW k, NEW f, NEW b
    PROVE  /\ Pages!Sent(k, f, b).kind = k /\ Pages!Sent(k, f, b).before = b
           /\ Pages!Sent(k, f, b).from = {}
           /\ Pages!Sent(k, f, b) # Pages!Idle
  <1>1. "before" \in DOMAIN Pages!Sent(k, f, b) /\ "before" \notin DOMAIN Pages!Idle
    BY DEF Pages!Sent, Pages!Idle
  <1>2. Pages!Sent(k, f, b) # Pages!Idle BY <1>1
  <1>3. Pages!Sent(k, f, b).kind = k /\ Pages!Sent(k, f, b).before = b /\ Pages!Sent(k, f, b).from = {}
    BY DEF Pages!Sent
  <1> QED BY <1>2, <1>3

\* A step that keeps the list and all that is stored, and leaves slot s idle or with
\* a request as requests are.
LEMMA SlotPreserves ==
    ASSUME Pages!IInv, NEW s \in Slots, NEW q, flight' = [flight EXCEPT ![s] = q],
           UNCHANGED <<stored, Pages!list>>,
           q = Pages!Idle \/ Pages!RequestOK(q)
    PROVE  Pages!IInv'
  <1>1. flight = [t \in Slots |-> flight[t]] /\ \A t \in Slots : Pages!Free(t) \/ Pages!RequestOK(flight[t])
    BY DEF Pages!IInv
  <1>2. flight' = [t \in Slots |-> flight'[t]] BY <1>1
  <1>3. ASSUME NEW t \in Slots PROVE (Pages!Free(t) \/ Pages!RequestOK(flight[t]))'
    <2>1. flight'[t] = IF t = s THEN q ELSE flight[t] BY <1>1
    <2>2. CASE t = s BY <2>1, <2>2 DEF Pages!Free, Pages!RequestOK
    <2>3. CASE t # s BY <1>1, <2>1, <2>3 DEF Pages!Free, Pages!RequestOK
    <2> QED BY <2>2, <2>3
  <1>4. UNCHANGED <<stored, events, cursor, asOf, fits>> BY DEF Pages!list
  <1>5. Pages!NewestFirst' /\ Pages!NothingSkipped'
    BY <1>4 DEF Pages!IInv, Pages!NewestFirst, Pages!NothingSkipped
  <1> QED BY <1>2, <1>3, <1>4, <1>5 DEF Pages!IInv

\* A request is sent, whatever else is under way.
LEMMA StartPreserves ==
    ASSUME Pages!IInv, NEW s \in Slots, Pages!Poll(s) \/ Pages!SetFilter(s) \/ Pages!loadOlder(s)
    PROVE  Pages!IInv'
  <1>1. PICK q : /\ flight' = [flight EXCEPT ![s] = q]
                 /\ \/ \E f : q = Pages!Sent("refresh", f, Pages!None)
                    \/ cursor # Pages!None /\ \E f : q = Pages!Sent("older", f, cursor)
    BY DEF Pages!Poll, Pages!SetFilter, Pages!loadOlder, Pages!fetchEventsPage
  <1>2. q.from = {} /\ (q.kind = "refresh" <=> q.before = Pages!None) BY <1>1, RequestKinds
  <1>3. Pages!RequestOK(q) BY <1>2 DEF Pages!RequestOK
  <1>4. UNCHANGED <<stored, Pages!list>> BY DEF Pages!Poll, Pages!SetFilter, Pages!loadOlder
  <1> QED BY <1>1, <1>3, <1>4, SlotPreserves

\* A batch commits: what has been read stays a part of what is stored.
LEMMA EventPreserves ==
    ASSUME Pages!IInv, Pages!CommitEvent
    PROVE  Pages!IInv'
  <1>1. PICK e \in Events \ stored : stored' = stored \cup {e} BY DEF Pages!CommitEvent
  <1>2. UNCHANGED <<events, cursor, flight, asOf, fits>> BY DEF Pages!CommitEvent, Pages!list
  <1>3. /\ IsFiniteSet(stored') /\ stored' \subseteq Events /\ asOf'.stored \subseteq stored'
        /\ stored \subseteq stored'
    BY <1>1, <1>2, FS_AddElement, FeedSets DEF Pages!IInv
  <1>4. events' \in Seq(stored') BY <1>2, <1>3, SeqMonotonic DEF Pages!IInv
  <1>5. \A s \in Slots : (Pages!Free(s) \/ Pages!RequestOK(flight[s]))'
    BY <1>2, <1>3 DEF Pages!IInv, Pages!Free, Pages!RequestOK
  <1>6. Pages!NewestFirst' /\ Pages!NothingSkipped'
    BY <1>2 DEF Pages!IInv, Pages!NewestFirst, Pages!NothingSkipped
  <1> QED BY <1>2, <1>3, <1>4, <1>5, <1>6, FeedSets DEF Pages!IInv

\* The server answers from what is stored by now.
LEMMA ReadPreserves ==
    ASSUME Pages!IInv, NEW s \in Slots, Pages!GetRecentEvents(s)
    PROVE  Pages!IInv'
  <1> DEFINE q == flight[s]
             a == [q EXCEPT !.state = "answered", !.from = stored]
  <1>1. /\ ~Pages!Free(s) /\ flight' = [flight EXCEPT ![s] = a] /\ UNCHANGED <<stored, Pages!list>>
    BY DEF Pages!GetRecentEvents, Pages!IInv
  <1>2. Pages!RequestOK(q) BY <1>1 DEF Pages!IInv
  <1>3. a.kind = q.kind /\ a.before = q.before /\ (a.from = stored \/ a.from = q.from)
    OBVIOUS
  <1> HIDE DEF a, q
  <1>4. Pages!RequestOK(a) BY <1>2, <1>3 DEF Pages!RequestOK
  <1> QED BY <1>1, <1>4, SlotPreserves

\* A request fails.
LEMMA FailPreserves ==
    ASSUME Pages!IInv, NEW s \in Slots, Pages!FailRequest(s)
    PROVE  Pages!IInv'
  <1>1. flight' = [flight EXCEPT ![s] = Pages!Idle] /\ UNCHANGED <<stored, Pages!list>>
    BY DEF Pages!FailRequest
  <1> QED BY <1>1, SlotPreserves

\* A slot that is given up is idle, and the others are as they were.
LEMMA GivenUp ==
    ASSUME Pages!IInv, NEW s \in Slots, flight' = [flight EXCEPT ![s] = Pages!Idle], stored' = stored
    PROVE  /\ flight' = [t \in Slots |-> flight'[t]]
           /\ \A t \in Slots : (Pages!Free(t) \/ Pages!RequestOK(flight[t]))'
  <1>1. flight = [t \in Slots |-> flight[t]] /\ \A t \in Slots : Pages!Free(t) \/ Pages!RequestOK(flight[t])
    BY DEF Pages!IInv
  <1>2. \A t \in Slots : flight'[t] = IF t = s THEN Pages!Idle ELSE flight[t] BY <1>1
  <1> QED BY <1>1, <1>2 DEF Pages!Free, Pages!RequestOK

\* The first page replaces the list.
LEMMA RefreshPreserves ==
    ASSUME Pages!Configured, Pages!IInv, NEW s \in Slots, Pages!refresh(s)
    PROVE  Pages!IInv'
  <1> DEFINE q == flight[s]
             page == Pages!Answer(q)
  <1>1. ~Pages!Free(s) /\ q.kind = "refresh" /\ events' = page /\ cursor' = Pages!NextBefore(page)
        /\ asOf' = [filter |-> q.filter, stored |-> q.from]
        /\ flight' = [flight EXCEPT ![s] = Pages!Idle] /\ stored' = stored
    BY DEF Pages!refresh
  <1>2. /\ flight' = [t \in Slots |-> flight'[t]]
        /\ \A t \in Slots : (Pages!Free(t) \/ Pages!RequestOK(flight[t]))'
    BY <1>1, GivenUp
  <1>3. Pages!RequestOK(q) BY <1>1 DEF Pages!IInv
  <1>4. q.from \in SUBSET stored /\ q.before = Pages!None BY <1>1, <1>3 DEF Pages!RequestOK
  <1>5. page = Pages!Page(q.from, q.filter, Pages!None) BY <1>4 DEF Pages!Answer
  <1>6. asOf'.stored = q.from /\ asOf'.filter = q.filter BY <1>1
  <1> HIDE DEF page, q
  <1>7. IsFiniteSet(stored) /\ stored \subseteq Events BY FeedSets DEF Pages!IInv
  <1>8. /\ page \in Seq(stored)
        /\ \A i, j \in 1..Len(page) : i < j => Pages!Older(page[j], page[i])
        /\ Pages!NextBefore(page) # Pages!None => page # <<>> /\ Pages!NextBefore(page) = page[Len(page)]
        /\ \A e \in q.from :
             NameOf[e] = q.filter /\ (Pages!NextBefore(page) # Pages!None => ~Pages!Older(e, Pages!NextBefore(page)))
                => \E i \in 1..Len(page) : page[i] = e
    <2>1. PageOK(page, q.from, q.filter, Pages!None) BY <1>4, <1>5, <1>7, PageFacts
    <2> QED BY <2>1 DEF PageOK
  <1>9. DOMAIN page = 1..Len(page) BY <1>8, LenProperties
  <1>10. Pages!NewestFirst' BY <1>1, <1>8, <1>9 DEF Pages!NewestFirst
  <1>11. Pages!NothingSkipped' BY <1>1, <1>6, <1>8, <1>9 DEF Pages!NothingSkipped
  <1> QED BY <1>1, <1>2, <1>4, <1>6, <1>7, <1>8, <1>10, <1>11, FeedSets DEF Pages!IInv

\* A later page continues the list where it ended, if it was asked for there.
LEMMA AppendPreserves ==
    ASSUME Pages!Configured, Pages!IInv, NEW s \in Slots, Pages!appendOlder(s)
    PROVE  Pages!IInv'
  <1> DEFINE q == flight[s]
             page == Pages!Answer(q)
  <1>1. ~Pages!Free(s) /\ q.kind = "older"
        /\ events' = events \o page /\ cursor' = Pages!NextBefore(page)
        /\ fits' = (fits /\ Pages!AskedForThis(q))
        /\ flight' = [flight EXCEPT ![s] = Pages!Idle] /\ stored' = stored /\ asOf' = asOf
    BY DEF Pages!appendOlder
  <1>2. /\ flight' = [t \in Slots |-> flight'[t]]
        /\ \A t \in Slots : (Pages!Free(t) \/ Pages!RequestOK(flight[t]))'
    BY <1>1, GivenUp
  <1>3. Pages!RequestOK(q) BY <1>1 DEF Pages!IInv
  <1>4. q.from \in SUBSET stored /\ q.before # Pages!None BY <1>1, <1>3 DEF Pages!RequestOK
  <1>5. page = Pages!Page(q.from, q.filter, q.before) BY DEF Pages!Answer
  <1> HIDE DEF page, q
  <1>7. IsFiniteSet(stored) /\ stored \subseteq Events /\ events \in Seq(stored)
    BY FeedSets DEF Pages!IInv
  <1>8. /\ page \in Seq(stored)
        /\ \A i, j \in 1..Len(page) : i < j => Pages!Older(page[j], page[i])
        /\ \A i \in 1..Len(page) : Pages!Older(page[i], q.before)
        /\ Pages!NextBefore(page) # Pages!None => page # <<>> /\ Pages!NextBefore(page) = page[Len(page)]
        /\ \A e \in q.from :
             (/\ NameOf[e] = q.filter /\ Pages!Older(e, q.before)
              /\ Pages!NextBefore(page) # Pages!None => ~Pages!Older(e, Pages!NextBefore(page)))
                => \E i \in 1..Len(page) : page[i] = e
    <2>1. PageOK(page, q.from, q.filter, q.before) BY <1>4, <1>5, <1>7, PageFacts
    <2> QED BY <1>4, <2>1 DEF PageOK
  <1> DEFINE n == Len(events)
             m == Len(page)
  <1>9. /\ n \in Nat /\ m \in Nat /\ DOMAIN events = 1..n
        /\ \A i \in 1..n : events[i] \in Events /\ \A j \in 1..m : page[j] \in Events
    BY <1>7, <1>8, LenProperties, ElementOfSeq
  <1>10. /\ events' \in Seq(stored) /\ Len(events') = n + m
         /\ \A i \in 1..(n + m) : events'[i] = IF i <= n THEN events[i] ELSE page[i - n]
    BY <1>1, <1>7, <1>8, ConcatProperties
  <1>11. DOMAIN events' = 1..(n + m) BY <1>10, LenProperties
  <1> HIDE DEF n, m
  <1>6. ASSUME fits' = TRUE
        PROVE  /\ fits = TRUE /\ q.filter = asOf.filter /\ q.before = cursor /\ asOf.stored \subseteq q.from
               /\ n # 0 /\ cursor = events[n]
               /\ Pages!NewestFirst /\ Pages!NothingSkipped
    <2>1. fits /\ q.filter = asOf.filter /\ q.before = cursor /\ asOf.stored \subseteq q.from
      BY <1>1, <1>6 DEF Pages!AskedForThis
    <2>2. events # <<>> /\ cursor = events[n] BY <1>4, <2>1 DEF Pages!IInv, n
    <2>3. n # 0 BY <1>7, <2>2, EmptySeq DEF n
    <2> QED BY <1>1, <1>6, <2>1, <2>2, <2>3 DEF Pages!IInv
  <1>12. ASSUME fits' = TRUE, NEW i \in 1..n PROVE i = n \/ Pages!Older(cursor, events[i])
    <2>1. n \in 1..n /\ (i = n \/ i < n) BY <1>6, <1>9, <1>12
    <2> QED BY <1>6, <1>9, <1>12, <2>1 DEF Pages!NewestFirst
  <1>13. ASSUME fits' = TRUE, NEW i \in 1..(n + m), NEW j \in 1..(n + m), i < j
         PROVE  Pages!Older(events'[j], events'[i])
    <2>1. CASE j <= n
      <3>1. i \in 1..n /\ j \in 1..n BY <1>9, <1>13, <2>1
      <3>2. events'[i] = events[i] /\ events'[j] = events[j] BY <1>9, <1>10, <1>13, <2>1
      <3> QED BY <1>6, <1>9, <1>13, <3>1, <3>2 DEF Pages!NewestFirst
    <2>2. CASE i > n
      <3>1. i - n \in 1..m /\ j - n \in 1..m /\ i - n < j - n BY <1>9, <1>13, <2>2
      <3>2. events'[i] = page[i - n] /\ events'[j] = page[j - n] BY <1>9, <1>10, <1>13, <2>2
      <3> QED BY <1>8, <3>1, <3>2 DEF m
    <2>3. CASE i <= n /\ j > n
      <3>1. i \in 1..n /\ j - n \in 1..m BY <1>9, <1>13, <2>3
      <3>2. events'[i] = events[i] /\ events'[j] = page[j - n] BY <1>9, <1>10, <1>13, <2>3
      <3>3. Pages!Older(page[j - n], cursor) BY <1>6, <1>8, <1>13, <3>1 DEF m
      <3>4. events[i] = cursor \/ Pages!Older(cursor, events[i]) BY <1>6, <1>12, <1>13, <3>1
      <3>5. cursor \in Events /\ page[j - n] \in Events /\ events[i] \in Events
        <4>1. n \in 1..n BY <1>6, <1>9, <1>13
        <4> QED BY <1>6, <1>9, <1>13, <3>1, <4>1
      <3> QED BY <3>2, <3>3, <3>4, <3>5, OlderOrders
    <2> QED BY <1>9, <1>13, <2>1, <2>2, <2>3
  <1>14. Pages!NewestFirst'
    <2>1. fits' \in BOOLEAN BY <1>1
    <2>2. CASE fits' = TRUE BY <1>11, <1>13, <2>2 DEF Pages!NewestFirst
    <2>3. CASE fits' = FALSE BY <2>3 DEF Pages!NewestFirst
    <2> QED BY <2>1, <2>2, <2>3
  <1>15. cursor' # Pages!None => events' # <<>> /\ cursor' = events'[Len(events')]
    <2> SUFFICES ASSUME cursor' # Pages!None PROVE events' # <<>> /\ cursor' = events'[n + m]
      BY <1>10
    <2>1. page # <<>> /\ cursor' = page[m] BY <1>1, <1>8 DEF m
    <2>2. m # 0 BY <1>8, <2>1, EmptySeq DEF m
    <2>3. events'[n + m] = page[m]
      <3>1. n + m \in 1..(n + m) /\ ~(n + m <= n) /\ (n + m) - n = m BY <1>9, <2>2
      <3> QED BY <1>10, <3>1
    <2>4. events' # <<>> BY <1>9, <1>10, <2>2
    <2> QED BY <2>1, <2>3, <2>4
  <1>16. ASSUME fits' = TRUE, NEW e \in asOf.stored, NameOf[e] = asOf.filter,
                cursor' # Pages!None => ~Pages!Older(e, cursor')
         PROVE  \E i \in DOMAIN events' : events'[i] = e
    <2>1. CASE Pages!Older(e, cursor)
      <3>1. e \in q.from /\ NameOf[e] = q.filter /\ Pages!Older(e, q.before) BY <1>6, <1>16, <2>1
      <3>2. PICK i \in 1..m : page[i] = e BY <1>1, <1>8, <1>16, <3>1 DEF m
      <3>3. n + i \in 1..(n + m) /\ ~(n + i <= n) /\ (n + i) - n = i BY <1>9, <3>2
      <3>4. events'[n + i] = e BY <1>10, <3>2, <3>3
      <3> QED BY <1>11, <3>3, <3>4
    <2>2. CASE ~Pages!Older(e, cursor)
      <3>1. PICK i \in 1..n : events[i] = e BY <1>6, <1>9, <1>16, <2>2 DEF Pages!NothingSkipped
      <3>2. i \in 1..(n + m) /\ i <= n BY <1>9, <3>1
      <3>3. events'[i] = e BY <1>10, <3>1, <3>2
      <3> QED BY <1>11, <3>2, <3>3
    <2> QED BY <2>1, <2>2
  <1>17. Pages!NothingSkipped'
    <2>1. fits' \in BOOLEAN BY <1>1
    <2>2. CASE fits' = TRUE BY <1>1, <1>16, <2>2 DEF Pages!NothingSkipped
    <2>3. CASE fits' = FALSE BY <2>3 DEF Pages!NothingSkipped
    <2> QED BY <2>1, <2>2, <2>3
  <1>18. asOf'.stored \subseteq stored' /\ events' \in Seq(stored')
    BY <1>1, <1>10 DEF Pages!IInv
  <1> QED BY <1>1, <1>2, <1>7, <1>14, <1>15, <1>17, <1>18, FeedSets DEF Pages!IInv

\* Pausing changes nothing of it.
LEMMA StutterPreserves ==
    ASSUME Pages!IInv, UNCHANGED <<stored, flight, Pages!list>>
    PROVE  Pages!IInv'
  <1>1. UNCHANGED <<events, cursor, asOf, fits>> BY DEF Pages!list
  <1>2. \A s \in Slots : (Pages!Free(s) \/ Pages!RequestOK(flight[s]))'
    BY DEF Pages!IInv, Pages!Free, Pages!RequestOK
  <1>3. Pages!NewestFirst' /\ Pages!NothingSkipped'
    BY <1>1 DEF Pages!IInv, Pages!NewestFirst, Pages!NothingSkipped
  <1> QED BY <1>1, <1>2, <1>3 DEF Pages!IInv

\* Every step keeps the invariant, however requests overlap.
LEMMA FeedPreserves ==
    ASSUME Pages!Configured, Pages!IInv, [Pages!Next]_(Pages!vars)
    PROVE  Pages!IInv'
  <1>1. ASSUME NEW s \in Slots, Pages!Respond(s) PROVE Pages!IInv'
    BY <1>1, ReadPreserves, RefreshPreserves, AppendPreserves, FailPreserves DEF Pages!Respond
  <1>2. CASE Pages!TogglePause \/ UNCHANGED Pages!vars
    <2>1. UNCHANGED <<stored, flight, Pages!list>>
      BY <1>2 DEF Pages!TogglePause, Pages!vars, Pages!list
    <2> QED BY <2>1, StutterPreserves
  <1> QED BY <1>1, <1>2, StartPreserves, EventPreserves DEF Pages!Next

\* Feed's promise is the promise of PagePromise.
LEMMA FeedPromises == Pages!PagesAreWhole <=> PagesAreWhole
  BY DEF Pages!PagesAreWhole, PagesAreWhole, Pages!NewestFirst, NewestFirst, Pages!NothingSkipped, NothingSkipped,
         Pages!Older, Older, Pages!None, None

\* Whatever events arrive and in whatever order they become visible, whatever the
\* size of a page, however many polls, filter changes and requests for older pages
\* overlap, in whatever order their answers arrive and whichever fail: a list is in
\* order and leaves nothing out, unless a later page was appended to another list
\* than the one it was asked for (GetRecentEvents, useRecentEventsFeed).
THEOREM PagesLeaveNothingOut ==
    ASSUME Pages!Configured
    PROVE  Pages!Spec => []PagesAreWhole
  <1>1. Pages!Init => Pages!IInv
    <2> SUFFICES ASSUME Pages!Init PROVE Pages!IInv OBVIOUS
    <2>1. stored = {} /\ events = <<>> /\ cursor = Pages!None /\ asOf.stored = {} BY DEF Pages!Init
    <2>2. PICK s \in Slots :
             flight = [t \in Slots |-> IF t = s THEN Pages!Sent("refresh", filter, Pages!None) ELSE Pages!Idle]
      BY DEF Pages!Init
    <2>3. IsFiniteSet(stored) /\ events \in Seq(stored) /\ DOMAIN events = {} BY <2>1, FS_EmptySet
    <2>4. Pages!RequestOK(Pages!Sent("refresh", filter, Pages!None)) BY RequestKinds DEF Pages!RequestOK
    <2>5. \A t \in Slots : Pages!Free(t) \/ Pages!RequestOK(flight[t]) BY <2>2, <2>4 DEF Pages!Free
    <2>6. Pages!NewestFirst /\ Pages!NothingSkipped BY <2>1, <2>3 DEF Pages!NewestFirst, Pages!NothingSkipped
    <2>7. flight = [t \in Slots |-> flight[t]] BY <2>2
    <2> QED BY <2>1, <2>3, <2>5, <2>6, <2>7, FeedSets DEF Pages!IInv
  <1>2. Pages!IInv /\ [Pages!Next]_(Pages!vars) => Pages!IInv' BY FeedPreserves
  <1>3. Pages!IInv => Pages!PagesAreWhole BY DEF Pages!IInv, Pages!PagesAreWhole
  <1>4. Pages!PagesAreWhole <=> PagesAreWhole BY FeedPromises
  <1> QED BY <1>1, <1>2, <1>3, <1>4, PTL DEF Pages!Spec

-----------------------------------------------------------------------------
(* The retry ladder.                                                         *)

\* What Insights counts is what this module counts.
LEMMA LadderSets == \A S : Ladder!Cardinality(S) = Cardinality(S)
  <1>1. ASSUME NEW S PROVE Ladder!Cardinality(S) = Cardinality(S)
    BY Zenon DEF Ladder!Cardinality, Cardinality
  <1> QED BY <1>1

\* Insights' promise is the promise of LadderPromise.
LEMMA LadderPromises == Ladder!LadderIsExact <=> LadderIsExact
  <1>1. /\ \A b : Ladder!Trying(b) = Trying(b) /\ Ladder!Holding(b) = Holding(b)
        /\ \A b : Ladder!Rungs(b) = Rungs(b)
    BY DEF Ladder!Trying, Trying, Ladder!Holding, Holding, Ladder!Rungs, Rungs
  <1>2. \A b : Ladder!LadderSamples(b) = LadderSamples(b)
    BY <1>1 DEF Ladder!LadderSamples, LadderSamples
  <1>3. Ladder!LadderAccountsForEveryChain <=> LadderAccountsForEveryChain
    BY <1>1, <1>2, LadderSets DEF Ladder!LadderAccountsForEveryChain, LadderAccountsForEveryChain
  <1>4. Ladder!TakesAccountedFor <=> TakesAccountedFor
    BY <1>1, LadderSets DEF Ladder!TakesAccountedFor, TakesAccountedFor
  <1>5. Ladder!HintsFollowFalls <=> HintsFollowFalls BY DEF Ladder!HintsFollowFalls, HintsFollowFalls
  <1>6. Ladder!SamplesMatchLadder <=> SamplesMatchLadder
    BY <1>1 DEF Ladder!SamplesMatchLadder, SamplesMatchLadder
  <1> QED BY <1>3, <1>4, <1>5, <1>6 DEF Ladder!LadderIsExact, LadderIsExact

\* One where p holds.
Bit(p) == IF p THEN 1 ELSE 0

\* The chains that ended on a rung of ladder l.
Climbed(l) == l[1] + l[2] + l[3] + l[4]

\* From figures f to g, n more chains have never succeeded, i more takes are
\* incomplete, h more hints are charged, and w more placements have succeeded.
Moves(f, g, n, i, h, w) ==
    /\ g.never = f.never + n /\ g.incomplete = f.incomplete + i /\ g.hints = f.hints + h
    /\ Climbed(g.ladder) = Climbed(f.ladder) + w /\ Len(g.tries) = Len(f.tries) + w
    /\ Len(g.times) <= Len(f.times) + w
    /\ Len(f.examples) <= MaxExamples => Len(g.examples) <= MaxExamples

\* The figures are numbers.
LEMMA FiguresAreNumbers ==
    ASSUME NEW f \in Ladder!Figures
    PROVE  /\ f.never \in Nat /\ f.incomplete \in Nat /\ f.hints \in Nat
           /\ Climbed(f.ladder) \in Nat
           /\ Len(f.tries) \in Nat /\ Len(f.times) \in Nat
  <1>1. /\ f.never \in Nat /\ f.incomplete \in Nat /\ f.hints \in Nat
        /\ f.ladder \in [1..4 -> Nat] /\ f.tries \in Seq(Nat) /\ f.times \in Seq(Nat)
    BY DEF Ladder!Figures
  <1>3. Climbed(f.ladder) \in Nat BY <1>1 DEF Climbed
  <1>4. Len(f.tries) \in Nat /\ Len(f.times) \in Nat BY <1>1
  <1>5. f.never \in Nat /\ f.incomplete \in Nat /\ f.hints \in Nat BY <1>1
  <1> HIDE <1>1
  <1> QED BY <1>3, <1>4, <1>5, Zenon

\* What has not changed has not moved.
LEMMA NothingMoves == \A f \in Ladder!Figures : Moves(f, f, 0, 0, 0, 0)
  BY FiguresAreNumbers DEF Moves

\* One addition after another.
LEMMA Chained ==
    ASSUME NEW x \in Nat, NEW y, NEW z, NEW i \in Int, NEW j \in Int, y = x + i, z = y + j
    PROVE  z = x + (i + j)
  OBVIOUS

\* One move after another.
LEMMA MovesAddUp ==
    ASSUME NEW f \in Ladder!Figures, NEW g \in Ladder!Figures, NEW e \in Ladder!Figures,
           NEW n1 \in Int, NEW i1 \in Int, NEW h1 \in Int, NEW w1 \in Int,
           NEW n2 \in Int, NEW i2 \in Int, NEW h2 \in Int, NEW w2 \in Int,
           Moves(f, g, n1, i1, h1, w1), Moves(g, e, n2, i2, h2, w2)
    PROVE  Moves(f, e, n1 + n2, i1 + i2, h1 + h2, w1 + w2)
  <1>1. e.never = f.never + (n1 + n2)
    <2>1. f.never \in Nat /\ g.never = f.never + n1 BY FiguresAreNumbers DEF Moves
    <2>2. e.never = g.never + n2 BY DEF Moves
    <2> QED BY <2>1, <2>2, Chained
  <1>2. e.incomplete = f.incomplete + (i1 + i2)
    <2>1. f.incomplete \in Nat /\ g.incomplete = f.incomplete + i1 BY FiguresAreNumbers DEF Moves
    <2>2. e.incomplete = g.incomplete + i2 BY DEF Moves
    <2> QED BY <2>1, <2>2, Chained
  <1>3. e.hints = f.hints + (h1 + h2)
    <2>1. f.hints \in Nat /\ g.hints = f.hints + h1 BY FiguresAreNumbers DEF Moves
    <2>2. e.hints = g.hints + h2 BY DEF Moves
    <2> QED BY <2>1, <2>2, Chained
  <1>5. Climbed(e.ladder) = Climbed(f.ladder) + (w1 + w2)
    <2>1. Climbed(f.ladder) \in Nat /\ Climbed(g.ladder) = Climbed(f.ladder) + w1 BY FiguresAreNumbers DEF Moves
    <2>2. Climbed(e.ladder) = Climbed(g.ladder) + w2 BY DEF Moves
    <2> QED BY <2>1, <2>2, Chained
  <1>6. Len(e.tries) = Len(f.tries) + (w1 + w2)
    <2> DEFINE x == Len(f.tries)
               y == Len(g.tries)
               z == Len(e.tries)
    <2>1. x \in Nat /\ y = x + w1 BY FiguresAreNumbers DEF Moves
    <2>2. z = y + w2 BY DEF Moves
    <2> HIDE DEF x, y, z
    <2>3. z = x + (w1 + w2) BY <2>1, <2>2, Chained
    <2> QED BY <2>3 DEF x, z
  <1>7. Len(e.times) <= Len(f.times) + (w1 + w2)
    <2> DEFINE x == Len(f.times)
               y == Len(g.times)
               z == Len(e.times)
    <2>1. x \in Nat /\ y \in Nat /\ z \in Nat BY FiguresAreNumbers
    <2>2. y <= x + w1 /\ z <= y + w2 BY DEF Moves
    <2> HIDE DEF x, y, z
    <2>3. z <= x + (w1 + w2) BY <2>1, <2>2
    <2> QED BY <2>3 DEF x, z
  <1>8. Len(f.examples) <= MaxExamples => Len(e.examples) <= MaxExamples BY DEF Moves
  <1> QED BY <1>1, <1>2, <1>3, <1>5, <1>6, <1>7, <1>8 DEF Moves

\* Figures that differ in nothing but the examples, of which there are few.
LEMMA ExampleEffect ==
    ASSUME Ladder!Configured, NEW figs \in [Blocks -> Ladder!Figures], NEW b \in Blocks, NEW a \in Ladder!Attempts
    PROVE  LET G == Ladder!recordExampleAttempt(figs, b, a)
           IN  /\ G \in [Blocks -> Ladder!Figures]
               /\ \A c \in Blocks : Moves(figs[c], G[c], 0, 0, 0, 0)
  <1> DEFINE e == IF a \in Ladder!ToSet(figs[b].examples) \/ Len(figs[b].examples) >= MaxExamples
                  THEN figs[b].examples ELSE Append(figs[b].examples, a)
             f == [figs[b] EXCEPT !.examples = e]
             G == Ladder!recordExampleAttempt(figs, b, a)
  <1>1. G = [figs EXCEPT ![b] = f] BY DEF Ladder!recordExampleAttempt
  <1>2. figs[b] \in Ladder!Figures OBVIOUS
  <1>3. figs[b].examples \in Seq(Ladder!Attempts) BY <1>2 DEF Ladder!Figures
  <1>4. e \in Seq(Ladder!Attempts) /\ (Len(figs[b].examples) <= MaxExamples => Len(e) <= MaxExamples)
    BY <1>3 DEF Ladder!Configured
  <1> HIDE DEF e
  <1>5. f \in Ladder!Figures BY <1>2, <1>4 DEF Ladder!Figures
  <1>6. Moves(figs[b], f, 0, 0, 0, 0)
    <2>1. /\ f.never = figs[b].never /\ f.incomplete = figs[b].incomplete /\ f.hints = figs[b].hints
          /\ f.noSnap = figs[b].noSnap /\ f.missing = figs[b].missing /\ f.ladder = figs[b].ladder
          /\ f.tries = figs[b].tries /\ f.times = figs[b].times /\ f.examples = e
      BY <1>2 DEF Ladder!Figures
    <2> HIDE DEF f
    <2>2. Moves(figs[b], figs[b], 0, 0, 0, 0) BY <1>2, NothingMoves
    <2> QED BY <1>4, <2>1, <2>2, Zenon DEF Moves
  <1> HIDE DEF f, G
  <1>7. G \in [Blocks -> Ladder!Figures] BY <1>1, <1>5
  <1>8. \A c \in Blocks : Moves(figs[c], G[c], 0, 0, 0, 0) BY <1>1, <1>6, NothingMoves
  <1> QED BY <1>7, <1>8 DEF G

\* What one more chain that never succeeded adds to the figures.
LEMMA NeverEffect ==
    ASSUME NEW figs \in [Blocks -> Ladder!Figures], NEW b \in Blocks
    PROVE  LET G == [figs EXCEPT ![b].never = @ + 1]
           IN  /\ G \in [Blocks -> Ladder!Figures]
               /\ \A c \in Blocks : Moves(figs[c], G[c], Bit(b = c), 0, 0, 0)
  <1> DEFINE v == figs[b].never + 1
             f == [figs[b] EXCEPT !.never = v]
             G == [figs EXCEPT ![b].never = @ + 1]
  <1>1. G = [figs EXCEPT ![b] = f] OBVIOUS
  <1>2. figs[b] \in Ladder!Figures OBVIOUS
  <1>3. f \in Ladder!Figures
    <2>1. v \in Nat BY <1>2 DEF Ladder!Figures
    <2> HIDE DEF v
    <2> QED BY <1>2, <2>1 DEF Ladder!Figures
  <1>4. Moves(figs[b], f, 1, 0, 0, 0)
    <2>2. /\ f.never = figs[b].never + 1 /\ f.incomplete = figs[b].incomplete
          /\ f.ladder = figs[b].ladder /\ f.tries = figs[b].tries /\ f.times = figs[b].times
          /\ f.hints = figs[b].hints /\ f.noSnap = figs[b].noSnap /\ f.missing = figs[b].missing
          /\ f.examples = figs[b].examples
      BY <1>2 DEF Ladder!Figures
    <2> HIDE DEF f
    <2>3. Moves(figs[b], figs[b], 0, 0, 0, 0) BY <1>2, NothingMoves
    <2> QED BY <2>2, <2>3, Zenon DEF Moves
  <1> HIDE DEF f, G
  <1>5. G \in [Blocks -> Ladder!Figures] BY <1>1, <1>3
  <1>6. \A c \in Blocks : Moves(figs[c], G[c], Bit(b = c), 0, 0, 0)
    BY <1>1, <1>4, NothingMoves DEF Bit
  <1> QED BY <1>5, <1>6 DEF G

\* What one more incomplete take adds to the figures.
LEMMA IncompleteEffect ==
    ASSUME Ladder!Configured, NEW figs \in [Blocks -> Ladder!Figures], NEW b \in Blocks, NEW a \in Ladder!Attempts
    PROVE  LET G == Ladder!CountIncomplete(figs, b, a)
           IN  /\ G \in [Blocks -> Ladder!Figures]
               /\ \A c \in Blocks : Moves(figs[c], G[c], 0, Bit(b = c), 0, 0)
  <1> DEFINE v == figs[b].incomplete + 1
             f == [figs[b] EXCEPT !.incomplete = v]
             F == [figs EXCEPT ![b].incomplete = @ + 1]
             G == Ladder!recordExampleAttempt(F, b, a)
  <1>1. F = [figs EXCEPT ![b] = f] OBVIOUS
  <1>2. figs[b] \in Ladder!Figures OBVIOUS
  <1>3. f \in Ladder!Figures
    <2>1. v \in Nat BY <1>2 DEF Ladder!Figures
    <2> HIDE DEF v
    <2> QED BY <1>2, <2>1 DEF Ladder!Figures
  <1>4. Moves(figs[b], f, 0, 1, 0, 0)
    <2>2. /\ f.incomplete = figs[b].incomplete + 1 /\ f.never = figs[b].never
          /\ f.ladder = figs[b].ladder /\ f.tries = figs[b].tries /\ f.times = figs[b].times
          /\ f.hints = figs[b].hints /\ f.noSnap = figs[b].noSnap /\ f.missing = figs[b].missing
          /\ f.examples = figs[b].examples
      BY <1>2 DEF Ladder!Figures
    <2> HIDE DEF f
    <2>3. Moves(figs[b], figs[b], 0, 0, 0, 0) BY <1>2, NothingMoves
    <2> QED BY <2>2, <2>3, Zenon DEF Moves
  <1> HIDE DEF f, F
  <1>5. F \in [Blocks -> Ladder!Figures] BY <1>1, <1>3
  <1>6. \A c \in Blocks : Moves(figs[c], F[c], 0, Bit(b = c), 0, 0)
    BY <1>1, <1>4, NothingMoves DEF Bit
  <1>7. G \in [Blocks -> Ladder!Figures] /\ \A c \in Blocks : Moves(F[c], G[c], 0, 0, 0, 0)
    BY <1>5, ExampleEffect
  <1> HIDE DEF G
  <1>8. ASSUME NEW c \in Blocks PROVE Moves(figs[c], G[c], 0, Bit(b = c), 0, 0)
    <2>1. Bit(b = c) \in Int /\ 0 \in Int BY DEF Bit
    <2>3. figs[c] \in Ladder!Figures /\ F[c] \in Ladder!Figures /\ G[c] \in Ladder!Figures
      BY <1>5, <1>7
    <2>2. Moves(figs[c], G[c], 0 + 0, Bit(b = c) + 0, 0 + 0, 0 + 0)
      BY <1>6, <1>7, <2>1, <2>3, MovesAddUp
    <2> QED BY <2>1, <2>2
  <1> QED BY <1>7, <1>8 DEF G, F, Ladder!CountIncomplete

\* A flush counts the chain it ends as never successful, and its open take as
\* incomplete, when the attempt is eligible.
LEMMA FlushEffect ==
    ASSUME Ladder!Configured, NEW figs \in [Blocks -> Ladder!Figures], NEW s \in Ladder!Chain, Ladder!Begun(s), NEW a \in Ladder!Attempts
    PROVE  LET G == Ladder!FlushFigures(figs, s, a)
           IN  /\ G \in [Blocks -> Ladder!Figures]
               /\ \A c \in Blocks : Moves(figs[c], G[c], Bit(a \in Eligible /\ s.active = c), Bit(a \in Eligible /\ s.active = c /\ s.open), 0, 0)
  <1> DEFINE G == Ladder!FlushFigures(figs, s, a)
             b == s.active
             N == [figs EXCEPT ![b].never = @ + 1]
             E == Ladder!recordExampleAttempt(N, b, a)
             I == Ladder!CountIncomplete(E, b, a)
  <1>1. CASE b = NoBlock \/ a \notin Eligible
    <2>1. G = figs BY <1>1 DEF Ladder!FlushFigures
    <2>2. ASSUME NEW c \in Blocks
          PROVE  Bit(a \in Eligible /\ s.active = c) = 0 /\ Bit(a \in Eligible /\ s.active = c /\ s.open) = 0
      BY <1>1 DEF Bit, Ladder!Configured
    <2> QED BY <2>1, <2>2, NothingMoves
  <1>2. CASE b # NoBlock /\ a \in Eligible
    <2>1. b \in Blocks /\ s.open \in BOOLEAN BY <1>2 DEF Ladder!Chain
    <2>2. G = IF s.open THEN I ELSE E BY <1>2 DEF Ladder!FlushFigures, Ladder!Begun
    <2> HIDE DEF G, b
    <2>3. N \in [Blocks -> Ladder!Figures] /\ \A c \in Blocks : Moves(figs[c], N[c], Bit(b = c), 0, 0, 0)
      BY <2>1, NeverEffect
    <2> HIDE DEF N
    <2>4. E \in [Blocks -> Ladder!Figures] /\ \A c \in Blocks : Moves(N[c], E[c], 0, 0, 0, 0)
      BY <2>1, <2>3, ExampleEffect
    <2> HIDE DEF E
    <2>5. I \in [Blocks -> Ladder!Figures] /\ \A c \in Blocks : Moves(E[c], I[c], 0, Bit(b = c), 0, 0)
      BY <2>1, <2>4, IncompleteEffect
    <2> HIDE DEF I
    <2>6. 0 \in Int /\ \A c \in Blocks : Bit(b = c) \in Int BY DEF Bit
    <2>10. \A c \in Blocks : /\ figs[c] \in Ladder!Figures /\ N[c] \in Ladder!Figures
                             /\ E[c] \in Ladder!Figures /\ I[c] \in Ladder!Figures
      BY <2>3, <2>4, <2>5
    <2>7. \A c \in Blocks : Moves(figs[c], E[c], Bit(b = c), 0, 0, 0)
      <3> TAKE c \in Blocks
      <3>1. Moves(figs[c], E[c], Bit(b = c) + 0, 0 + 0, 0 + 0, 0 + 0)
        BY <2>3, <2>4, <2>6, <2>10, MovesAddUp
      <3> QED BY <2>6, <3>1
    <2>8. \A c \in Blocks : Moves(figs[c], I[c], Bit(b = c), Bit(b = c), 0, 0)
      <3> TAKE c \in Blocks
      <3>1. Moves(figs[c], I[c], Bit(b = c) + 0, 0 + Bit(b = c), 0 + 0, 0 + 0)
        BY <2>5, <2>6, <2>7, <2>10, MovesAddUp
      <3> QED BY <2>6, <3>1
    <2>9. ASSUME NEW c \in Blocks
          PROVE  /\ Bit(a \in Eligible /\ s.active = c) = Bit(b = c)
                 /\ Bit(a \in Eligible /\ s.active = c /\ s.open) = IF s.open THEN Bit(b = c) ELSE 0
      BY <1>2 DEF Bit, b
    <2> QED BY <2>1, <2>2, <2>4, <2>5, <2>7, <2>8, <2>9 DEF G
  <1> QED BY <1>1, <1>2

\* Of two subsets that differ at most in x, the larger has x.
LEMMA OneMoves ==
    ASSUME NEW S, IsFiniteSet(S), NEW C \in SUBSET S, NEW D \in SUBSET S, NEW x, C \ {x} = D \ {x}
    PROVE  /\ Cardinality(C) \in Nat /\ Cardinality(D) \in Nat
           /\ Cardinality(D) + Bit(x \in C) = Cardinality(C) + Bit(x \in D)
  <1>1. IsFiniteSet(C) /\ IsFiniteSet(D) BY FS_Subset
  <1>2. ASSUME NEW A, IsFiniteSet(A)
        PROVE  Cardinality(A) \in Nat /\ Cardinality(A) = Cardinality(A \ {x}) + Bit(x \in A)
    <2>1. Cardinality(A) \in Nat BY <1>2, FS_CardinalityType
    <2>2. CASE x \in A
      <3>1. Cardinality(A \ {x}) = Cardinality(A) - 1 BY <1>2, <2>2, FS_RemoveElement
      <3> QED BY <2>1, <2>2, <3>1 DEF Bit
    <2>3. CASE x \notin A
      <3>1. A \ {x} = A BY <2>3
      <3> QED BY <2>1, <2>3, <3>1 DEF Bit
    <2> QED BY <2>2, <2>3
  <1>3. /\ Cardinality(C) \in Nat /\ Cardinality(C) = Cardinality(C \ {x}) + Bit(x \in C)
        /\ Cardinality(D) \in Nat /\ Cardinality(D) = Cardinality(D \ {x}) + Bit(x \in D)
    BY <1>1, <1>2
  <1>4. Bit(x \in C) \in {0, 1} /\ Bit(x \in D) \in {0, 1} BY DEF Bit
  <1>5. IsFiniteSet(C \ {x}) BY <1>1, FS_Subset
  <1>6. Cardinality(C \ {x}) \in Nat BY <1>5, FS_CardinalityType
  <1> QED BY <1>3, <1>4, <1>6

\* A rung more is one more on the ladder.
LEMMA RungEffect ==
    ASSUME NEW l \in [1..4 -> Nat], NEW r \in 1..4
    PROVE  LET m == [l EXCEPT ![r] = @ + 1]
           IN  m \in [1..4 -> Nat] /\ Climbed(l) \in Nat /\ Climbed(m) = Climbed(l) + 1
  <1>1. l[1] \in Nat /\ l[2] \in Nat /\ l[3] \in Nat /\ l[4] \in Nat OBVIOUS
  <1>2. r = 1 \/ r = 2 \/ r = 3 \/ r = 4 OBVIOUS
  <1> DEFINE m == [l EXCEPT ![r] = @ + 1]
  <1>3. m \in [1..4 -> Nat] OBVIOUS
  <1>4. Climbed(m) = Climbed(l) + 1 BY <1>1, <1>2 DEF Climbed
  <1> QED BY <1>1, <1>3, <1>4 DEF Climbed

\* What a placement adds to the counters every row moves.
LEMMA PlacementCounted ==
    ASSUME NEW f \in Ladder!Figures, NEW o \in Ladder!Outcomes, NEW s \in Ladder!Chain
    PROVE  LET g == Ladder!CountPlacement(f, o, s)
           IN  /\ g \in Ladder!Figures /\ Moves(f, g, 0, 0, 0, 0)
               /\ g.never = f.never /\ g.incomplete = f.incomplete
               /\ g.ladder = f.ladder /\ g.tries = f.tries /\ g.times = f.times /\ g.examples = f.examples
  <1> DEFINE p == IF s.tries = 1 THEN f.first + 1 ELSE f.first
             q == IF s.tries = 1 /\ o # "placed" THEN f.firstFail + 1 ELSE f.firstFail
             n == IF o = "fell_no_snap_target" THEN f.noSnap + 1 ELSE f.noSnap
             m == IF o = "fell_missing_support" THEN f.missing + 1 ELSE f.missing
             d == IF o = "placed" THEN f.placed + 1 ELSE f.placed
             g == [f EXCEPT !.first = p, !.firstFail = q, !.noSnap = n, !.missing = m, !.placed = d]
  <1>1. g = Ladder!CountPlacement(f, o, s) BY DEF Ladder!CountPlacement
  <1>2. /\ f.first \in Nat /\ f.firstFail \in Nat /\ f.noSnap \in Nat /\ f.missing \in Nat /\ f.placed \in Nat
        /\ f.ladder \in [1..4 -> Nat] /\ f.tries \in Seq(Nat) /\ f.times \in Seq(Nat)
    BY DEF Ladder!Figures
  <1>3. p \in Nat /\ q \in Nat /\ n \in Nat /\ m \in Nat /\ d \in Nat
    <2>1. \A i \in Nat : i + 1 \in Nat OBVIOUS
    <2> QED BY <1>2, <2>1, Zenon
  <1> HIDE DEF p, q, n, m, d
  <1>5. g \in Ladder!Figures BY <1>3 DEF Ladder!Figures
  <1>6. /\ g.never = f.never /\ g.incomplete = f.incomplete /\ g.hints = f.hints
        /\ g.ladder = f.ladder /\ g.tries = f.tries /\ g.times = f.times /\ g.examples = f.examples
    BY DEF Ladder!Figures
  <1> HIDE DEF g
  <1>7. Moves(f, f, 0, 0, 0, 0) BY NothingMoves
  <1>9. Moves(f, g, 0, 0, 0, 0) BY <1>6, <1>7, Zenon DEF Moves
  <1> QED BY <1>1, <1>5, <1>6, <1>9

\* What a success adds: one rung, one sample of tries, at most one of time.
LEMMA SuccessCounted ==
    ASSUME NEW f \in Ladder!Figures, NEW s \in Ladder!Chain, s.tries # 0, NEW t \in Int
    PROVE  LET g == Ladder!CountSuccess(f, s, t)
           IN  g \in Ladder!Figures /\ Moves(f, g, 0, 0, 0, 1)
  <1> DEFINE r == IF s.tries <= 3 THEN s.tries ELSE 4
             l == [f.ladder EXCEPT ![r] = @ + 1]
             u == Append(f.tries, s.tries)
             v == IF Ladder!TimeCounts(s, t) THEN Append(f.times, t - s.takenAt) ELSE f.times
             g == [f EXCEPT !.ladder = l, !.tries = u, !.times = v]
  <1>1. g = Ladder!CountSuccess(f, s, t) BY DEF Ladder!CountSuccess
  <1>2. /\ f.ladder \in [1..4 -> Nat] /\ f.tries \in Seq(Nat) /\ f.times \in Seq(Nat)
        /\ f.noSnap \in Nat /\ f.missing \in Nat
    BY DEF Ladder!Figures
  <1>3. s.tries \in Nat /\ s.takenAt \in Int BY DEF Ladder!Chain
  <1>4. r \in 1..4 BY <1>3
  <1>5. l \in [1..4 -> Nat] /\ Climbed(l) = Climbed(f.ladder) + 1
    <2> HIDE DEF r
    <2> QED BY <1>2, <1>4, RungEffect
  <1>6. u \in Seq(Nat) /\ Len(u) = Len(f.tries) + 1 BY <1>2, <1>3
  <1>7. v \in Seq(Nat) /\ Len(v) <= Len(f.times) + 1
    <2>1. CASE Ladder!TimeCounts(s, t)
      <3>1. t - s.takenAt \in Nat BY <1>3, <2>1 DEF Ladder!TimeCounts
      <3>2. v = Append(f.times, t - s.takenAt) BY <2>1
      <3> HIDE DEF v
      <3>3. v \in Seq(Nat) /\ Len(v) = Len(f.times) + 1 BY <1>2, <3>1, <3>2
      <3>4. Len(f.times) \in Nat BY <1>2
      <3> QED BY <3>3, <3>4
    <2>2. CASE ~Ladder!TimeCounts(s, t)
      <3>1. v = f.times BY <2>2
      <3> HIDE DEF v
      <3> QED BY <1>2, <3>1
    <2> QED BY <2>1, <2>2
  <1> HIDE DEF l, u, v
  <1>8. g \in Ladder!Figures BY <1>5, <1>6, <1>7 DEF Ladder!Figures
  <1>9. /\ g.never = f.never /\ g.incomplete = f.incomplete /\ g.hints = f.hints
        /\ g.noSnap = f.noSnap /\ g.missing = f.missing
        /\ g.ladder = l /\ g.tries = u /\ g.times = v /\ g.examples = f.examples
    BY DEF Ladder!Figures
  <1> HIDE DEF g
  <1>10. Moves(f, f, 0, 0, 0, 0) BY NothingMoves
  <1>11. Moves(f, g, 0, 0, 0, 1) BY <1>5, <1>6, <1>7, <1>9, <1>10, Zenon DEF Moves
  <1> QED BY <1>1, <1>8, <1>11

\* What one placement moves.
LEMMA PlacementEffect ==
    ASSUME Ladder!Configured, NEW figs \in [Blocks -> Ladder!Figures], NEW b \in Blocks, NEW o \in Ladder!Outcomes,
           NEW s \in Ladder!Chain, s.tries # 0, NEW t \in Int, NEW a \in Ladder!Attempts
    PROVE  LET G == Ladder!PlacementFigures(figs, b, o, s, t, a)
           IN  /\ G \in [Blocks -> Ladder!Figures]
               /\ \A c \in Blocks : Moves(figs[c], G[c], 0, 0, 0,
                                          Bit(b = c /\ a \in Eligible /\ o = "placed"))
  <1> DEFINE f == Ladder!CountPlacement(figs[b], o, s)
             K == [figs EXCEPT ![b] = f]
             g == Ladder!CountSuccess(K[b], s, t)
             S == [K EXCEPT ![b] = g]
             G == Ladder!PlacementFigures(figs, b, o, s, t, a)
  <1>1. /\ a \notin Eligible => G = K
        /\ a \in Eligible /\ o # "placed" => G = Ladder!recordExampleAttempt(K, b, a)
        /\ a \in Eligible /\ o = "placed" => G = Ladder!recordExampleAttempt(S, b, a)
    BY DEF Ladder!PlacementFigures
  <1> HIDE DEF G
  <1>2. f \in Ladder!Figures /\ Moves(figs[b], f, 0, 0, 0, 0)
    BY PlacementCounted
  <1> HIDE DEF f
  <1>3. K \in [Blocks -> Ladder!Figures] /\ K[b] = f BY <1>2
  <1>4. \A c \in Blocks : Moves(figs[c], K[c], 0, 0, 0, 0)
    BY <1>2, NothingMoves DEF Bit
  <1> HIDE DEF K
  <1>5. g \in Ladder!Figures /\ Moves(K[b], g, 0, 0, 0, 1) BY <1>3, SuccessCounted
  <1> HIDE DEF g
  <1>6. S \in [Blocks -> Ladder!Figures] BY <1>3, <1>5
  <1>7. \A c \in Blocks : Moves(K[c], S[c], 0, 0, 0, Bit(b = c))
    BY <1>3, <1>5, NothingMoves DEF Bit
  <1> HIDE DEF S
  <1>8. ASSUME NEW c \in Blocks
        PROVE  Moves(figs[c], S[c], 0, 0, 0, Bit(b = c))
    <2>1. Bit(b = c) \in Int BY DEF Bit
    <2>2. Moves(figs[c], S[c], 0 + 0, 0 + 0, 0 + 0, 0 + Bit(b = c))
      BY <1>3, <1>4, <1>6, <1>7, <2>1, MovesAddUp
    <2> QED BY <2>1, <2>2
  <1>9. CASE a \notin Eligible
    <2>1. \A c \in Blocks : Bit(b = c /\ a \in Eligible /\ o = "placed") = 0 BY <1>9 DEF Bit
    <2> QED BY <1>1, <1>3, <1>4, <1>9, <2>1 DEF G
  <1>10. CASE a \in Eligible
    <2> DEFINE F == IF o = "placed" THEN S ELSE K
    <2>1. G = Ladder!recordExampleAttempt(F, b, a) BY <1>1, <1>10
    <2>2. F \in [Blocks -> Ladder!Figures] BY <1>3, <1>6
    <2>3. ASSUME NEW c \in Blocks
          PROVE  Moves(figs[c], F[c], 0, 0, 0,
                       Bit(b = c /\ a \in Eligible /\ o = "placed"))
      BY <1>4, <1>8, <1>10 DEF Bit
    <2> HIDE DEF F
    <2>4. G \in [Blocks -> Ladder!Figures] /\ \A c \in Blocks : Moves(F[c], G[c], 0, 0, 0, 0)
      BY <2>1, <2>2, ExampleEffect
    <2>5. ASSUME NEW c \in Blocks
          PROVE  Moves(figs[c], G[c], 0, 0, 0,
                       Bit(b = c /\ a \in Eligible /\ o = "placed"))
      <3> DEFINE w == Bit(b = c /\ a \in Eligible /\ o = "placed")
      <3>1. w \in Int BY DEF Bit
      <3>2. Moves(figs[c], F[c], 0, 0, 0, w) BY <2>3
      <3> HIDE DEF w
      <3>3. Moves(figs[c], G[c], 0 + 0, 0 + 0, 0 + 0, w + 0)
        BY <2>2, <2>4, <3>1, <3>2, MovesAddUp
      <3>4. Moves(figs[c], G[c], 0, 0, 0, w) BY <3>1, <3>3
      <3> QED BY <3>4 DEF w
    <2> QED BY <2>4, <2>5 DEF G
  <1> QED BY <1>9, <1>10 DEF G

\* What IInv says of one block.
AccountFor(b) ==
    /\ Climbed(bk[b].ladder) + bk[b].never + Cardinality(Ladder!Trying(b)) = seen.begun[b]
    /\ seen.closed[b] + bk[b].incomplete + Cardinality(Ladder!Holding(b)) = seen.takes[b]
    /\ bk[b].hints + Cardinality(Ladder!Blamed(b)) <= seen.falls[b]
    /\ Len(bk[b].tries) = Climbed(bk[b].ladder) /\ Len(bk[b].times) <= Len(bk[b].tries)
    /\ Len(bk[b].examples) <= MaxExamples

\* IInv, block by block: samples of time are not negative by their type.
LEMMA IInvByBlock ==
    Ladder!IInv <=> /\ Ladder!TypeOK /\ \A a \in Ladder!Attempts : Ladder!Begun(st[a])
                    /\ \A b \in Blocks : AccountFor(b)
  <1> SUFFICES ASSUME Ladder!TypeOK
               PROVE  (/\ Ladder!LadderAccountsForEveryChain /\ Ladder!TakesAccountedFor
                       /\ Ladder!FallsCoverBlame /\ Ladder!SamplesMatchLadder)
                      <=> \A b \in Blocks : AccountFor(b)
    BY DEF Ladder!IInv
  <1>1. DOMAIN bk = Blocks BY DEF Ladder!TypeOK
  <1>2. \A b \in Blocks : \A i \in DOMAIN bk[b].times : bk[b].times[i] >= 0
    <2> TAKE b \in Blocks
    <2>1. bk[b] \in Ladder!Figures BY DEF Ladder!TypeOK
    <2>2. bk[b].times \in Seq(Nat) BY <2>1 DEF Ladder!Figures
    <2> QED BY <2>2
  <1>3. Ladder!LadderAccountsForEveryChain <=>
          \A b \in Blocks : Climbed(bk[b].ladder) + bk[b].never + Cardinality(Ladder!Trying(b))
                             = seen.begun[b]
    BY <1>1, LadderSets DEF Ladder!LadderAccountsForEveryChain, Ladder!LadderSamples, Ladder!Rungs, Climbed
  <1>4. Ladder!TakesAccountedFor <=>
          \A b \in Blocks : seen.closed[b] + bk[b].incomplete + Cardinality(Ladder!Holding(b))
                             = seen.takes[b]
    BY <1>1, LadderSets DEF Ladder!TakesAccountedFor
  <1>5. Ladder!FallsCoverBlame <=>
          \A b \in Blocks : bk[b].hints + Cardinality(Ladder!Blamed(b)) <= seen.falls[b]
    BY LadderSets DEF Ladder!FallsCoverBlame
  <1>6. Ladder!SamplesMatchLadder <=>
          \A b \in Blocks : /\ Len(bk[b].tries) = Climbed(bk[b].ladder)
                             /\ Len(bk[b].times) <= Len(bk[b].tries)
                             /\ Len(bk[b].examples) <= MaxExamples
    BY <1>1, <1>2, Zenon DEF Ladder!SamplesMatchLadder, Ladder!Rungs, Climbed
  <1> QED BY <1>3, <1>4, <1>5, <1>6, Zenon DEF AccountFor

\* Attempts are finitely many.
LEMMA FiniteAttempts == Ladder!Configured => IsFiniteSet(Ladder!Attempts) /\ IsFiniteSet(Eligible)
  <1> SUFFICES ASSUME Ladder!Configured PROVE IsFiniteSet(Ladder!Attempts) /\ IsFiniteSet(Eligible) OBVIOUS
  <1>1. 1 \in Int /\ NumAttempts \in Int BY DEF Ladder!Configured
  <1>2. IsFiniteSet(Ladder!Attempts) BY <1>1, FS_Interval DEF Ladder!Attempts
  <1> QED BY <1>2, FS_Subset DEF Ladder!Configured

\* What a step moves at block b balances what the rows said and how the chain of
\* the current attempt changes to s.
Balances(b, s, n, i, h, l, w) ==
    /\ n \in Int /\ i \in Int /\ h \in Int /\ l \in Int /\ w \in Int
    /\ seen'.begun[b] \in Int /\ seen'.takes[b] \in Int /\ seen'.closed[b] \in Int
    /\ seen'.falls[b] = seen.falls[b] + l
    /\ seen'.begun[b] + Bit(cur \in Eligible /\ st[cur].active = b)
         = seen.begun[b] + n + w + Bit(cur \in Eligible /\ s.active = b)
    /\ seen'.takes[b] + seen.closed[b] + Bit(cur \in Eligible /\ st[cur].active = b /\ st[cur].open)
         = seen.takes[b] + seen'.closed[b] + i + Bit(cur \in Eligible /\ s.active = b /\ s.open)
    /\ h + Bit(s.lastFailed = b) <= l + Bit(st[cur].lastFailed = b)

\* A step that changes the chain of the current attempt to s keeps the accounts
\* of block b if what it moves balances.
LEMMA BalancePreserves ==
    ASSUME Ladder!Configured, Ladder!TypeOK, cur \in Ladder!Attempts, NEW s \in Ladder!Chain, st' = [st EXCEPT ![cur] = s],
           NEW b \in Blocks, AccountFor(b), bk'[b] \in Ladder!Figures,
           NEW n, NEW i, NEW h, NEW l, NEW w,
           Moves(bk[b], bk'[b], n, i, h, w), Balances(b, s, n, i, h, l, w)
    PROVE  AccountFor(b)'
  <1>1. IsFiniteSet(Ladder!Attempts) /\ IsFiniteSet(Eligible) /\ Eligible \subseteq Ladder!Attempts
    BY FiniteAttempts DEF Ladder!Configured
  <1>2. st \in [Ladder!Attempts -> Ladder!Chain] /\ bk \in [Blocks -> Ladder!Figures]
    BY DEF Ladder!TypeOK
  <1>3. st'[cur] = s /\ \A a \in Ladder!Attempts : a # cur => st'[a] = st[a] BY <1>2
  <1>4. /\ Cardinality(Ladder!Trying(b)) \in Nat /\ Cardinality(Ladder!Trying(b)') \in Nat
        /\ Cardinality(Ladder!Trying(b)') + Bit(cur \in Eligible /\ st[cur].active = b)
             = Cardinality(Ladder!Trying(b)) + Bit(cur \in Eligible /\ s.active = b)
    <2> DEFINE C == Ladder!Trying(b)
               D == Ladder!Trying(b)'
    <2>1. C \in SUBSET Eligible /\ D \in SUBSET Eligible BY DEF Ladder!Trying
    <2>2. C \ {cur} = D \ {cur} BY <1>1, <1>3 DEF Ladder!Trying
    <2>3. /\ cur \in C <=> cur \in Eligible /\ st[cur].active = b
          /\ cur \in D <=> cur \in Eligible /\ s.active = b
      BY <1>3 DEF Ladder!Trying
    <2> HIDE DEF C, D
    <2>4. /\ Cardinality(C) \in Nat /\ Cardinality(D) \in Nat
          /\ Cardinality(D) + Bit(cur \in C) = Cardinality(C) + Bit(cur \in D)
      BY <1>1, <2>1, <2>2, OneMoves
    <2> QED BY <2>3, <2>4 DEF C, D, Bit
  <1>5. /\ Cardinality(Ladder!Holding(b)) \in Nat /\ Cardinality(Ladder!Holding(b)') \in Nat
        /\ Cardinality(Ladder!Holding(b)') + Bit(cur \in Eligible /\ st[cur].active = b /\ st[cur].open)
             = Cardinality(Ladder!Holding(b)) + Bit(cur \in Eligible /\ s.active = b /\ s.open)
    <2> DEFINE C == Ladder!Holding(b)
               D == Ladder!Holding(b)'
    <2>1. C \in SUBSET Eligible /\ D \in SUBSET Eligible BY DEF Ladder!Holding
    <2>2. C \ {cur} = D \ {cur} BY <1>1, <1>3 DEF Ladder!Holding
    <2>3. /\ cur \in C <=> cur \in Eligible /\ st[cur].active = b /\ st[cur].open
          /\ cur \in D <=> cur \in Eligible /\ s.active = b /\ s.open
      BY <1>3 DEF Ladder!Holding
    <2> HIDE DEF C, D
    <2>4. /\ Cardinality(C) \in Nat /\ Cardinality(D) \in Nat
          /\ Cardinality(D) + Bit(cur \in C) = Cardinality(C) + Bit(cur \in D)
      BY <1>1, <2>1, <2>2, OneMoves
    <2> QED BY <2>3, <2>4 DEF C, D, Bit
  <1>6. /\ Cardinality(Ladder!Blamed(b)) \in Nat /\ Cardinality(Ladder!Blamed(b)') \in Nat
        /\ Cardinality(Ladder!Blamed(b)') + Bit(st[cur].lastFailed = b) = Cardinality(Ladder!Blamed(b)) + Bit(s.lastFailed = b)
    <2> DEFINE C == Ladder!Blamed(b)
               D == Ladder!Blamed(b)'
    <2>1. C \in SUBSET Ladder!Attempts /\ D \in SUBSET Ladder!Attempts BY DEF Ladder!Blamed
    <2>2. C \ {cur} = D \ {cur} BY <1>3 DEF Ladder!Blamed
    <2>3. (cur \in C <=> st[cur].lastFailed = b) /\ (cur \in D <=> s.lastFailed = b)
      BY <1>3 DEF Ladder!Blamed
    <2> HIDE DEF C, D
    <2>4. /\ Cardinality(C) \in Nat /\ Cardinality(D) \in Nat
          /\ Cardinality(D) + Bit(cur \in C) = Cardinality(C) + Bit(cur \in D)
      BY <1>1, <2>1, <2>2, OneMoves
    <2> QED BY <2>3, <2>4 DEF C, D, Bit
  <1>7. bk[b] \in Ladder!Figures /\ seen.begun[b] \in Nat /\ seen.takes[b] \in Nat /\ seen.closed[b] \in Nat
        /\ seen.falls[b] \in Nat
    BY <1>2 DEF Ladder!TypeOK, Ladder!Histories
  <1>13. /\ n \in Int /\ i \in Int /\ h \in Int /\ l \in Int /\ w \in Int
         /\ seen'.begun[b] \in Int /\ seen'.takes[b] \in Int /\ seen'.closed[b] \in Int
    BY DEF Balances
  <1> DEFINE f == bk[b]
             g == bk'[b]
  <1>8. Climbed(g.ladder) + g.never + Cardinality(Ladder!Trying(b)') = seen'.begun[b]
    <2> DEFINE x == Climbed(f.ladder)
               y == f.never
               z == Cardinality(Ladder!Trying(b)')
               p == Bit(cur \in Eligible /\ st[cur].active = b)
               q == Bit(cur \in Eligible /\ s.active = b)
               u == seen.begun[b]
               v == seen'.begun[b]
    <2>1. x \in Nat /\ y \in Nat /\ p \in {0, 1} /\ q \in {0, 1} /\ u \in Int /\ v \in Int /\ z \in Nat
      <3>1. x \in Nat /\ y \in Nat BY <1>7, FiguresAreNumbers
      <3>2. p \in {0, 1} /\ q \in {0, 1} BY DEF Bit
      <3> QED BY <1>4, <1>7, <1>13, <3>1, <3>2
    <2>2. v + p = u + n + w + q BY DEF Balances
    <2>3. x + y + Cardinality(Ladder!Trying(b)) = u BY DEF AccountFor
    <2>4. z + p = Cardinality(Ladder!Trying(b)) + q /\ Cardinality(Ladder!Trying(b)) \in Nat BY <1>4
    <2>5. Climbed(g.ladder) = x + w /\ g.never = y + n BY DEF Moves
    <2> DEFINE k == Cardinality(Ladder!Trying(b))
    <2> HIDE DEF x, y, z, p, q, u, v, k
    <2>7. /\ x \in Int /\ y \in Int /\ k \in Int /\ z \in Int /\ p \in Int /\ q \in Int
          /\ w \in Int /\ n \in Int
      BY <1>13, <2>1, <2>4 DEF k
    <2>8. x + y + k = u /\ z + p = k + q BY <2>3, <2>4 DEF k
    <2>9. v + p = u + n + w + q BY <2>2
    <2>10. u \in Int /\ v \in Int BY <2>1
    <2>6. (x + w) + (y + n) + z = v BY <2>7, <2>8, <2>9, <2>10
    <2> QED BY <2>5, <2>6 DEF v, z
  <1>9. seen'.closed[b] + g.incomplete + Cardinality(Ladder!Holding(b)') = seen'.takes[b]
    <2> DEFINE y == f.incomplete
               z == Cardinality(Ladder!Holding(b)')
               p == Bit(cur \in Eligible /\ st[cur].active = b /\ st[cur].open)
               q == Bit(cur \in Eligible /\ s.active = b /\ s.open)
               u == seen.takes[b]
               v == seen'.takes[b]
               c == seen.closed[b]
               d == seen'.closed[b]
    <2>1. /\ y \in Nat /\ p \in {0, 1} /\ q \in {0, 1} /\ z \in Nat
          /\ u \in Int /\ v \in Int /\ c \in Int /\ d \in Int
      <3>1. y \in Nat BY <1>7, FiguresAreNumbers
      <3>2. p \in {0, 1} /\ q \in {0, 1} BY DEF Bit
      <3> QED BY <1>5, <1>7, <1>13, <3>1, <3>2
    <2>2. v + c + p = u + d + i + q BY DEF Balances
    <2>3. c + y + Cardinality(Ladder!Holding(b)) = u BY DEF AccountFor
    <2>4. z + p = Cardinality(Ladder!Holding(b)) + q /\ Cardinality(Ladder!Holding(b)) \in Nat
      BY <1>5
    <2>5. g.incomplete = y + i BY DEF Moves
    <2> DEFINE k == Cardinality(Ladder!Holding(b))
    <2> HIDE DEF y, z, p, q, u, v, c, d, k
    <2>7. /\ y \in Int /\ k \in Int /\ z \in Int /\ p \in Int /\ q \in Int /\ i \in Int
      BY <1>13, <2>1, <2>4 DEF k
    <2>8. c + y + k = u /\ z + p = k + q BY <2>3, <2>4 DEF k
    <2>9. v + c + p = u + d + i + q BY <2>2
    <2>10. c \in Int /\ d \in Int /\ u \in Int /\ v \in Int BY <2>1
    <2>6. d + (y + i) + z = v BY <2>7, <2>8, <2>9, <2>10
    <2> QED BY <2>5, <2>6 DEF v, z, d
  <1>10. g.hints + Cardinality(Ladder!Blamed(b)') <= seen'.falls[b]
    <2> DEFINE x == seen.falls[b]
               y == f.hints
               z == Cardinality(Ladder!Blamed(b)')
               p == Bit(st[cur].lastFailed = b)
               q == Bit(s.lastFailed = b)
    <2>1. x \in Nat /\ y \in Nat /\ z \in Nat /\ p \in {0, 1} /\ q \in {0, 1}
      BY <1>6, <1>7, FiguresAreNumbers DEF Bit
    <2>2. h + q <= l + p /\ seen'.falls[b] = x + l BY DEF Balances
    <2>3. y + Cardinality(Ladder!Blamed(b)) <= x BY DEF AccountFor
    <2>4. z + p = Cardinality(Ladder!Blamed(b)) + q /\ Cardinality(Ladder!Blamed(b)) \in Nat BY <1>6
    <2>5. g.hints = y + h BY DEF Moves
    <2> HIDE DEF x, y, z, p, q
    <2>6. (y + h) + z <= x + l BY <1>13, <2>1, <2>2, <2>3, <2>4
    <2> QED BY <2>2, <2>5, <2>6 DEF z
  <1>11. Len(g.tries) = Climbed(g.ladder) /\ Len(g.times) <= Len(g.tries)
    <2> DEFINE x == Len(f.tries)
               y == Len(f.times)
               z == Len(g.times)
    <2>1. x \in Nat /\ y \in Nat /\ z \in Nat BY <1>7, FiguresAreNumbers
    <2>2. Climbed(f.ladder) = x /\ y <= x BY DEF AccountFor
    <2>3. Climbed(g.ladder) = Climbed(f.ladder) + w /\ Len(g.tries) = x + w /\ z <= y + w BY DEF Moves
    <2> HIDE DEF x, y, z
    <2>4. z <= x + w BY <1>13, <2>1, <2>2, <2>3
    <2> QED BY <2>2, <2>3, <2>4 DEF z
  <1>12. Len(g.examples) <= MaxExamples BY DEF AccountFor, Moves
  <1> QED BY <1>8, <1>9, <1>10, <1>11, <1>12 DEF AccountFor

\* A step of the current attempt that leaves a proper chain and keeps the accounts.
LEMMA RowPreserves ==
    ASSUME Ladder!IInv, NEW s \in Ladder!Chain, Ladder!Begun(s), st' = [st EXCEPT ![cur] = s],
           bk' \in [Blocks -> Ladder!Figures], wv' \in [Waves -> Ladder!WaveFigures], seen' \in Ladder!Histories,
           cur' \in 1..(NumAttempts + 1), done' \in BOOLEAN, ~done' => cur' \in Ladder!Attempts,
           \A b \in Blocks : AccountFor(b)'
    PROVE  Ladder!IInv'
  <1>1. Ladder!TypeOK /\ \A a \in Ladder!Attempts : Ladder!Begun(st[a]) BY DEF Ladder!IInv
  <1>2. st' \in [Ladder!Attempts -> Ladder!Chain] BY <1>1 DEF Ladder!TypeOK
  <1>3. \A a \in Ladder!Attempts : Ladder!Begun(st'[a]) BY <1>1 DEF Ladder!TypeOK
  <1>4. Ladder!TypeOK' BY <1>2 DEF Ladder!TypeOK
  <1>5. (\A a \in Ladder!Attempts : Ladder!Begun(st[a]))' BY <1>3 DEF Ladder!Begun
  <1>6. (\A b \in Blocks : AccountFor(b))' OBVIOUS
  <1> QED BY <1>4, <1>5, <1>6, IInvByBlock, PTL

\* A chain that was flushed is over, and blames nothing new.
LEMMA FlushedChain ==
    ASSUME Ladder!Configured, NEW s \in Ladder!Chain
    PROVE  /\ Ladder!FlushState(s) \in Ladder!Chain /\ Ladder!FlushState(s).active = NoBlock
           /\ Ladder!FlushState(s).lastFailed \in {s.lastFailed, NoBlock} /\ Ladder!Begun(Ladder!FlushState(s))
           /\ Ladder!NoChain \in Ladder!Chain /\ Ladder!Begun(Ladder!NoChain) /\ Ladder!NoChain.active = NoBlock
           /\ Ladder!NoChain.lastFailed = NoBlock /\ Ladder!NoChain.open = FALSE
  <1>1. /\ Ladder!NoChain \in Ladder!Chain /\ Ladder!NoChain.active = NoBlock /\ Ladder!NoChain.lastFailed = NoBlock
        /\ Ladder!NoChain.open = FALSE
    BY DEF Ladder!NoChain, Ladder!Chain
  <1>2. \A c : c.active = NoBlock => Ladder!Begun(c) BY DEF Ladder!Begun
  <1> QED BY <1>1, <1>2 DEF Ladder!FlushState

\* What IInv says of the current attempt.
LEMMA CurrentFacts ==
    ASSUME Ladder!Configured, Ladder!IInv, cur \in Ladder!Attempts
    PROVE  /\ st[cur] \in Ladder!Chain /\ Ladder!Begun(st[cur]) /\ bk \in [Blocks -> Ladder!Figures] /\ seen \in Ladder!Histories
           /\ wv \in [Waves -> Ladder!WaveFigures]
           /\ st[cur].tries \in Nat /\ st[cur].takenAt \in Int /\ st[cur].open \in BOOLEAN
           /\ st[cur].active \in Blocks \cup {NoBlock} /\ st[cur].lastFailed \in Blocks \cup {NoBlock}
           /\ Ladder!TypeOK /\ \A c \in Blocks : AccountFor(c)
           /\ \A c \in Blocks : seen.begun[c] \in Nat /\ seen.takes[c] \in Nat /\ seen.closed[c] \in Nat /\ seen.falls[c] \in Nat
  <1>1. Ladder!TypeOK /\ (\A b \in Blocks : AccountFor(b)) /\ Ladder!Begun(st[cur]) BY IInvByBlock
  <1>2. /\ st[cur] \in Ladder!Chain /\ bk \in [Blocks -> Ladder!Figures] /\ seen \in Ladder!Histories
        /\ wv \in [Waves -> Ladder!WaveFigures]
    BY <1>1 DEF Ladder!TypeOK
  <1>3. /\ st[cur].tries \in Nat /\ st[cur].takenAt \in Int /\ st[cur].open \in BOOLEAN
        /\ st[cur].active \in Blocks \cup {NoBlock} /\ st[cur].lastFailed \in Blocks \cup {NoBlock}
    BY <1>2 DEF Ladder!Chain
  <1>4. \A b \in Blocks : seen.begun[b] \in Nat /\ seen.takes[b] \in Nat /\ seen.closed[b] \in Nat /\ seen.falls[b] \in Nat
    BY <1>2 DEF Ladder!Histories
  <1> QED BY <1>1, <1>2, <1>3, <1>4

\* The final flush of an attempt.
LEMMA FlushPreserves ==
    ASSUME Ladder!Configured, Ladder!IInv, Ladder!FlushAttempt PROVE Ladder!IInv'
  <1> DEFINE s == Ladder!FlushState(st[cur])
  <1>1. cur \in Ladder!Attempts /\ cur' \in 1..(NumAttempts + 1) /\ done' = TRUE
    BY DEF Ladder!FlushAttempt, Ladder!IInv, Ladder!TypeOK, Ladder!Attempts, Ladder!Configured
  <1>2. /\ st[cur] \in Ladder!Chain /\ Ladder!Begun(st[cur]) /\ bk \in [Blocks -> Ladder!Figures] /\ seen \in Ladder!Histories
        /\ wv \in [Waves -> Ladder!WaveFigures]
        /\ Ladder!TypeOK /\ \A c \in Blocks : AccountFor(c)
        /\ \A c \in Blocks : seen.begun[c] \in Nat /\ seen.takes[c] \in Nat /\ seen.closed[c] \in Nat /\ seen.falls[c] \in Nat
    BY <1>1, CurrentFacts
  <1>3. /\ bk' = Ladder!FlushFigures(bk, st[cur], cur) /\ st' = [st EXCEPT ![cur] = s] /\ seen' = seen /\ wv' = wv
    BY DEF Ladder!FlushAttempt
  <1>4. s \in Ladder!Chain /\ s.active = NoBlock /\ s.lastFailed \in {st[cur].lastFailed, NoBlock} /\ Ladder!Begun(s)
    BY <1>2, FlushedChain
  <1> HIDE DEF s
  <1>5. /\ bk' \in [Blocks -> Ladder!Figures]
        /\ \A c \in Blocks : Moves(bk[c], bk'[c], Bit(cur \in Eligible /\ st[cur].active = c),
                                   Bit(cur \in Eligible /\ st[cur].active = c /\ st[cur].open), 0, 0)
    BY <1>1, <1>2, <1>3, FlushEffect
  <1>6. ASSUME NEW c \in Blocks PROVE AccountFor(c)'
    <2> DEFINE p == Bit(cur \in Eligible /\ st[cur].active = c)
               q == Bit(cur \in Eligible /\ st[cur].active = c /\ st[cur].open)
    <2>1. p \in Int /\ q \in Int BY DEF Bit
    <2>2. Bit(cur \in Eligible /\ s.active = c) = 0 /\ Bit(cur \in Eligible /\ s.active = c /\ s.open) = 0
      BY <1>4 DEF Bit, Ladder!Configured
    <2>3. 0 + Bit(s.lastFailed = c) <= 0 + Bit(st[cur].lastFailed = c)
      BY <1>4 DEF Bit, Ladder!Configured
    <2>4. seen'.begun[c] + p = seen.begun[c] + p + 0 + Bit(cur \in Eligible /\ s.active = c)
      <3> HIDE DEF p
      <3> QED BY <1>2, <1>3, <2>1, <2>2
    <2>5. seen'.takes[c] + seen.closed[c] + q
            = seen.takes[c] + seen'.closed[c] + q + Bit(cur \in Eligible /\ s.active = c /\ s.open)
      <3> HIDE DEF q
      <3> QED BY <1>2, <1>3, <2>1, <2>2
    <2>6. /\ seen'.begun[c] \in Int /\ seen'.takes[c] \in Int /\ seen'.closed[c] \in Int
          /\ seen'.falls[c] = seen.falls[c] + 0 /\ bk'[c] \in Ladder!Figures
      BY <1>2, <1>3, <1>5
    <2>7. Moves(bk[c], bk'[c], p, q, 0, 0) BY <1>5
    <2>8. st' = [st EXCEPT ![cur] = s] /\ AccountFor(c) BY <1>2, <1>3
    <2>9. Balances(c, s, p, q, 0, 0, 0) BY <2>1, <2>3, <2>4, <2>5, <2>6 DEF Balances
    <2> QED BY <1>1, <1>2, <1>4, <2>6, <2>7, <2>8, <2>9, BalancePreserves
  <1> QED BY <1>1, <1>2, <1>3, <1>4, <1>5, <1>6, RowPreserves

\* A hint is charged to the block that failed last, which is then forgotten.
LEMMA HintPreserves ==
    ASSUME Ladder!Configured, Ladder!IInv, Ladder!HintUsed PROVE Ladder!IInv'
  <1> DEFINE s == [st[cur] EXCEPT !.lastFailed = NoBlock]
             b == st[cur].lastFailed
  <1>1. cur \in Ladder!Attempts /\ cur' = cur /\ done' = done /\ done = FALSE
    BY DEF Ladder!HintUsed, Ladder!Read, Ladder!IInv, Ladder!TypeOK
  <1>2. /\ st[cur] \in Ladder!Chain /\ Ladder!Begun(st[cur]) /\ bk \in [Blocks -> Ladder!Figures] /\ seen \in Ladder!Histories
        /\ wv \in [Waves -> Ladder!WaveFigures]
        /\ st[cur].tries \in Nat /\ st[cur].takenAt \in Int /\ st[cur].open \in BOOLEAN
        /\ st[cur].active \in Blocks \cup {NoBlock} /\ st[cur].lastFailed \in Blocks \cup {NoBlock}
        /\ Ladder!TypeOK /\ \A c \in Blocks : AccountFor(c)
        /\ \A c \in Blocks : seen.begun[c] \in Nat /\ seen.takes[c] \in Nat /\ seen.closed[c] \in Nat /\ seen.falls[c] \in Nat
    BY <1>1, CurrentFacts
  <1>3. bk' = Ladder!applyHintPressure(bk, st[cur]) /\ st' = [st EXCEPT ![cur] = s] /\ seen' = seen /\ wv' = wv
    BY DEF Ladder!HintUsed
  <1>4. /\ s \in Ladder!Chain /\ s.active = st[cur].active /\ s.open = st[cur].open
        /\ s.tries = st[cur].tries /\ s.lastFailed = NoBlock
    BY <1>2 DEF Ladder!Chain
  <1> HIDE DEF s
  <1>5. Ladder!Begun(s) BY <1>2, <1>4 DEF Ladder!Begun
  <1>6. bk' \in [Blocks -> Ladder!Figures] /\ \A c \in Blocks : Moves(bk[c], bk'[c], 0, 0, Bit(b = c), 0)
    <2>1. CASE b = NoBlock
      <3>1. bk' = bk BY <1>3, <2>1 DEF Ladder!applyHintPressure
      <3>2. \A c \in Blocks : Bit(b = c) = 0 BY <2>1 DEF Bit, Ladder!Configured
      <3> QED BY <1>2, <3>1, <3>2, NothingMoves
    <2>2. CASE b # NoBlock
      <3> DEFINE v == bk[b].hints + 1
                 f == [bk[b] EXCEPT !.hints = v]
      <3>1. b \in Blocks /\ bk' = [bk EXCEPT ![b] = f]
        BY <1>2, <1>3, <2>2 DEF Ladder!applyHintPressure
      <3> HIDE DEF b
      <3>2. bk[b] \in Ladder!Figures BY <1>2, <3>1
      <3>3. v \in Nat
        <4>1. bk[b].hints \in Nat BY <3>2, FiguresAreNumbers
        <4> QED BY <4>1
      <3>4. f \in Ladder!Figures
        <4> HIDE DEF v
        <4> QED BY <3>2, <3>3 DEF Ladder!Figures
      <3>5. /\ f.never = bk[b].never /\ f.incomplete = bk[b].incomplete /\ f.hints = bk[b].hints + 1
            /\ f.noSnap = bk[b].noSnap /\ f.missing = bk[b].missing /\ f.ladder = bk[b].ladder
            /\ f.tries = bk[b].tries /\ f.times = bk[b].times /\ f.examples = bk[b].examples
        BY <3>2 DEF Ladder!Figures
      <3> HIDE DEF f
      <3>6. Moves(bk[b], bk[b], 0, 0, 0, 0) BY <3>2, NothingMoves
      <3>7. Moves(bk[b], f, 0, 0, 1, 0) BY <3>5, <3>6, Zenon DEF Moves
      <3>8. bk' \in [Blocks -> Ladder!Figures] BY <1>2, <3>1, <3>4
      <3>9. \A c \in Blocks : Moves(bk[c], bk'[c], 0, 0, Bit(b = c), 0)
        BY <1>2, <3>1, <3>7, NothingMoves DEF Bit
      <3> QED BY <3>8, <3>9
    <2> QED BY <2>1, <2>2
  <1>7. ASSUME NEW c \in Blocks PROVE AccountFor(c)'
    <2> DEFINE h == Bit(b = c)
    <2>1. h \in Int BY DEF Bit
    <2>2. h + Bit(s.lastFailed = c) <= 0 + Bit(b = c) BY <1>4 DEF Bit, Ladder!Configured
    <2>3. /\ seen'.begun[c] + Bit(cur \in Eligible /\ st[cur].active = c)
               = seen.begun[c] + 0 + 0 + Bit(cur \in Eligible /\ s.active = c)
          /\ seen'.takes[c] + seen.closed[c] + Bit(cur \in Eligible /\ st[cur].active = c /\ st[cur].open)
               = seen.takes[c] + seen'.closed[c] + 0 + Bit(cur \in Eligible /\ s.active = c /\ s.open)
      BY <1>2, <1>3, <1>4
    <2>4. /\ seen'.begun[c] \in Int /\ seen'.takes[c] \in Int /\ seen'.closed[c] \in Int
          /\ seen'.falls[c] = seen.falls[c] + 0
      BY <1>2, <1>3
    <2>5. Balances(c, s, 0, 0, h, 0, 0) BY <2>1, <2>2, <2>3, <2>4 DEF Balances
    <2>6. bk'[c] \in Ladder!Figures /\ Moves(bk[c], bk'[c], 0, 0, h, 0) BY <1>6
    <2>7. st' = [st EXCEPT ![cur] = s] /\ AccountFor(c) BY <1>2, <1>3
    <2> QED BY <1>1, <1>2, <1>4, <2>5, <2>6, <2>7, BalancePreserves
  <1>8. cur \in 1..(NumAttempts + 1) BY <1>1 DEF Ladder!Attempts, Ladder!Configured
  <1> QED BY <1>1, <1>2, <1>3, <1>4, <1>5, <1>6, <1>7, <1>8, RowPreserves

\* An interaction that is abandoned ends the open take of its chain.
LEMMA AbandonPreserves ==
    ASSUME Ladder!Configured, Ladder!IInv, Ladder!InteractionAbandoned PROVE Ladder!IInv'
  <1> DEFINE ends == st[cur].active # NoBlock /\ st[cur].open
             o == [st[cur] EXCEPT !.open = FALSE, !.takenAt = -1, !.tries = @ + 1]
             s == IF ends THEN o ELSE st[cur]
             b == st[cur].active
             I(c) == Bit(ends /\ cur \in Eligible /\ b = c)
  <1>1. cur \in Ladder!Attempts /\ cur' = cur /\ done' = done /\ done = FALSE
    BY DEF Ladder!InteractionAbandoned, Ladder!Read, Ladder!IInv, Ladder!TypeOK
  <1>2. /\ st[cur] \in Ladder!Chain /\ Ladder!Begun(st[cur]) /\ bk \in [Blocks -> Ladder!Figures] /\ seen \in Ladder!Histories
        /\ wv \in [Waves -> Ladder!WaveFigures]
        /\ st[cur].tries \in Nat /\ st[cur].takenAt \in Int /\ st[cur].open \in BOOLEAN
        /\ st[cur].active \in Blocks \cup {NoBlock} /\ st[cur].lastFailed \in Blocks \cup {NoBlock}
        /\ Ladder!TypeOK /\ \A c \in Blocks : AccountFor(c)
        /\ \A c \in Blocks : seen.begun[c] \in Nat /\ seen.takes[c] \in Nat /\ seen.closed[c] \in Nat /\ seen.falls[c] \in Nat
    BY <1>1, CurrentFacts
  <1>3. /\ bk' = IF ends /\ cur \in Eligible THEN Ladder!CountIncomplete(bk, b, cur) ELSE bk
        /\ st' = [st EXCEPT ![cur] = s] /\ seen' = seen /\ wv' = wv
    BY <1>2 DEF Ladder!InteractionAbandoned, Ladder!TypeOK
  <1>4. /\ o \in Ladder!Chain /\ o.active = b /\ o.open = FALSE /\ o.tries = st[cur].tries + 1
        /\ o.lastFailed = st[cur].lastFailed
    <2> DEFINE v == st[cur].tries + 1
    <2>1. v \in Nat BY <1>2
    <2> HIDE DEF v
    <2>2. o = [st[cur] EXCEPT !.open = FALSE, !.takenAt = -1, !.tries = v] BY DEF v
    <2> HIDE DEF o
    <2>4. -1 \in Int OBVIOUS
    <2>5. o \in Ladder!Chain BY <1>2, <2>1, <2>2, <2>4 DEF Ladder!Chain
    <2>3. /\ o.active = b /\ o.open = FALSE /\ o.tries = v /\ o.lastFailed = st[cur].lastFailed
      BY <1>2, <2>2 DEF Ladder!Chain
    <2> QED BY <2>3, <2>5 DEF v
  <1> HIDE DEF o
  <1>5. /\ s \in Ladder!Chain /\ s.active = b /\ s.lastFailed = st[cur].lastFailed
        /\ s.open = IF ends THEN FALSE ELSE st[cur].open
    BY <1>2, <1>4
  <1>6. Ladder!Begun(s)
    <2>1. CASE ends BY <1>2, <1>4, <2>1 DEF Ladder!Begun
    <2>2. CASE ~ends BY <1>2, <2>2
    <2> QED BY <2>1, <2>2
  <1> HIDE DEF s
  <1>7. bk' \in [Blocks -> Ladder!Figures] /\ \A c \in Blocks : Moves(bk[c], bk'[c], 0, I(c), 0, 0)
    <2>1. CASE ends /\ cur \in Eligible
      <3>1. b \in Blocks /\ bk' = Ladder!CountIncomplete(bk, b, cur) BY <1>2, <1>3, <2>1
      <3>2. \A c \in Blocks : I(c) = Bit(b = c) BY <2>1 DEF Bit
      <3> HIDE DEF b
      <3>3. bk' \in [Blocks -> Ladder!Figures] /\ \A c \in Blocks : Moves(bk[c], bk'[c], 0, Bit(b = c), 0, 0)
        BY <1>1, <1>2, <3>1, IncompleteEffect
      <3> QED BY <3>2, <3>3
    <2>2. CASE ~(ends /\ cur \in Eligible)
      <3>1. bk' = bk BY <1>3, <2>2
      <3>2. \A c \in Blocks : I(c) = 0 BY <2>2 DEF Bit
      <3> QED BY <1>2, <3>1, <3>2, NothingMoves
    <2> QED BY <2>1, <2>2
  <1>8. ASSUME NEW c \in Blocks PROVE AccountFor(c)'
    <2>1. I(c) \in Int BY DEF Bit
    <2>2. 0 + Bit(s.lastFailed = c) <= 0 + Bit(st[cur].lastFailed = c) BY <1>5 DEF Bit
    <2>3. seen'.begun[c] + Bit(cur \in Eligible /\ st[cur].active = c)
            = seen.begun[c] + 0 + 0 + Bit(cur \in Eligible /\ s.active = c)
      BY <1>2, <1>3, <1>5
    <2>4. Bit(cur \in Eligible /\ st[cur].active = c /\ st[cur].open)
            = I(c) + Bit(cur \in Eligible /\ s.active = c /\ s.open)
      BY <1>2, <1>5 DEF Bit, Ladder!Configured
    <2>5. seen'.takes[c] + seen.closed[c] + Bit(cur \in Eligible /\ st[cur].active = c /\ st[cur].open)
            = seen.takes[c] + seen'.closed[c] + I(c) + Bit(cur \in Eligible /\ s.active = c /\ s.open)
      <3>1. Bit(cur \in Eligible /\ s.active = c /\ s.open) \in Int BY DEF Bit
      <3> HIDE DEF I
      <3> QED BY <1>2, <1>3, <2>1, <2>4, <3>1
    <2>6. /\ seen'.begun[c] \in Int /\ seen'.takes[c] \in Int /\ seen'.closed[c] \in Int
          /\ seen'.falls[c] = seen.falls[c] + 0
      BY <1>2, <1>3
    <2>7. Balances(c, s, 0, I(c), 0, 0, 0) BY <2>1, <2>2, <2>3, <2>5, <2>6 DEF Balances
    <2>8. bk'[c] \in Ladder!Figures /\ Moves(bk[c], bk'[c], 0, I(c), 0, 0) BY <1>7
    <2>9. st' = [st EXCEPT ![cur] = s] /\ AccountFor(c) BY <1>2, <1>3
    <2> QED BY <1>1, <1>2, <1>5, <2>7, <2>8, <2>9, BalancePreserves
  <1>9. cur \in 1..(NumAttempts + 1) BY <1>1 DEF Ladder!Attempts, Ladder!Configured
  <1> QED BY <1>1, <1>2, <1>3, <1>5, <1>6, <1>7, <1>8, <1>9, RowPreserves

\* A block is taken: the chain of another block is over, a take of this one that
\* was open is incomplete.
LEMMA TakePreserves ==
    ASSUME Ladder!Configured, Ladder!IInv, NEW b \in Blocks, NEW t \in Elapsed, Ladder!DetailTaken(b, t) PROVE Ladder!IInv'
  <1> DEFINE r == st[cur]
             again == r.active = b /\ r.open
             kept == IF r.active = b THEN r ELSE Ladder!FlushState(r)
             v == IF again THEN kept.tries + 1 ELSE kept.tries
             s == [kept EXCEPT !.tries = v, !.active = b, !.takenAt = t, !.open = TRUE]
             el == cur \in Eligible
             N(c) == Bit(r.active # b /\ el /\ r.active = c)
             I(c) == Bit(el /\ r.active = c /\ r.open)
  <1>1. cur \in Ladder!Attempts /\ cur' = cur /\ done' = done /\ done = FALSE
    BY DEF Ladder!DetailTaken, Ladder!Read, Ladder!IInv, Ladder!TypeOK
  <1>2. /\ st[cur] \in Ladder!Chain /\ Ladder!Begun(st[cur]) /\ bk \in [Blocks -> Ladder!Figures] /\ seen \in Ladder!Histories
        /\ wv \in [Waves -> Ladder!WaveFigures]
        /\ st[cur].tries \in Nat /\ st[cur].takenAt \in Int /\ st[cur].open \in BOOLEAN
        /\ st[cur].active \in Blocks \cup {NoBlock} /\ st[cur].lastFailed \in Blocks \cup {NoBlock}
        /\ Ladder!TypeOK /\ \A c \in Blocks : AccountFor(c)
        /\ \A c \in Blocks : seen.begun[c] \in Nat /\ seen.takes[c] \in Nat /\ seen.closed[c] \in Nat /\ seen.falls[c] \in Nat
    BY <1>1, CurrentFacts
  <1>3. /\ bk' = IF r.active # b THEN Ladder!FlushFigures(bk, r, cur)
                ELSE IF again /\ cur \in Eligible THEN Ladder!CountIncomplete(bk, b, cur) ELSE bk
        /\ st' = [st EXCEPT ![cur] = s]
        /\ seen' = [seen EXCEPT !.begun[b] = @ + Ladder!Began(r, b, cur),
                                !.takes[b] = IF cur \in Eligible THEN @ + 1 ELSE @]
        /\ wv' = wv
    BY DEF Ladder!DetailTaken
  <1>4. t \in Int BY DEF Ladder!Configured
  <1>5. kept \in Ladder!Chain /\ kept.lastFailed \in {r.lastFailed, NoBlock} BY <1>2, FlushedChain
  <1>6. v \in Nat
    <2>1. kept.tries \in Nat BY <1>5 DEF Ladder!Chain
    <2> HIDE DEF kept
    <2> QED BY <2>1
  <1>7. s \in Ladder!Chain /\ s.active = b /\ s.open = TRUE /\ s.lastFailed = kept.lastFailed
    <2> HIDE DEF kept, v
    <2> QED BY <1>4, <1>5, <1>6 DEF Ladder!Chain
  <1>8. s.lastFailed \in {r.lastFailed, NoBlock} /\ Ladder!Begun(s) BY <1>5, <1>7 DEF Ladder!Begun
  <1> HIDE DEF s, kept, v
  <1>9. bk' \in [Blocks -> Ladder!Figures] /\ \A c \in Blocks : Moves(bk[c], bk'[c], N(c), I(c), 0, 0)
    <2>1. CASE r.active # b
      <3>1. bk' = Ladder!FlushFigures(bk, r, cur) BY <1>3, <2>1
      <3>2. \A c \in Blocks : N(c) = Bit(cur \in Eligible /\ r.active = c) BY <2>1 DEF Bit
      <3>3. /\ bk' \in [Blocks -> Ladder!Figures]
            /\ \A c \in Blocks : Moves(bk[c], bk'[c], Bit(cur \in Eligible /\ r.active = c),
                                       Bit(cur \in Eligible /\ r.active = c /\ r.open), 0, 0)
        BY <1>1, <1>2, <3>1, FlushEffect
      <3> QED BY <3>2, <3>3
    <2>2. CASE r.active = b /\ again /\ el
      <3>1. bk' = Ladder!CountIncomplete(bk, b, cur) BY <1>3, <2>2
      <3>2. \A c \in Blocks : N(c) = 0 /\ I(c) = Bit(b = c) BY <2>2 DEF Bit
      <3>3. bk' \in [Blocks -> Ladder!Figures] /\ \A c \in Blocks : Moves(bk[c], bk'[c], 0, Bit(b = c), 0, 0)
        BY <1>1, <1>2, <3>1, IncompleteEffect
      <3> QED BY <3>2, <3>3
    <2>3. CASE r.active = b /\ ~(again /\ el)
      <3>1. bk' = bk BY <1>3, <2>3
      <3>2. \A c \in Blocks : N(c) = 0 /\ I(c) = 0 BY <2>3 DEF Bit
      <3> QED BY <1>2, <3>1, <3>2, NothingMoves
    <2> QED BY <2>1, <2>2, <2>3
  <1>10. /\ seen' \in Ladder!Histories
         /\ \A c \in Blocks : /\ seen'.begun[c] = seen.begun[c] + Bit(b = c /\ r.active # b /\ el)
                              /\ seen'.takes[c] = seen.takes[c] + Bit(b = c /\ el)
                              /\ seen'.closed[c] = seen.closed[c] /\ seen'.falls[c] = seen.falls[c] + 0
    <2> DEFINE x == [seen.begun EXCEPT ![b] = @ + Ladder!Began(r, b, cur)]
               y == [seen.takes EXCEPT ![b] = IF cur \in Eligible THEN @ + 1 ELSE @]
    <2>1. /\ seen.begun \in [Blocks -> Nat] /\ seen.takes \in [Blocks -> Nat] /\ seen.closed \in [Blocks -> Nat]
          /\ seen.falls \in [Blocks -> Nat]
      BY <1>2 DEF Ladder!Histories
    <2>2. seen' = [seen EXCEPT !.begun = x, !.takes = y] BY <1>3
    <2>3. Ladder!Began(r, b, cur) = Bit(r.active # b /\ el) /\ Ladder!Began(r, b, cur) \in Nat
      BY DEF Ladder!Began, Bit
    <2>4. x \in [Blocks -> Nat] /\ \A c \in Blocks : x[c] = seen.begun[c] + Bit(b = c /\ r.active # b /\ el)
      BY <2>1, <2>3 DEF Bit
    <2>5. y \in [Blocks -> Nat] /\ \A c \in Blocks : y[c] = seen.takes[c] + Bit(b = c /\ el)
      BY <2>1 DEF Bit
    <2> HIDE DEF x, y
    <2>6. /\ seen' \in Ladder!Histories /\ seen'.begun = x /\ seen'.takes = y
          /\ seen'.closed = seen.closed /\ seen'.falls = seen.falls
      BY <1>2, <2>2, <2>4, <2>5 DEF Ladder!Histories
    <2>7. \A c \in Blocks : seen.falls[c] = seen.falls[c] + 0 BY <2>1
    <2> QED BY <2>4, <2>5, <2>6, <2>7
  <1>11. ASSUME NEW c \in Blocks PROVE AccountFor(c)'
    <2>1. N(c) \in Int /\ I(c) \in Int BY DEF Bit
    <2>2. 0 + Bit(s.lastFailed = c) <= 0 + Bit(r.lastFailed = c) BY <1>8 DEF Bit, Ladder!Configured
    <2>3. seen'.begun[c] + Bit(cur \in Eligible /\ r.active = c)
            = seen.begun[c] + N(c) + 0 + Bit(cur \in Eligible /\ s.active = c)
      <3>1. seen.begun[c] \in Nat /\ seen'.begun[c] = seen.begun[c] + Bit(b = c /\ r.active # b /\ el)
        BY <1>2, <1>10
      <3> QED BY <1>7, <3>1 DEF Bit
    <2>4. seen'.takes[c] + seen.closed[c] + Bit(cur \in Eligible /\ r.active = c /\ r.open)
            = seen.takes[c] + seen'.closed[c] + I(c) + Bit(cur \in Eligible /\ s.active = c /\ s.open)
      <3>1. /\ seen.takes[c] \in Nat /\ seen.closed[c] \in Nat
            /\ seen'.takes[c] = seen.takes[c] + Bit(b = c /\ el) /\ seen'.closed[c] = seen.closed[c]
        BY <1>2, <1>10
      <3>2. Bit(cur \in Eligible /\ s.active = c /\ s.open) = Bit(b = c /\ el) BY <1>7 DEF Bit
      <3>3. Bit(b = c /\ el) \in Int BY DEF Bit
      <3> QED BY <2>1, <3>1, <3>2, <3>3
    <2>5. /\ seen'.begun[c] \in Int /\ seen'.takes[c] \in Int /\ seen'.closed[c] \in Int
          /\ seen'.falls[c] = seen.falls[c] + 0
      BY <1>10 DEF Ladder!Histories
    <2>6. Balances(c, s, N(c), I(c), 0, 0, 0) BY <2>1, <2>2, <2>3, <2>4, <2>5 DEF Balances
    <2>7. bk'[c] \in Ladder!Figures /\ Moves(bk[c], bk'[c], N(c), I(c), 0, 0) BY <1>9
    <2>8. st' = [st EXCEPT ![cur] = s] /\ AccountFor(c) BY <1>2, <1>3
    <2> QED BY <1>1, <1>2, <1>7, <2>6, <2>7, <2>8, BalancePreserves
  <1>12. cur \in 1..(NumAttempts + 1) BY <1>1 DEF Ladder!Attempts, Ladder!Configured
  <1> QED BY <1>1, <1>2, <1>3, <1>7, <1>8, <1>9, <1>10, <1>11, <1>12, RowPreserves

\* What a placement adds to its wave: an attempt that is not eligible does not enter.
LEMMA WaveEffect ==
    ASSUME NEW b, NEW w \in Waves, NEW o, NEW t, Ladder!PlacementResolved(b, w, o, t), wv \in [Waves -> Ladder!WaveFigures]
    PROVE  /\ wv' \in [Waves -> Ladder!WaveFigures]
           /\ cur \notin Eligible => \A v \in Waves : wv'[v].attempts = wv[v].attempts
  <1> DEFINE x == wv[w].placements + 1
             y == IF o \in Ladder!Fallen THEN wv[w].falls + 1 ELSE wv[w].falls
             z == Ladder!Enters(wv[w].attempts, cur)
             e == [wv[w] EXCEPT !.placements = x, !.falls = y, !.attempts = z]
  <1>1. wv' = [wv EXCEPT ![w] = e]
    <2>1. wv' = [wv EXCEPT ![w] = Ladder!CountInWave(wv[w], o, cur)] BY DEF Ladder!PlacementResolved
    <2>2. Ladder!CountInWave(wv[w], o, cur) = e BY DEF Ladder!CountInWave
    <2> QED BY <2>1, <2>2
  <1>2. wv[w] \in Ladder!WaveFigures OBVIOUS
  <1>3. wv[w].placements \in Nat /\ wv[w].falls \in Nat /\ wv[w].attempts \in SUBSET Eligible
    BY <1>2 DEF Ladder!WaveFigures
  <1>4. x \in Nat BY <1>3
  <1>5. y \in Nat
    <2>1. wv[w].falls + 1 \in Nat BY <1>3
    <2> QED BY <1>3, <2>1
  <1>6. z \in SUBSET Eligible /\ (cur \notin Eligible => z = wv[w].attempts)
    BY <1>3 DEF Ladder!Enters
  <1> HIDE DEF x, y, z
  <1>7. e \in Ladder!WaveFigures /\ e.attempts = z BY <1>2, <1>4, <1>5, <1>6 DEF Ladder!WaveFigures
  <1> HIDE DEF e
  <1>8. wv' \in [Waves -> Ladder!WaveFigures] BY <1>1, <1>7
  <1>9. ASSUME cur \notin Eligible, NEW v \in Waves PROVE wv'[v].attempts = wv[v].attempts
    BY <1>1, <1>6, <1>7, <1>9
  <1> QED BY <1>8, <1>9

\* A placement ends the chain of another block, counts at its own, and ends its
\* own chain if it succeeds.
LEMMA PlacePreserves ==
    ASSUME Ladder!Configured, Ladder!IInv, NEW b \in Blocks, NEW w \in Waves, NEW o \in Ladder!Outcomes, NEW t \in Elapsed,
           Ladder!PlacementResolved(b, w, o, t)
    PROVE  Ladder!IInv'
  <1> DEFINE r == st[cur]
             over == [Ladder!FlushState(r) EXCEPT !.tries = 0, !.takenAt = -1, !.open = FALSE, !.active = b]
             kept == IF r.active = b THEN r ELSE over
             v == kept.tries + 1
             m == IF o \in Ladder!Fallen THEN b ELSE kept.lastFailed
             tried == [kept EXCEPT !.tries = v, !.lastFailed = m]
             left == [tried EXCEPT !.open = FALSE]
             s == IF o = "placed" THEN Ladder!NoChain ELSE left
             F == IF r.active = b THEN bk ELSE Ladder!FlushFigures(bk, r, cur)
             el == cur \in Eligible
             N(c) == Bit(r.active # b /\ el /\ r.active = c)
             I(c) == Bit(r.active # b /\ el /\ r.active = c /\ r.open)
             L(c) == Bit(b = c /\ o \in Ladder!Fallen)
             W(c) == Bit(b = c /\ el /\ o = "placed")
  <1>1. cur \in Ladder!Attempts /\ cur' = cur /\ done' = done /\ done = FALSE
    BY DEF Ladder!PlacementResolved, Ladder!Read, Ladder!IInv, Ladder!TypeOK
  <1>2. /\ st[cur] \in Ladder!Chain /\ Ladder!Begun(st[cur]) /\ bk \in [Blocks -> Ladder!Figures] /\ seen \in Ladder!Histories
        /\ wv \in [Waves -> Ladder!WaveFigures]
        /\ st[cur].tries \in Nat /\ st[cur].takenAt \in Int /\ st[cur].open \in BOOLEAN
        /\ st[cur].active \in Blocks \cup {NoBlock} /\ st[cur].lastFailed \in Blocks \cup {NoBlock}
        /\ Ladder!TypeOK /\ \A c \in Blocks : AccountFor(c)
        /\ \A c \in Blocks : seen.begun[c] \in Nat /\ seen.takes[c] \in Nat /\ seen.closed[c] \in Nat /\ seen.falls[c] \in Nat
    BY <1>1, CurrentFacts
  <1>3. /\ bk' = Ladder!PlacementFigures(F, b, o, tried, t, cur)
        /\ st' = [st EXCEPT ![cur] = s]
        /\ seen' = [seen EXCEPT !.begun[b] = @ + Ladder!Began(r, b, cur),
                      !.closed[b] = IF r.active = b /\ r.open /\ cur \in Eligible THEN @ + 1 ELSE @,
                      !.falls[b] = IF o \in Ladder!Fallen THEN @ + 1 ELSE @]
    BY DEF Ladder!PlacementResolved
  <1>4. t \in Int BY DEF Ladder!Configured
  <1>5. kept \in Ladder!Chain /\ kept.active = b /\ kept.lastFailed \in {r.lastFailed, NoBlock} /\ kept.tries \in Nat
    <2>1. Ladder!FlushState(r) \in Ladder!Chain /\ Ladder!FlushState(r).lastFailed \in {r.lastFailed, NoBlock} BY <1>2, FlushedChain
    <2>2. over \in Ladder!Chain /\ over.active = b /\ over.lastFailed = Ladder!FlushState(r).lastFailed /\ over.tries = 0
      <3>1. -1 \in Int /\ 0 \in Nat OBVIOUS
      <3> QED BY <2>1, <3>1 DEF Ladder!Chain
    <2> HIDE DEF over
    <2> QED BY <1>2, <2>1, <2>2
  <1> HIDE DEF kept
  <1>6. v \in Nat /\ v # 0 /\ m \in Blocks \cup {NoBlock} /\ m \in {b, r.lastFailed, NoBlock}
        /\ (o \notin Ladder!Fallen => m \in {r.lastFailed, NoBlock})
    BY <1>2, <1>5
  <1> HIDE DEF v, m
  <1>7. tried \in Ladder!Chain /\ tried.tries = v /\ tried.active = b /\ tried.lastFailed = m
    BY <1>5, <1>6 DEF Ladder!Chain
  <1> HIDE DEF tried
  <1>8. left \in Ladder!Chain /\ left.tries = v /\ left.active = b /\ left.lastFailed = m /\ left.open = FALSE
    BY <1>7 DEF Ladder!Chain
  <1> HIDE DEF left
  <1>9. /\ Ladder!NoChain \in Ladder!Chain /\ Ladder!Begun(Ladder!NoChain) /\ Ladder!NoChain.active = NoBlock
        /\ Ladder!NoChain.lastFailed = NoBlock /\ Ladder!NoChain.open = FALSE
    BY <1>2, FlushedChain
  <1>10. /\ s \in Ladder!Chain /\ Ladder!Begun(s) /\ s.open = FALSE
         /\ s.active = IF o = "placed" THEN NoBlock ELSE b
         /\ s.lastFailed = IF o = "placed" THEN NoBlock ELSE m
    BY <1>6, <1>8, <1>9 DEF Ladder!Begun
  <1> HIDE DEF s
  <1>11. F \in [Blocks -> Ladder!Figures] /\ \A c \in Blocks : Moves(bk[c], F[c], N(c), I(c), 0, 0)
    <2>1. CASE r.active # b
      <3>1. F = Ladder!FlushFigures(bk, r, cur) BY <2>1
      <3>2. \A c \in Blocks : /\ N(c) = Bit(cur \in Eligible /\ r.active = c)
                              /\ I(c) = Bit(cur \in Eligible /\ r.active = c /\ r.open)
        BY <2>1 DEF Bit
      <3> HIDE DEF F
      <3>3. /\ F \in [Blocks -> Ladder!Figures]
            /\ \A c \in Blocks : Moves(bk[c], F[c], Bit(cur \in Eligible /\ r.active = c),
                                       Bit(cur \in Eligible /\ r.active = c /\ r.open), 0, 0)
        BY <1>1, <1>2, <3>1, FlushEffect
      <3> QED BY <3>2, <3>3
    <2>2. CASE r.active = b
      <3>1. F = bk BY <2>2
      <3>2. \A c \in Blocks : N(c) = 0 /\ I(c) = 0 BY <2>2 DEF Bit
      <3> QED BY <1>2, <3>1, <3>2, NothingMoves
    <2> QED BY <2>1, <2>2
  <1> HIDE DEF F
  <1>12. bk' \in [Blocks -> Ladder!Figures] /\ \A c \in Blocks : Moves(F[c], bk'[c], 0, 0, 0, W(c))
    BY <1>1, <1>3, <1>4, <1>6, <1>7, <1>11, PlacementEffect
  <1>13. \A c \in Blocks : N(c) \in {0, 1} /\ I(c) \in {0, 1} /\ L(c) \in {0, 1} /\ W(c) \in {0, 1}
    BY DEF Bit
  <1>14. ASSUME NEW c \in Blocks PROVE Moves(bk[c], bk'[c], N(c), I(c), 0, W(c))
    <2>1. bk[c] \in Ladder!Figures /\ F[c] \in Ladder!Figures /\ bk'[c] \in Ladder!Figures
      BY <1>2, <1>11, <1>12
    <2> DEFINE n == N(c)
               i == I(c)
               l == L(c)
               x == W(c)
    <2>2. n \in Int /\ i \in Int /\ l \in Int /\ x \in Int BY <1>13
    <2>3. Moves(bk[c], F[c], n, i, 0, 0) /\ Moves(F[c], bk'[c], 0, 0, 0, x) BY <1>11, <1>12
    <2> HIDE DEF n, i, l, x
    <2>4. Moves(bk[c], bk'[c], n + 0, i + 0, 0 + 0, 0 + x) BY <2>1, <2>2, <2>3, MovesAddUp
    <2>5. Moves(bk[c], bk'[c], n, i, 0, x) BY <2>2, <2>4
    <2> QED BY <2>5 DEF n, i, l, x
  <1>15. /\ seen' \in Ladder!Histories
         /\ \A c \in Blocks :
               /\ seen'.begun[c] = seen.begun[c] + Bit(b = c /\ r.active # b /\ el)
               /\ seen'.takes[c] = seen.takes[c]
               /\ seen'.closed[c] = seen.closed[c] + Bit(b = c /\ r.active = b /\ r.open /\ el)
               /\ seen'.falls[c] = seen.falls[c] + L(c)
    <2> DEFINE x == [seen.begun EXCEPT ![b] = @ + Ladder!Began(r, b, cur)]
               y == [seen.closed EXCEPT ![b] = IF r.active = b /\ r.open /\ cur \in Eligible THEN @ + 1 ELSE @]
               z == [seen.falls EXCEPT ![b] = IF o \in Ladder!Fallen THEN @ + 1 ELSE @]
    <2>1. /\ seen.begun \in [Blocks -> Nat] /\ seen.takes \in [Blocks -> Nat] /\ seen.closed \in [Blocks -> Nat]
          /\ seen.falls \in [Blocks -> Nat]
      BY <1>2 DEF Ladder!Histories
    <2>2. seen' = [seen EXCEPT !.begun = x, !.closed = y, !.falls = z] BY <1>3
    <2>3. Ladder!Began(r, b, cur) = Bit(r.active # b /\ el) /\ Ladder!Began(r, b, cur) \in Nat
      BY DEF Ladder!Began, Bit
    <2>4. x \in [Blocks -> Nat] /\ \A c \in Blocks : x[c] = seen.begun[c] + Bit(b = c /\ r.active # b /\ el)
      BY <2>1, <2>3 DEF Bit
    <2>5. /\ y \in [Blocks -> Nat]
          /\ \A c \in Blocks : y[c] = seen.closed[c] + Bit(b = c /\ r.active = b /\ r.open /\ el)
      BY <2>1 DEF Bit
    <2>7. z \in [Blocks -> Nat] /\ \A c \in Blocks : z[c] = seen.falls[c] + L(c) BY <2>1 DEF Bit
    <2> HIDE DEF x, y, z
    <2>6. /\ seen' \in Ladder!Histories /\ seen'.begun = x /\ seen'.closed = y
          /\ seen'.takes = seen.takes /\ seen'.falls = z
      BY <1>2, <2>2, <2>4, <2>5, <2>7 DEF Ladder!Histories
    <2> QED BY <2>4, <2>5, <2>6, <2>7
  <1>16. ASSUME NEW c \in Blocks PROVE AccountFor(c)'
    <2>1. N(c) \in Int /\ I(c) \in Int /\ L(c) \in Int /\ W(c) \in Int BY <1>13
    <2>2. 0 + Bit(s.lastFailed = c) <= L(c) + Bit(r.lastFailed = c)
      BY <1>6, <1>10 DEF Bit, Ladder!Configured
    <2>3. seen'.begun[c] + Bit(cur \in Eligible /\ r.active = c)
            = seen.begun[c] + N(c) + W(c) + Bit(cur \in Eligible /\ s.active = c)
      <3>1. seen.begun[c] \in Nat /\ seen'.begun[c] = seen.begun[c] + Bit(b = c /\ r.active # b /\ el)
        BY <1>2, <1>15
      <3>2. Bit(b = c /\ r.active # b /\ el) + Bit(cur \in Eligible /\ r.active = c)
              = N(c) + W(c) + Bit(cur \in Eligible /\ s.active = c)
        BY <1>10 DEF Bit, Ladder!Configured
      <3>3. /\ Bit(b = c /\ r.active # b /\ el) \in Int /\ Bit(cur \in Eligible /\ r.active = c) \in Int
            /\ Bit(cur \in Eligible /\ s.active = c) \in Int
        BY DEF Bit
      <3> HIDE DEF N, W
      <3> QED BY <2>1, <3>1, <3>2, <3>3
    <2>4. seen'.takes[c] + seen.closed[c] + Bit(cur \in Eligible /\ r.active = c /\ r.open)
            = seen.takes[c] + seen'.closed[c] + I(c) + Bit(cur \in Eligible /\ s.active = c /\ s.open)
      <3>1. /\ seen.takes[c] \in Nat /\ seen.closed[c] \in Nat /\ seen'.takes[c] = seen.takes[c]
            /\ seen'.closed[c] = seen.closed[c] + Bit(b = c /\ r.active = b /\ r.open /\ el)
        BY <1>2, <1>15
      <3>2. Bit(cur \in Eligible /\ r.active = c /\ r.open)
              = Bit(b = c /\ r.active = b /\ r.open /\ el) + I(c)
        BY DEF Bit
      <3>3. Bit(cur \in Eligible /\ s.active = c /\ s.open) = 0 BY <1>10 DEF Bit
      <3>4. Bit(b = c /\ r.active = b /\ r.open /\ el) \in Int BY DEF Bit
      <3> HIDE DEF I
      <3> QED BY <2>1, <3>1, <3>2, <3>3, <3>4
    <2>5. /\ seen'.begun[c] \in Int /\ seen'.takes[c] \in Int /\ seen'.closed[c] \in Int
          /\ seen'.falls[c] = seen.falls[c] + L(c)
      BY <1>15 DEF Ladder!Histories
    <2>6. Balances(c, s, N(c), I(c), 0, L(c), W(c)) BY <2>1, <2>2, <2>3, <2>4, <2>5 DEF Balances
    <2>7. bk'[c] \in Ladder!Figures /\ Moves(bk[c], bk'[c], N(c), I(c), 0, W(c))
      BY <1>12, <1>14
    <2>8. st' = [st EXCEPT ![cur] = s] /\ AccountFor(c) BY <1>2, <1>3
    <2> QED BY <1>1, <1>2, <1>10, <2>6, <2>7, <2>8, BalancePreserves
  <1>17. cur \in 1..(NumAttempts + 1) BY <1>1 DEF Ladder!Attempts, Ladder!Configured
  <1>18. wv' \in [Waves -> Ladder!WaveFigures] BY <1>1, <1>2, WaveEffect
  <1> QED BY <1>1, <1>3, <1>10, <1>12, <1>15, <1>16, <1>17, <1>18, RowPreserves

\* Every step keeps the accounts.
LEMMA LadderPreserves ==
    ASSUME Ladder!Configured, Ladder!IInv, [Ladder!Next]_(Ladder!vars) PROVE Ladder!IInv'
  <1>1. CASE Ladder!SkipEvent \/ Ladder!NextAttempt \/ Ladder!EndOfRows \/ UNCHANGED Ladder!vars
    <2>1. bk' = bk /\ st' = st /\ seen' = seen /\ wv' = wv
      BY <1>1 DEF Ladder!SkipEvent, Ladder!NextAttempt, Ladder!EndOfRows, Ladder!vars
    <2>2. cur' \in 1..(NumAttempts + 1) /\ done' \in BOOLEAN /\ (~done' => cur' \in Ladder!Attempts)
      <3>1. /\ NumAttempts \in Nat \ {0} /\ cur \in 1..(NumAttempts + 1) /\ done \in BOOLEAN
            /\ ~done => cur \in Ladder!Attempts
        BY DEF Ladder!IInv, Ladder!TypeOK, Ladder!Configured
      <3>2. CASE Ladder!SkipEvent \/ UNCHANGED Ladder!vars
        BY <3>1, <3>2 DEF Ladder!SkipEvent, Ladder!vars
      <3>3. CASE Ladder!NextAttempt BY <3>1, <3>3 DEF Ladder!NextAttempt, Ladder!Attempts
      <3>4. CASE Ladder!EndOfRows BY <3>1, <3>4 DEF Ladder!EndOfRows, Ladder!Attempts
      <3> QED BY <1>1, <3>2, <3>3, <3>4
    <2>3. Ladder!TypeOK' BY <2>1, <2>2 DEF Ladder!IInv, Ladder!TypeOK
    <2>4. (\A a \in Ladder!Attempts : Ladder!Begun(st[a]))' BY <2>1 DEF Ladder!IInv, Ladder!Begun
    <2>5. (\A b \in Blocks : AccountFor(b))'
      BY <2>1, IInvByBlock DEF AccountFor, Ladder!Trying, Ladder!Holding, Ladder!Blamed
    <2> QED BY <2>3, <2>4, <2>5, IInvByBlock, PTL
  <1>2. CASE Ladder!HintUsed BY <1>2, HintPreserves
  <1>3. CASE Ladder!InteractionAbandoned BY <1>3, AbandonPreserves
  <1>4. CASE Ladder!FlushAttempt BY <1>4, FlushPreserves
  <1>5. ASSUME NEW b \in Blocks, NEW t \in Elapsed, Ladder!DetailTaken(b, t) PROVE Ladder!IInv'
    BY <1>5, TakePreserves
  <1>6. ASSUME NEW b \in Blocks, NEW w \in Waves, NEW o \in Ladder!Outcomes, NEW t \in Elapsed,
               Ladder!PlacementResolved(b, w, o, t)
        PROVE  Ladder!IInv'
    BY <1>6, PlacePreserves
  <1> QED BY <1>1, <1>2, <1>3, <1>4, <1>5, <1>6 DEF Ladder!Next

\* Before the first row nothing is counted.
LEMMA LadderStarts == ASSUME Ladder!Configured, Ladder!Init PROVE Ladder!IInv
  <1>1. /\ bk = [b \in Blocks |-> Ladder!NoFigures] /\ st = [a \in Ladder!Attempts |-> Ladder!NoChain]
        /\ cur = 1 /\ done = FALSE
        /\ seen = [begun |-> [b \in Blocks |-> 0], takes |-> [b \in Blocks |-> 0], closed |-> [b \in Blocks |-> 0],
                    falls |-> [b \in Blocks |-> 0]]
    BY DEF Ladder!Init
  <1>2. Ladder!NoFigures \in Ladder!Figures BY DEF Ladder!NoFigures, Ladder!Figures
  <1>3. Ladder!NoChain \in Ladder!Chain /\ Ladder!NoChain.active = NoBlock /\ Ladder!NoChain.lastFailed = NoBlock BY DEF Ladder!NoChain, Ladder!Chain
  <1>4. seen \in Ladder!Histories BY <1>1 DEF Ladder!Histories
  <1>5. cur \in 1..(NumAttempts + 1) /\ cur \in Ladder!Attempts
    BY <1>1 DEF Ladder!Configured, Ladder!Attempts
  <1>9. wv \in [Waves -> Ladder!WaveFigures]
    <2>1. [placements |-> 0, falls |-> 0, attempts |-> {}] \in Ladder!WaveFigures
      BY DEF Ladder!WaveFigures
    <2> QED BY <2>1 DEF Ladder!Init
  <1>6. Ladder!TypeOK BY <1>1, <1>2, <1>3, <1>4, <1>5, <1>9 DEF Ladder!TypeOK
  <1>7. \A a \in Ladder!Attempts : Ladder!Begun(st[a]) BY <1>1, <1>3 DEF Ladder!Begun
  <1>8. ASSUME NEW b \in Blocks PROVE AccountFor(b)
    <2>1. Ladder!Trying(b) = {} /\ Ladder!Holding(b) = {} /\ Ladder!Blamed(b) = {}
      BY <1>1, <1>3 DEF Ladder!Trying, Ladder!Holding, Ladder!Blamed, Ladder!Configured
    <2>2. Cardinality({}) = 0 BY FS_EmptySet
    <2>3. /\ bk[b] = Ladder!NoFigures /\ seen.begun[b] = 0 /\ seen.takes[b] = 0
          /\ seen.closed[b] = 0 /\ seen.falls[b] = 0
      BY <1>1
    <2>4. /\ Ladder!NoFigures.never = 0 /\ Ladder!NoFigures.incomplete = 0 /\ Ladder!NoFigures.hints = 0
          /\ Ladder!NoFigures.ladder = [i \in 1..4 |-> 0]
          /\ Ladder!NoFigures.tries = <<>> /\ Ladder!NoFigures.times = <<>> /\ Ladder!NoFigures.examples = <<>>
      BY DEF Ladder!NoFigures
    <2>5. Climbed([i \in 1..4 |-> 0]) = 0 BY DEF Climbed
    <2>6. Len(<<>>) = 0 /\ 0 <= MaxExamples BY DEF Ladder!Configured
    <2> HIDE DEF Ladder!NoFigures
    <2>7. /\ Climbed(bk[b].ladder) = 0 /\ bk[b].never = 0 /\ bk[b].incomplete = 0 /\ bk[b].hints = 0
          /\ Len(bk[b].tries) = 0 /\ Len(bk[b].times) = 0
          /\ Len(bk[b].examples) = 0
      BY <2>3, <2>4, <2>5, <2>6
    <2> QED BY <2>1, <2>2, <2>3, <2>6, <2>7 DEF AccountFor
  <1> QED BY <1>6, <1>7, <1>8, IInvByBlock

\* However the rows of an attempt follow each other, and whichever attempts are
\* eligible, the figures of every block account for each chain and each take,
\* charge hints to falls and have a sample for each rung (applyPuzzleInsights).
THEOREM LadderStaysExact == ASSUME Ladder!Configured PROVE Ladder!Spec => []LadderIsExact
  <1>1. Ladder!Init => Ladder!IInv BY LadderStarts
  <1>2. Ladder!IInv /\ [Ladder!Next]_(Ladder!vars) => Ladder!IInv' BY LadderPreserves
  <1>3. Ladder!IInv => Ladder!LadderIsExact
    <2> SUFFICES ASSUME Ladder!IInv PROVE Ladder!HintsFollowFalls
      BY DEF Ladder!IInv, Ladder!LadderIsExact
    <2>1. DOMAIN bk = Blocks /\ Ladder!TypeOK BY DEF Ladder!IInv, Ladder!TypeOK
    <2>2. ASSUME NEW b \in Blocks PROVE bk[b].hints <= seen.falls[b]
      <3> DEFINE x == seen.falls[b]
                 y == bk[b].hints
      <3>1. bk[b] \in Ladder!Figures BY <2>1 DEF Ladder!TypeOK
      <3>2. x \in Nat /\ y \in Nat BY <2>1, <3>1, FiguresAreNumbers DEF Ladder!TypeOK, Ladder!Histories
      <3>3. y + Cardinality(Ladder!Blamed(b)) <= x BY LadderSets DEF Ladder!IInv, Ladder!FallsCoverBlame
      <3>4. IsFiniteSet(Ladder!Blamed(b)) BY FiniteAttempts, FS_Subset DEF Ladder!Blamed
      <3>5. Cardinality(Ladder!Blamed(b)) \in Nat BY <3>4, FS_CardinalityType
      <3> HIDE DEF x, y
      <3>6. y <= x BY <3>2, <3>3, <3>5
      <3> QED BY <3>6 DEF x, y
    <2> QED BY <2>1, <2>2 DEF Ladder!HintsFollowFalls
  <1>4. Ladder!LadderIsExact <=> LadderIsExact BY LadderPromises
  <1> QED BY <1>1, <1>2, <1>3, <1>4, PTL DEF Ladder!Spec

\* What a row of an attempt that is not eligible leaves alone.
LEMMA IneligibleStep ==
    ASSUME Ladder!Configured, Ladder!IInv, Ladder!Next, cur \notin Eligible
    PROVE  /\ \A c \in Blocks :
                 /\ bk'[c].ladder = bk[c].ladder /\ bk'[c].never = bk[c].never
                 /\ bk'[c].incomplete = bk[c].incomplete
                 /\ bk'[c].times = bk[c].times /\ bk'[c].tries = bk[c].tries
                 /\ bk'[c].examples = bk[c].examples
           /\ \A v \in Waves : wv'[v].attempts = wv[v].attempts
  <1>1. bk \in [Blocks -> Ladder!Figures] /\ wv \in [Waves -> Ladder!WaveFigures]
    BY DEF Ladder!IInv, Ladder!TypeOK
  <1>2. \A s : Ladder!FlushFigures(bk, s, cur) = bk BY DEF Ladder!FlushFigures
  <1>3. CASE Ladder!SkipEvent \/ Ladder!NextAttempt \/ Ladder!EndOfRows
    BY <1>3 DEF Ladder!SkipEvent, Ladder!NextAttempt, Ladder!EndOfRows
  <1>4. CASE Ladder!HintUsed
    <2> DEFINE b == st[cur].lastFailed
               f == [bk[b] EXCEPT !.hints = @ + 1]
    <2>1. wv' = wv /\ (bk' = bk \/ bk' = [bk EXCEPT ![b] = f])
      BY <1>4 DEF Ladder!HintUsed, Ladder!applyHintPressure
    <2> HIDE DEF b
    <2>2. ASSUME b \in Blocks
          PROVE  /\ f.ladder = bk[b].ladder /\ f.never = bk[b].never /\ f.incomplete = bk[b].incomplete
                 /\ f.times = bk[b].times /\ f.tries = bk[b].tries /\ f.examples = bk[b].examples
      <3>1. bk[b] \in Ladder!Figures BY <1>1, <2>2
      <3> QED BY <3>1 DEF Ladder!Figures
    <2> HIDE DEF f
    <2> QED BY <1>1, <2>1, <2>2
  <1>5. CASE Ladder!InteractionAbandoned BY <1>5 DEF Ladder!InteractionAbandoned
  <1>6. CASE Ladder!FlushAttempt BY <1>2, <1>6 DEF Ladder!FlushAttempt
  <1>7. ASSUME NEW b \in Blocks, NEW t \in Elapsed, Ladder!DetailTaken(b, t) PROVE bk' = bk /\ wv' = wv
    BY <1>2, <1>7 DEF Ladder!DetailTaken
  <1>8. ASSUME NEW b \in Blocks, NEW w \in Waves, NEW o \in Ladder!Outcomes, NEW t \in Elapsed,
               Ladder!PlacementResolved(b, w, o, t)
        PROVE  /\ \A c \in Blocks :
                     /\ bk'[c].ladder = bk[c].ladder /\ bk'[c].never = bk[c].never
                     /\ bk'[c].incomplete = bk[c].incomplete
                     /\ bk'[c].times = bk[c].times /\ bk'[c].tries = bk[c].tries
                     /\ bk'[c].examples = bk[c].examples
               /\ \A v \in Waves : wv'[v].attempts = wv[v].attempts
    <2>1. \A v \in Waves : wv'[v].attempts = wv[v].attempts BY <1>1, <1>8, WaveEffect
    <2>2. PICK s : bk' = Ladder!PlacementFigures(bk, b, o, s, t, cur)
      BY <1>2, <1>8 DEF Ladder!PlacementResolved
    <2> DEFINE f == Ladder!CountPlacement(bk[b], o, s)
    <2>3. bk' = [bk EXCEPT ![b] = f] BY <2>2 DEF Ladder!PlacementFigures
    <2>4. /\ f.ladder = bk[b].ladder /\ f.never = bk[b].never /\ f.incomplete = bk[b].incomplete
          /\ f.times = bk[b].times /\ f.tries = bk[b].tries /\ f.examples = bk[b].examples
      <3>1. bk[b] \in Ladder!Figures BY <1>1
      <3> QED BY <3>1 DEF Ladder!CountPlacement, Ladder!Figures
    <2> HIDE DEF f
    <2> QED BY <1>1, <2>1, <2>3, <2>4
  <1> QED BY <1>3, <1>4, <1>5, <1>6, <1>7, <1>8 DEF Ladder!Next

\* Rows of attempts that are not eligible never enter ladder, samples, examples or
\* wave entries, whichever attempts and rows there are (attemptEligible).
THEOREM IneligibleIsLeftOut == ASSUME Ladder!Configured PROVE Ladder!Spec => IneligibleLeavesNoSample
  <1>1. Ladder!Init => Ladder!IInv BY LadderStarts
  <1>2. Ladder!IInv /\ [Ladder!Next]_(Ladder!vars) => Ladder!IInv' BY LadderPreserves
  <1>3. Ladder!IInv /\ [Ladder!Next]_(Ladder!vars) => [LeavesNoSample]_<<bk, wv>>
    <2>1. CASE UNCHANGED Ladder!vars BY <2>1 DEF Ladder!vars
    <2>2. ASSUME Ladder!IInv, Ladder!Next PROVE LeavesNoSample
      <3>1. DOMAIN bk = Blocks /\ DOMAIN wv = Waves BY <2>2 DEF Ladder!IInv, Ladder!TypeOK
      <3> QED BY <2>2, <3>1, IneligibleStep DEF LeavesNoSample
    <2> QED BY <2>1, <2>2
  <1> QED BY <1>1, <1>2, <1>3, PTL DEF Ladder!Spec, IneligibleLeavesNoSample
=============================================================================
