------------------------------ MODULE Catalog --------------------------------
(* The puzzle catalogue of one project: the import of a content revision, and *)
(* the geometry and art that are attached to it afterwards, as transactions   *)
(* of concurrent administrators and deploy steps.  All tables are one map of  *)
(* rows by primary key; a transaction's writes are its own until it commits,  *)
(* and lock their rows until then.  Planar shapes are modelled on a line.     *)
EXTENDS CatalogPromise

CONSTANTS Procs,      \* requests and commands under way at once
          Docs,       \* catalogue documents: [rev, cities]
          Arts        \* art imports: [rev, houses]

VARIABLES tx,      \* the transaction of each process
          answer   \* how its last operation ended, and for which document

vars == <<rows, tx, answer>>

\* Uploads list their blocks one after the other.
Configured == \A g \in Geometries : g.blocks \in Seq(ToSet(g.blocks))

NoRows == [k \in {} |-> 0]
Tx(op, stage, arg, at, writes) == [op |-> op, stage |-> stage, arg |-> arg, at |-> at, writes |-> writes]
Closed == Tx("none", "none", <<>>, 0, NoRows)
Reply(status, arg) == [status |-> status, arg |-> arg]

\* The rows of one key, and rows as others write over them.
OneRow(k, row) == [l \in {k} |-> row]
Over(old, new) == [k \in DOMAIN old \cup DOMAIN new |-> IF k \in DOMAIN new THEN new[k] ELSE old[k]]

Init == /\ rows = NoRows
        /\ tx = [p \in Procs |-> Closed]
        /\ answer = [p \in Procs |-> Reply("none", <<>>)]

RevisionRow(d) == OneRow(Revision(d.rev), [doc |-> d])

Locked(p, k) == \E q \in Procs \ {p} : k \in DOMAIN tx[q].writes

Open(p, op, arg, stage) == /\ tx' = [tx EXCEPT ![p] = Tx(op, stage, arg, 1, NoRows)]
                           /\ answer' = [answer EXCEPT ![p] = Reply("none", <<>>)]
                           /\ UNCHANGED rows
End(p, status, arg) == /\ tx' = [tx EXCEPT ![p] = Closed]
                       /\ answer' = [answer EXCEPT ![p] = Reply(status, arg)]
Write(p, new, stage) == /\ tx' = [tx EXCEPT ![p] = Tx(@.op, stage, @.arg, @.at + 1, Over(@.writes, new))]
                        /\ UNCHANGED <<rows, answer>>
------------------------------------------------------------------------------
(* Import of a document.                                                     *)

\* No id may occur twice among blocks, waves, groups, targets, rules, houses, cities.
Ids(s) == [i \in DOMAIN s |-> s[i].id]

validatePuzzleWaves(h) == /\ IsInjective(Ids(h.waves))
                          /\ \A w \in ToSet(h.waves) : w.blocks \subseteq ToSet(h.blocks)
validateInventoryGroups(h) == /\ IsInjective(Ids(h.groups))
                              /\ \A g \in ToSet(h.groups) : g.id # "" /\ g.blocks \subseteq ToSet(h.blocks)

\* Wrong: the wave of a target is not looked up.
validateTargetBlocks(h) == /\ IsInjective(Ids(h.targets))
                           /\ \A t \in ToSet(h.targets) : t.blocks \subseteq ToSet(h.blocks)

validatePuzzleTargets(h) == /\ IsInjective(Ids(h.targets))
                            /\ \A t \in ToSet(h.targets) : /\ t.wave \in {w.id : w \in ToSet(h.waves)}
                                                           /\ t.blocks \subseteq ToSet(h.blocks)
validatePlacementRules(h) == /\ IsInjective(Ids(h.rules))
                             /\ \A r \in ToSet(h.rules) : /\ r.id \in {t.id : t \in ToSet(h.targets)}
                                                          /\ UNION r.groups \subseteq ToSet(h.blocks)

validatePuzzleHouse(h) == /\ IsInjective(h.blocks)
                          /\ validatePuzzleWaves(h) /\ validateInventoryGroups(h)
                          /\ validatePuzzleTargets(h) /\ validatePlacementRules(h)

ValidCatalog(d) == /\ d.cities # <<>> /\ IsInjective(Ids(d.cities))
                   /\ \A c \in ToSet(d.cities) : /\ IsInjective(Ids(c.houses))
                                                 /\ \A h \in ToSet(c.houses) : validatePuzzleHouse(h)

\* The wave of a block: the last one that lists it, 0 if none does.
WaveOf(h, b) == LET listed == {i \in DOMAIN h.waves : b \in h.waves[i].blocks}
                IN  IF listed = {} THEN 0 ELSE h.waves[CHOOSE i \in listed : \A j \in listed : j <= i].id

Named(s, id) == CHOOSE x \in ToSet(s) : x.id = id

insertPuzzleHouse(d, c, h) ==
    LET K(table, ids) == {Key(table, d.rev, c.id, h.id, id) : id \in ids}
        Row(k) == CASE k.table = "block" -> BlockRow(WaveOf(h, k.id), NoShape)
                    [] k.table = "target" -> [wave |-> Named(h.targets, k.id).wave,
                                              blocks |-> Named(h.targets, k.id).blocks]
                    [] k.table = "rule" -> [groups |-> Named(h.rules, k.id).groups]
    IN  [k \in K("block", ToSet(h.blocks)) \cup K("target", {t.id : t \in ToSet(h.targets)})
               \cup K("rule", {r.id : r \in ToSet(h.rules)}) |-> Row(k)]

\* Keys of different houses differ, so the order of the houses does not matter.
insertPuzzleCatalogRows(d) ==
    LET parts == UNION {{insertPuzzleHouse(d, c, h) : h \in ToSet(c.houses)} : c \in ToSet(d.cities)}
    IN  [k \in UNION {DOMAIN part : part \in parts} |-> (CHOOSE part \in parts : k \in DOMAIN part)[k]]

ImportPuzzleCatalog(p, d) == /\ tx[p] = Closed
                             /\ IF ValidCatalog(d) THEN Open(p, "import", d, "revision")
                                ELSE End(p, "refused", d) /\ UNCHANGED rows

\* Wrong: an existing revision is overwritten (DO UPDATE for DO NOTHING).
OverwriteRevision(p) == LET d == tx[p].arg
                        IN  /\ tx[p].stage = "revision" /\ ~Locked(p, Revision(d.rev))
                            /\ Write(p, RevisionRow(d), "rows")

\* ON CONFLICT DO NOTHING waits for the transaction that holds the key, then
\* commits an empty transaction if the revision is there.
insertPuzzleRevision(p) ==
    LET d == tx[p].arg
    IN  /\ tx[p].stage = "revision" /\ ~Locked(p, Revision(d.rev))
        /\ IF Revision(d.rev) \in DOMAIN rows THEN End(p, "ok", d) /\ UNCHANGED rows
           ELSE Write(p, RevisionRow(d), "rows")

InsertRows(p) == /\ tx[p].stage = "rows"
                 /\ Write(p, insertPuzzleCatalogRows(tx[p].arg), "commit")
------------------------------------------------------------------------------
(* Attachments to a revision.                                                *)

ApplyPuzzleGeometry(p, g) == /\ tx[p] = Closed
                             /\ IF ValidGeometry(g) THEN Open(p, "geometry", g, "exists")
                                ELSE End(p, "refused", g) /\ UNCHANGED rows

ImportPuzzleHouseArt(p, a) == /\ tx[p] = Closed
                              /\ IF a.houses # <<>> THEN Open(p, "art", a, "exists")
                                 ELSE End(p, "refused", a) /\ UNCHANGED rows

\* Outside the transaction: nothing is held when it begins.
RevisionExists(p) ==
    /\ tx[p].stage = "exists"
    /\ IF Revision(tx[p].arg.rev) \in DOMAIN rows
         THEN /\ tx' = [tx EXCEPT ![p] = Tx(@.op, "attach", @.arg, @.at, @.writes)]
              /\ UNCHANGED <<rows, answer>>
         ELSE End(p, "refused", tx[p].arg) /\ UNCHANGED rows

After(p, items) == IF tx[p].at = Len(items) THEN "commit" ELSE "attach"

\* Wrong: each block is updated in a transaction of its own.
UpdateAlone(p) == LET g == tx[p].arg
                      b == g.blocks[tx[p].at]
                      k == BlockKey(g, tx[p].at)
                  IN  /\ tx[p].stage = "attach" /\ tx[p].op = "geometry" /\ ~Locked(p, k)
                      /\ IF k \notin DOMAIN rows THEN End(p, "refused", g) /\ UNCHANGED rows
                         ELSE /\ rows' = [rows EXCEPT ![k].shape = b.shape]
                              /\ tx' = [tx EXCEPT ![p].stage = After(p, g.blocks), ![p].at = @ + 1]
                              /\ UNCHANGED answer

\* One block at a time, in the order of the upload; a block that the revision
\* does not declare rolls the whole upload back.
UpdateBlock(p) == LET g == tx[p].arg
                      b == g.blocks[tx[p].at]
                      k == BlockKey(g, tx[p].at)
                  IN  /\ tx[p].stage = "attach" /\ tx[p].op = "geometry" /\ ~Locked(p, k)
                      /\ IF k \notin DOMAIN rows THEN End(p, "refused", g) /\ UNCHANGED rows
                         ELSE Write(p, OneRow(k, BlockRow(rows[k].wave, b.shape)), After(p, g.blocks))

\* validateHouseArt inside the transaction, then the upsert.
UpsertArt(p) == LET a == tx[p].arg
                    h == a.houses[tx[p].at]
                    k == Key("art", a.rev, h.city, h.house, 0)
                IN  /\ tx[p].stage = "attach" /\ tx[p].op = "art"
                    /\ IF ~h.valid THEN End(p, "refused", a) /\ UNCHANGED rows
                       ELSE ~Locked(p, k) /\ Write(p, OneRow(k, [image |-> h.image]), After(p, a.houses))

Commit(p) == /\ tx[p].stage = "commit"
             /\ rows' = Over(rows, tx[p].writes)
             /\ End(p, "ok", tx[p].arg)

\* A failed statement, the query timeout, a deadlock's victim, a lost process.
Rollback(p) == tx[p] # Closed /\ End(p, "failed", tx[p].arg) /\ UNCHANGED rows

Step(p) == \/ insertPuzzleRevision(p) \/ InsertRows(p)
           \/ RevisionExists(p) \/ UpdateBlock(p) \/ UpsertArt(p)
           \/ Commit(p) \/ Rollback(p)

Next == \E p \in Procs : \/ \E d \in Docs : ImportPuzzleCatalog(p, d)
                         \/ \E g \in Geometries : ApplyPuzzleGeometry(p, g)
                         \/ \E a \in Arts : ImportPuzzleHouseArt(p, a)
                         \/ Step(p)

Spec == Init /\ [][Next]_vars
------------------------------------------------------------------------------
(* The inductive invariant (AnalyticsProofs).                                *)

\* A stored revision is a valid document with all of its rows, and every row is
\* one of its revision's document, but for its shape, or a house's art.
RevisionsWhole ==
    /\ \A k \in DOMAIN rows :
          /\ k.table \in {"revision", "block", "target", "rule", "art"}
          /\ Revision(k.rev) \in DOMAIN rows
          /\ k.table \in {"block", "target", "rule"} =>
                LET stored == insertPuzzleCatalogRows(rows[Revision(k.rev)].doc)
                IN  k \in DOMAIN stored /\ Semantics(k, rows[k]) = Semantics(k, stored[k])
    /\ \A k \in Of("revision") :
          LET d == rows[k].doc
          IN  /\ k = Revision(d.rev) /\ d \in Docs /\ ValidCatalog(d)
              /\ DOMAIN insertPuzzleCatalogRows(d) \subseteq DOMAIN rows

\* A shape was uploaded for its revision.
ShapesUploaded ==
    \A k \in Of("block") : rows[k].shape # NoShape =>
        \E g \in Geometries : ValidGeometry(g) /\ g.rev = k.rev

\* What each transaction has written by its stage.
ImportFits(t) ==
    /\ t.op = "import" /\ t.arg \in Docs /\ ValidCatalog(t.arg)
    /\ t.stage # "revision" => Revision(t.arg.rev) \notin DOMAIN rows
    /\ \/ t.stage = "revision" /\ t.writes = NoRows
       \/ t.stage = "rows" /\ t.writes = RevisionRow(t.arg)
       \/ t.stage = "commit" /\ t.writes = Over(RevisionRow(t.arg), insertPuzzleCatalogRows(t.arg))

UploadFits(t) ==
    /\ t.op = "geometry" /\ t.arg \in Geometries /\ ValidGeometry(t.arg)
    /\ t.stage \in {"exists", "attach", "commit"}
    /\ t.stage # "exists" => Revision(t.arg.rev) \in DOMAIN rows
    /\ t.at \in 1..(Len(t.arg.blocks) + 1)
    /\ t.stage = "commit" <=> t.at = Len(t.arg.blocks) + 1
    /\ DOMAIN t.writes = {BlockKey(t.arg, i) : i \in 1..(t.at - 1)}
    /\ \A i \in 1..(t.at - 1) :
          /\ BlockKey(t.arg, i) \in DOMAIN rows
          /\ t.writes[BlockKey(t.arg, i)] =
                BlockRow(rows[BlockKey(t.arg, i)].wave, t.arg.blocks[i].shape)

ArtFits(t) ==
    /\ t.op = "art"
    /\ t.stage \in {"exists", "attach", "commit"}
    /\ t.stage # "exists" => Revision(t.arg.rev) \in DOMAIN rows
    /\ \A k \in DOMAIN t.writes : k.table = "art" /\ k.rev = t.arg.rev

Fits(t) == t = Closed \/ ImportFits(t) \/ UploadFits(t) \/ ArtFits(t)

\* A revision that is being written is locked.
OneImport ==
    \A p, q \in Procs :
        (/\ tx[p].op = "import" /\ tx[p].stage # "revision"
         /\ tx[q].op = "import" /\ tx[q].stage # "revision"
         /\ tx[p].arg.rev = tx[q].arg.rev) => p = q

IInv == /\ RevisionsWhole /\ ShapesUploaded /\ ShapesOfOneUpload
        /\ tx = [p \in Procs |-> tx[p]]
        /\ \A p \in Procs : Fits(tx[p])
        /\ OneImport
==============================================================================
