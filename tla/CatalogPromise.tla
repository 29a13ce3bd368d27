--------------------------- MODULE CatalogPromise ----------------------------
(* What the tables of the puzzle catalogue promise to those who read them:    *)
(* whole revisions that stay, and shapes that belong together.  Catalog       *)
(* implements it.                                                             *)
EXTENDS Integers, Sequences, SequencesExt

CONSTANTS Geometries, \* geometry uploads: [rev, blocks]
          MaxOutline  \* maxOutlinePoints

VARIABLE rows         \* committed rows: primary key -> columns

\* The primary keys of all tables; columns a table does not have are zero.
Key(table, rev, city, house, id) ==
    [table |-> table, rev |-> rev, city |-> city, house |-> house, id |-> id]

Revision(r) == Key("revision", r, 0, 0, 0)
BlockRow(wave, shape) == [wave |-> wave, shape |-> shape]
NoShape == [lo |-> 0, hi |-> 0, outline |-> <<>>]

validateBlock(b) == LET s == b.shape
                    IN  /\ s.lo < s.hi
                        /\ Len(s.outline) # 0 => Len(s.outline) \in 3..MaxOutline
                        /\ ToSet(s.outline) \subseteq s.lo..s.hi

\* The row that block i of an upload describes.
BlockKey(g, i) == Key("block", g.rev, g.blocks[i].city, g.blocks[i].house, g.blocks[i].id)

ValidGeometry(g) == /\ g.blocks # <<>>
                    /\ IsInjective([i \in DOMAIN g.blocks |-> BlockKey(g, i)])
                    /\ \A i \in DOMAIN g.blocks : validateBlock(g.blocks[i])
------------------------------------------------------------------------------
Of(table) == {k \in DOMAIN rows : k.table = table}
Semantics(k, r) == IF k.table = "block" THEN BlockRow(r.wave, NoShape) ELSE r

KeepsRevisions ==
    \A k \in DOMAIN rows :
       /\ k \in DOMAIN rows'
       /\ k.table # "art" => Semantics(k, rows'[k]) = Semantics(k, rows[k])
       /\ k.table = "block" /\ rows[k].shape # NoShape => rows'[k].shape # NoShape

\* What an imported revision says never changes: no later import, upload or
\* failure removes a row of it or changes anything but shapes and art, and a
\* shape that is there is never taken away again (ImportPuzzleCatalog,
\* ApplyPuzzleGeometry).
RevisionsStay == [][KeepsRevisions]_rows

\* Whatever is stored can be read back against itself: the waves and blocks a
\* target names, the target and blocks a rule names and the revision of every
\* row are there.  The tables enforce only the last; the validation has to see to
\* the rest.
StoredReferencesResolve ==
    /\ \A k \in DOMAIN rows : Revision(k.rev) \in DOMAIN rows
    /\ \A k \in Of("target") :
          /\ \A b \in rows[k].blocks : Key("block", k.rev, k.city, k.house, b) \in DOMAIN rows
          /\ \E c \in ToSet(rows[Revision(k.rev)].doc.cities) : \E h \in ToSet(c.houses) :
                c.id = k.city /\ h.id = k.house /\ \E w \in ToSet(h.waves) : w.id = rows[k].wave
    /\ \A k \in Of("rule") :
          /\ Key("target", k.rev, k.city, k.house, k.id) \in DOMAIN rows
          /\ \A b \in UNION rows[k].groups : Key("block", k.rev, k.city, k.house, b) \in DOMAIN rows

\* The shapes upload g gives the block of key k.
ShapesIn(g, k) == {g.blocks[i].shape : i \in {i \in DOMAIN g.blocks : BlockKey(g, i) = k}}
DescribesBoth(g, k, l) == ShapesIn(g, k) # {} /\ ShapesIn(g, l) # {}

\* Two blocks that every upload describes together always show shapes of one
\* upload, however two uploads interleave and whichever of them fails.
ShapesOfOneUpload ==
    \A k, l \in Of("block") :
       (/\ \A g \in Geometries : g.rev = k.rev /\ ValidGeometry(g) => DescribesBoth(g, k, l)
        /\ rows[k].shape # NoShape)
       => \E g \in Geometries : /\ DescribesBoth(g, k, l)
                                /\ rows[k].shape \in ShapesIn(g, k) /\ rows[l].shape \in ShapesIn(g, l)

\* Stored targets and rules name blocks and waves that are stored, and blocks
\* that every upload describes together show shapes of one upload
\* (PuzzleCatalog.Validate, ApplyPuzzleGeometry).
CatalogIsWhole == StoredReferencesResolve /\ ShapesOfOneUpload
==============================================================================
