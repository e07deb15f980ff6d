-------------------------------- MODULE Listing --------------------------------
(***************************************************************************)
(* The page that lists a directory (listing.py): the scan with its limits, *)
(* the metadata that is read for it, the filters, the two stable sorts,    *)
(* the pages, and the links by which a reader goes from one such page to   *)
(* the next.                                                               *)
(*                                                                         *)
(* An entry is [id, word, ext, dir, hidden, size, title, tag]: "id" is its *)
(* name, "word" what a search finds in it, which two entries may share;    *)
(* 0 stands for none of an extension, a title or a tag.  The query of a    *)
(* URL is a function from the parameters that are there to their values.   *)
(***************************************************************************)
EXTENDS Integers, Sequences, SequencesExt, FiniteSets

CONSTANTS
  MaxScanned,  \* config.max_listing_entries
  Detailed,    \* config.listing_details_threshold
  MaxMeta,     \* _MAX_META_ENTRIES
  MaxFacets    \* _MAX_FACETS, and _MAX_TAG_FACETS

Lower(a, b) == IF a < b THEN a ELSE b
Higher(a, b) == IF a < b THEN b ELSE a

-----------------------------------------------------------------------------
(* What a request asks for, and the links that ask for it                  *)

NoQuery == [field |-> "", needle |-> 0]

Codes == [N |-> "name", S |-> "size", T |-> "title"]
CodeToSort(code) == IF code \in DOMAIN Codes THEN Codes[code] ELSE "name"
SortToCode(sort) == CHOOSE code \in DOMAIN Codes : Codes[code] = sort

Param(params, name, default) == IF name \in DOMAIN params THEN params[name] ELSE default

Themes == {"auto", "light", "dark"}
ThemeCookie(cookie) == IF cookie \in Themes THEN cookie ELSE "auto"

RequestOptions(params, cookie) ==
  LET theme == Param(params, "theme", "none")
  IN [sort |-> CodeToSort(Param(params, "C", "N")), descending |-> Param(params, "O", "A") = "D",
      query |-> Param(params, "q", 0), ext |-> Param(params, "ext", 0),
      meta |-> Param(params, "meta", NoQuery), page |-> Higher(1, Param(params, "page", 1)),
      theme |-> IF theme \in Themes THEN theme ELSE ThemeCookie(cookie), setCookie |-> theme \in Themes]

\* The state of a page that is not the default.
StateParams(sort, asked, page, meta) ==
  LET all == [C |-> SortToCode(sort), O |-> "D", q |-> asked.query, ext |-> asked.ext,
              meta |-> meta, page |-> page]
      kept == [C |-> sort # "name", O |-> asked.descending, q |-> asked.query # 0,
               ext |-> asked.ext # 0, meta |-> meta # NoQuery, page |-> page > 1]
  IN [k \in {p \in DOMAIN all : kept[p]} |-> all[k]]

Href(base, dropped, set) ==
  [k \in (DOMAIN base \ dropped) \union DOMAIN set |-> IF k \in DOMAIN set THEN set[k] ELSE base[k]]
NoParams == [k \in {} |-> 0]
ThemeLinks(base) == [theme \in Themes |-> Href(base, {}, [theme |-> theme])]

\* Another sort begins at the first page, and ascending.
SortLink(code, sort, descending, base) ==
  Href(base, {"page"}, [C |-> code, O |-> IF Codes[code] = sort /\ ~descending THEN "D" ELSE "A"])

PageLink(base, page) == Href(base, {"page"}, IF page = 1 THEN NoParams ELSE [page |-> page])
Pager(page, pages, base) ==
  [previous |-> IF page > 1 THEN {PageLink(base, page - 1)} ELSE {},
   next |-> IF page < pages THEN {PageLink(base, page + 1)} ELSE {}]

\* A chip for each of the kinds in "kinds", which are those of the entries, the
\* most common first.
Ranked(kinds, counts) ==
  {k \in kinds : Cardinality({o \in kinds : counts[o] > counts[k] \/ (counts[o] = counts[k] /\ o < k)})
                   < MaxFacets}
Facets(entries, base) ==
  LET kinds == {entries[i].ext : i \in {j \in DOMAIN entries : ~entries[j].dir}} \ {0}
      counts == [k \in kinds |-> Cardinality({i \in DOMAIN entries : ~entries[i].dir /\ entries[i].ext = k})]
  IN {[ext |-> k, count |-> counts[k], link |-> Href(base, {"page"}, [ext |-> k])] : k \in Ranked(kinds, counts)}

-----------------------------------------------------------------------------
(* Metadata                                                                *)

\* A field that is none belongs to what is searched for, everywhere.
MetaFields == {"title", "tag"}
ParseMetaQuery(query) ==
  IF query.field \in {"", "title", "tag"} THEN query ELSE [field |-> "", needle |-> -query.needle]

\* What was read is [id -> entry]; no more than the limit in one page.
ExtractMetadata(metas, entries) ==
  FoldLeft(LAMBDA read, e : IF e.dir \/ e.id \in DOMAIN read \/ Cardinality(DOMAIN read) >= MaxMeta THEN read
                            ELSE [id \in DOMAIN read \union {e.id} |-> IF id = e.id THEN e ELSE read[id]],
           metas, entries)

MetaMatches(metas, entry, query) ==
  /\ entry.id \in DOMAIN metas
  /\ \E field \in IF query.field = "" THEN MetaFields ELSE {query.field} : metas[entry.id][field] = query.needle

\* The chips of tags; the chip of the tag that is looked for drops it.
TagFacets(entries, metas, meta, base) ==
  LET read == {i \in DOMAIN entries : entries[i].id \in DOMAIN metas}
      tags == {metas[entries[i].id].tag : i \in read} \ {0}
      counts == [t \in tags |-> Cardinality({i \in read : metas[entries[i].id].tag = t})]
      active(t) == ParseMetaQuery(meta) = [field |-> "tag", needle |-> t]
  IN {[tag |-> t, count |-> counts[t],
       link |-> IF active(t) THEN Href(base, {"meta", "page"}, NoParams)
                ELSE Href(base, {"page"}, [meta |-> [field |-> "tag", needle |-> t]])] : t \in Ranked(tags, counts)}

-----------------------------------------------------------------------------
(* The rows                                                                *)

\* Behind the threshold an entry has no size.
ScanEntries(directory, showHidden) ==
  LET shown == SelectSeq(directory, LAMBDA e : showHidden \/ ~e.hidden)
      Stat(i) == [shown[i] EXCEPT !.size = IF shown[i].dir \/ i > Detailed THEN 0 ELSE @]
  IN [entries |-> [i \in 1..Lower(Len(shown), MaxScanned) |-> Stat(i)],
      truncated |-> Len(shown) > MaxScanned]

\* Directories are kept by a filter for a type or for metadata, not by one for
\* a name.
FilterEntries(entries, asked, meta, metas) ==
  LET query == ParseMetaQuery(meta)
  IN SelectSeq(entries, LAMBDA e : /\ asked.query = 0 \/ e.word = asked.query
                                   /\ asked.ext = 0 \/ e.dir \/ e.ext = asked.ext
                                   /\ query.needle = 0 \/ e.dir \/ MetaMatches(metas, e, query))

\* What has no title comes behind all that have one.
Untitled == 1000
SortKey(entry, sort, metas) ==
  CASE sort = "size" -> entry.size
    [] sort = "title" ->
         IF entry.id \in DOMAIN metas /\ metas[entry.id].title # 0 THEN metas[entry.id].title ELSE Untitled
    [] OTHER -> entry.word

\* Equal elements keep their order, in the reversed sort too: the sorted
\* sequence, for ranks of its elements.
StableSort(entries, rank) ==
  LET order == SetToSortSeq(DOMAIN entries, LAMBDA i, j :
                 rank[i] < rank[j] \/ (rank[i] = rank[j] /\ i < j))
  IN [i \in DOMAIN entries |-> entries[order[i]]]

\* By the key; then the directories first.
SortEntries(entries, sort, descending, metas) ==
  LET keyed == StableSort(entries, [i \in DOMAIN entries |->
                 IF descending THEN -SortKey(entries[i], sort, metas) ELSE SortKey(entries[i], sort, metas)])
  IN StableSort(keyed, [i \in DOMAIN keyed |-> IF keyed[i].dir THEN 0 ELSE 1])

TotalPages(total, perPage) == IF perPage > 0 THEN Higher(1, (total + perPage - 1) \div perPage) ELSE 1

\* The whole strip above the rows.
Metrics(entries) ==
  LET files == {i \in DOMAIN entries : ~entries[i].dir}
  IN [files |-> Cardinality(files), dirs |-> Len(entries) - Cardinality(files),
      total |-> FoldLeft(LAMBDA sum, e : sum + e.size, 0, entries),
      largest |-> FoldLeft(LAMBDA max, e : Higher(max, e.size), 0, entries)]

\* config is [hidden, perPage, metadata].  A directory over the threshold is
\* not sorted by what it has no details of, and nothing in it is opened;
\* metadata is read of the whole directory only if the rows depend on it.
Plan(config, asked, limited) ==
  LET metadata == config.metadata /\ ~limited
      meta == IF metadata THEN asked.meta ELSE NoQuery
      byTitle == metadata /\ asked.sort = "title"
  IN [limited |-> limited, metadata |-> metadata, meta |-> meta, whole |-> byTitle \/ meta # NoQuery,
      sort |-> IF (asked.sort = "title" /\ ~byTitle) \/ (asked.sort = "size" /\ limited) THEN "name"
               ELSE asked.sort]

\* What is around the rows that are visible: "read" is the metadata of some.
Around(plan, filtered, asked, page, pages, read, base) ==
  [limited |-> plan.limited, sort |-> plan.sort, page |-> page, pages |-> pages, metas |-> read,
   metrics |-> IF plan.limited THEN <<>> ELSE Metrics(filtered),
   themes |-> ThemeLinks(base), pager |-> Pager(page, pages, base),
   facets |-> IF plan.limited THEN {} ELSE Facets(filtered, base),
   tags |-> IF plan.metadata THEN TagFacets(filtered, read, plan.meta, base) ELSE {},
   heads |-> [code \in IF plan.metadata THEN DOMAIN Codes ELSE {"N", "S"} |->
                SortLink(code, plan.sort, asked.descending, base)],
   clear |-> Href(base, {"q", "ext", "meta", "page"}, NoParams)]

ShowPage(plan, metas, filtered, rows, truncated, perPage, asked) ==
  LET pages == TotalPages(Len(rows), perPage)
      page == IF perPage = 0 THEN 1 ELSE Lower(asked.page, pages)
      visible == IF perPage = 0 THEN rows
                 ELSE SubSeq(rows, (page - 1) * perPage + 1, Lower(page * perPage, Len(rows)))
      read == IF plan.metadata /\ ~plan.whole THEN ExtractMetadata(metas, visible) ELSE metas
  IN Around(plan, filtered, asked, page, pages, read, StateParams(plan.sort, asked, page, plan.meta))
       @@ [rows |-> visible, total |-> Len(rows), truncated |-> truncated]

Arrange(scan, plan, metas, perPage, asked) ==
  LET filtered == FilterEntries(scan.entries, asked, plan.meta, metas)
  IN ShowPage(plan, metas, filtered, SortEntries(filtered, plan.sort, asked.descending, metas),
              scan.truncated, perPage, asked)

Render(directory, config, asked) ==
  LET scan == ScanEntries(directory, config.hidden)
      plan == Plan(config, asked, Len(scan.entries) > Detailed)
  IN Arrange(scan, plan, IF plan.whole THEN ExtractMetadata(<<>>, scan.entries) ELSE <<>>,
             config.perPage, asked)
=============================================================================
