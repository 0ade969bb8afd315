------------------------- MODULE TransactionSearch -------------------------
(***************************************************************************)
(* The search for transactions: TransactionRepository's keyset pages and   *)
(* capped count, the page of the portal that walks through them            *)
(* (AuditFindTransactionsPage.vue), and the report generator, which reads  *)
(* the same rows page by page into a file.  Payments go on meanwhile: rows *)
(* are inserted and updated between any two reads.                         *)
(*                                                                         *)
(* A search is a filter on the payer, a column and a direction to sort by; *)
(* the other filters narrow the rows in the same way.  A cursor is what    *)
(* encodeCursor keeps of a row: the value it was sorted by when it was     *)
(* read, and its id.  A request is read and its answer applied in one      *)
(* step, which may come at any time after it was sent.  The two legs of a  *)
(* DFSP's read see one state: changes between their SELECTs, of rows that  *)
(* are in one leg only, could as well come before or after both.  The      *)
(* total and the row numbers the page displays beside the rows are left    *)
(* out.                                                                    *)
(*                                                                         *)
(* touched, walk and report.touched are history: the rows that changed     *)
(* since a page was last read without a cursor, what the pages have shown  *)
(* since the first one, and the rows that changed since a report counted.  *)
(***************************************************************************)
EXTENDS Integers, Sequences, FiniteSets

CONSTANTS MaxId,       \* ids are 1..MaxId
          Fsp,         \* FSP ids
          Filter,      \* the payer FSPs that are searched for
          Arrival,     \* [id -> the row that is inserted under it]
          Update,      \* [id -> what a later message of the transfer carries]
          Present,     \* the ids of the rows that exist from the start
          Caller,      \* the FSP of the caller's token, or NoFsp
          NoFsp,       \* no FSP: a hub caller, or a search without a filter
          Size,        \* rows per page
          ReportPage,  \* settings.pageSize
          FileRows,    \* settings.maxRowsPerFile
          ReportLimit, \* rows a report may have at most
          MaxAsked,    \* list requests in flight at a time
          MaxSearches, \* searches and sorts the user makes
          MaxChanges   \* rows inserted or completed

Id == 1..MaxId
Null == 0                                \* times are positive

(* transaction_started_at and correlation_id are NOT NULL, and                 *)
(* transaction_completed_at may be null.  A correlation id is its rank: the    *)
(* collation of MySQL and the code units the merge compares agree on UUIDs of  *)
(* one case, which is what correlation ids are taken to be.                    *)
Transaction == [payer: Fsp \cup {NoFsp}, payee: Fsp \cup {NoFsp},
                started: Nat \ {Null}, completed: Nat, correlation: Nat \ {Null}]

ASSUME SearchAssumption ==
  /\ {Size, ReportPage, FileRows} \subseteq Nat \ {0}
  /\ {ReportLimit, MaxId, MaxSearches, MaxChanges} \subseteq Nat
  /\ NoFsp \notin Fsp /\ Filter \subseteq Fsp /\ Caller \in Fsp \cup {NoFsp}
  /\ Arrival \in [Id -> Transaction] /\ Update \in [Id -> Transaction]
  /\ Present \subseteq Id

VARIABLES table,    \* [id -> NoRow or a row]
          view,     \* the state of the portal's page
          asked,    \* list requests in flight
          report,   \* the report being generated
          touched, walk, searches, changes

searchVars == <<table, view, asked, report, touched, walk, searches, changes>>

NoRow == [payer |-> NoFsp, payee |-> NoFsp, started |-> Null, completed |-> Null,
          correlation |-> Null]
NoCursor == [v |-> Null, id |-> 0]
Column == {"started", "completed", "correlation"}
Direction == {"ASC", "DESC"}
Criteria == Filter \cup {NoFsp}
Stored == {i \in Id : table[i] # NoRow}

----------------------------------------------------------------------------
(* Reading: core/audit/domain/repository/transaction.repository.ts. *)

sortMeta(column) == [field |-> column, nullable |-> column = "completed"]

Flip(dir) == IF dir = "DESC" THEN "ASC" ELSE "DESC"

applyCriteria(criteria) == {i \in Stored : criteria = NoFsp \/ table[i].payer = criteria}

(* The order of MySQL: by the column, nulls first, and then by id; DESC is its *)
(* reverse. *)
Before(i, j, field, dir) ==
  LET ascending(a, b) ==
        \/ table[a][field] < table[b][field]
        \/ table[a][field] = table[b][field] /\ a < b
  IN IF dir = "ASC" THEN ascending(i, j) ELSE ascending(j, i)

Take(seq, n) == SubSeq(seq, 1, IF Len(seq) < n THEN Len(seq) ELSE n)

(* The ids of S in the order less defines. *)
Sorted(S, less(_, _)) ==
  [k \in 1..Cardinality(S) |->
     CHOOSE i \in S : Cardinality({j \in S : less(j, i)}) = k - 1]

encodeCursor(i, meta) == [v |-> table[i][meta.field], id |-> i]

(* SQL comparisons are never true of a null. *)
keysetWhere(meta, dir, cursor, i) ==
  LET v == table[i][meta.field] IN
  \/ /\ dir = "DESC" /\ cursor.v = Null
     /\ v = Null /\ i < cursor.id
  \/ /\ dir = "DESC" /\ cursor.v # Null
     /\ \/ v # Null /\ (v < cursor.v \/ (v = cursor.v /\ i < cursor.id))
        \/ meta.nullable /\ v = Null
  \/ /\ dir = "ASC" /\ cursor.v = Null
     /\ v # Null \/ (v = Null /\ i > cursor.id)
  \/ /\ dir = "ASC" /\ cursor.v # Null
     /\ v # Null /\ (v > cursor.v \/ (v = cursor.v /\ i > cursor.id))

(* leg is the column the caller's FSP must be in, or "none". *)
fetchLeg(criteria, meta, dir, cursor, limit, leg) ==
  LET found == {i \in applyCriteria(criteria) :
                  /\ leg # "none" => table[i][leg] = Caller
                  /\ cursor # NoCursor => keysetWhere(meta, dir, cursor, i)}
  IN Take(Sorted(found, LAMBDA i, j : Before(i, j, meta.field, dir)), limit)

compareValues(left, right, dir) ==
  IF left = right THEN 0
  ELSE CASE left = Null -> IF dir = "DESC" THEN 1 ELSE -1
         [] right = Null -> IF dir = "DESC" THEN -1 ELSE 1
         [] OTHER -> IF (left < right) = (dir = "ASC") THEN -1 ELSE 1

compareForMerge(i, j, meta, dir) ==
  LET byValue == compareValues(table[i][meta.field], table[j][meta.field], dir) IN
  IF byValue # 0 THEN byValue ELSE compareValues(i, j, dir)

Elements(seq) == {seq[k] : k \in DOMAIN seq}

mergeLegs(payerLeg, payeeLeg, meta, dir, limit) ==
  Take(Sorted(Elements(payerLeg) \cup Elements(payeeLeg),
              LAMBDA i, j : compareForMerge(i, j, meta, dir) < 0),
       limit)

FetchRows(q, dir, cursor, limit) ==
  LET meta == sortMeta(q.column)
      leg(property) == fetchLeg(q.criteria, meta, dir, cursor, limit, property)
  IN IF Caller = NoFsp THEN leg("none")
     ELSE mergeLegs(leg("payer"), leg("payee"), meta, dir, limit)

buildPageInfoSwapped(position, hasMore, page, meta) ==
  [hasNext |-> position # "last" /\ hasMore,
   hasPrev |-> position # "first",
   startCursor |-> IF page = <<>> THEN NoCursor ELSE encodeCursor(page[1], meta),
   endCursor |-> IF page = <<>> THEN NoCursor ELSE encodeCursor(page[Len(page)], meta)]

buildPageInfo(position, hasMore, page, meta) ==
  [hasNext |-> position = "prev" \/ (position \in {"next", "first"} /\ hasMore),
   hasPrev |-> position = "next" \/ (position \in {"prev", "last"} /\ hasMore),
   startCursor |-> IF page = <<>> THEN NoCursor ELSE encodeCursor(page[1], meta),
   endCursor |-> IF page = <<>> THEN NoCursor ELSE encodeCursor(page[Len(page)], meta)]

Reverse(seq) == [k \in 1..Len(seq) |-> seq[Len(seq) + 1 - k]]

(* TransactionsAuditController: next and prev without a token are the first page. *)
resolveCursor(q) ==
  IF q.position \in {"next", "prev"} /\ q.token = NoCursor THEN "first" ELSE q.position

find(q) ==
  LET position == resolveCursor(q)
      reverse  == position \in {"prev", "last"}
      dir      == IF reverse THEN Flip(q.direction) ELSE q.direction
      token    == IF position \in {"next", "prev"} THEN q.token ELSE NoCursor
      found    == FetchRows(q, dir, token, Size + 1)
      read     == Take(found, Size)
      page     == IF reverse THEN Reverse(read) ELSE read
  IN [records  |-> page,
      pageInfo |-> buildPageInfo(position, Len(found) > Size, page, sortMeta(q.column))]

(* The rows a search is about: what the caller may see of what matches. *)
Visible(criteria) ==
  {i \in applyCriteria(criteria) : Caller = NoFsp \/ Caller \in {table[i].payer, table[i].payee}}

(* The probes stop one row past the limit, so the count saturates there. *)
count(criteria, limit) ==
  LET matched == Cardinality(Visible(criteria)) IN
  [count |-> IF matched < limit THEN matched ELSE limit,
   capped |-> matched > limit]

findForReportSkipping(q, cursor, limit) ==
  LET found == FetchRows(q, q.direction, cursor, limit + 1)
      page  == Take(found, limit)
  IN [records |-> page,
      nextCursor |-> IF Len(found) > limit
                     THEN encodeCursor(found[limit + 1], sortMeta(q.column)) ELSE NoCursor]

findForReport(q, cursor, limit) ==
  LET found == FetchRows(q, q.direction, cursor, limit + 1)
      page  == Take(found, limit)
  IN [records |-> page,
      nextCursor |-> IF Len(found) > limit
                     THEN encodeCursor(page[limit], sortMeta(q.column)) ELSE NoCursor]

----------------------------------------------------------------------------
(* The page: portal/src/pages/audit/AuditFindTransactionsPage.vue. *)

NoPage == [hasNext |-> FALSE, hasPrev |-> FALSE, startCursor |-> NoCursor, endCursor |-> NoCursor]

(* runSearch up to the request. *)
runSearch(v, position, token) ==
  /\ Cardinality(asked) < MaxAsked
  /\ asked' = asked \cup {[criteria |-> v.criteria, column |-> v.column,
                           direction |-> v.direction, position |-> position,
                           token |-> token]}
  /\ view' = [v EXCEPT !.loading = TRUE]

(* resetPagination, and the first page. *)
executeNewSearch(v) ==
  /\ searches < MaxSearches
  /\ searches' = searches + 1
  /\ runSearch([v EXCEPT !.pageInfo = NoPage, !.searched = TRUE], "first", NoCursor)
  /\ UNCHANGED <<table, report, touched, walk, changes>>

(* A search arrives through the route's query: the form, a link, the history. *)
applySearchRouteQuery(criteria, column, direction) ==
  executeNewSearch([view EXCEPT !.criteria = criteria, !.column = column,
                                !.direction = direction])

sortByColumn(column) ==
  /\ view.searched
  /\ executeNewSearch(
       IF view.column = column THEN [view EXCEPT !.direction = Flip(@)]
       ELSE [view EXCEPT !.column = column, !.direction = "ASC"])

Turn(position, token) ==
  /\ runSearch(view, position, token)
  /\ UNCHANGED <<table, report, touched, walk, searches, changes>>

goToPreviousPage ==
  /\ ~view.loading /\ view.pageInfo.hasPrev
  /\ Turn("prev", view.pageInfo.startCursor)

goToNextFromStart ==
  /\ ~view.loading /\ view.pageInfo.hasNext
  /\ Turn("next", view.pageInfo.startCursor)

goToNextPage ==
  /\ ~view.loading /\ view.pageInfo.hasNext
  /\ Turn("next", view.pageInfo.endCursor)

goToFirstPage ==
  /\ ~view.loading /\ view.pageInfo.hasPrev
  /\ Turn("first", NoCursor)

goToLastPage ==
  /\ ~view.loading /\ view.pageInfo.hasNext
  /\ Turn("last", NoCursor)

(* The rest of runSearch: the answer, and what it shows. *)
searchAnswered(q) ==
  LET answer   == find(q)
      shown    == answer.records
      position == resolveCursor(q)
  IN /\ asked' = asked \ {q}
     /\ view' = [view EXCEPT !.results = shown, !.shown = TRUE,
                             !.pageInfo = answer.pageInfo, !.loading = FALSE]
     /\ touched' = IF position \in {"first", "last"} THEN {} ELSE touched
     /\ walk' = CASE position = "first" -> [going |-> TRUE, seen |-> shown]
                  [] position = "next" /\ walk.going ->
                       [going |-> TRUE, seen |-> walk.seen \o shown]
                  [] OTHER -> [going |-> FALSE, seen |-> <<>>]
     /\ UNCHANGED <<table, report, searches, changes>>

searchFailed(q) ==
  /\ asked' = asked \ {q}
  /\ view' = [view EXCEPT !.results = <<>>, !.shown = FALSE, !.loading = FALSE]
  /\ UNCHANGED <<table, report, touched, walk, searches, changes>>

----------------------------------------------------------------------------
(* The report: core/audit/domain/reporting/transaction-report-generator.ts. *)

NoReport == [phase |-> "none", criteria |-> NoFsp, column |-> "started",
             direction |-> "DESC", total |-> 0, cursor |-> NoCursor, read |-> <<>>,
             touched |-> {}]

(* downloadTransactionReport, and generate up to the count: a search with more *)
(* rows than a report may have is refused. *)
generate ==
  LET counted == count(view.criteria, ReportLimit) IN
  /\ report.phase = "none"
  /\ view.searched /\ ~view.loading /\ ~(view.shown /\ view.results = <<>>)
  /\ report' = [NoReport EXCEPT !.phase = IF counted.capped THEN "refused"
                                          ELSE IF counted.count = 0 THEN "done"
                                          ELSE "reading",
                                !.criteria = view.criteria, !.column = view.column,
                                !.direction = view.direction, !.total = counted.count]
  /\ UNCHANGED <<table, view, asked, touched, walk, searches, changes>>

(* One round of readRows: no more rows than a page, than the file has room for, *)
(* and than were counted. *)
readRows ==
  LET written == Len(report.read)
      inFile  == FileRows - (written % FileRows)
      rest    == report.total - written
      limit   == CHOOSE n \in {ReportPage, inFile, rest} :
                   \A m \in {ReportPage, inFile, rest} : n <= m
      page    == findForReport(report, report.cursor, limit)
      read    == report.read \o page.records
  IN /\ report.phase = "reading"
     /\ report' = [report EXCEPT
                     !.read = read, !.cursor = page.nextCursor,
                     !.phase = IF Len(read) >= report.total \/ page.nextCursor = NoCursor
                               THEN "done" ELSE "reading"]
     /\ UNCHANGED <<table, view, asked, touched, walk, searches, changes>>

(* A read that fails ends the report; ReportDownload says what follows. *)
generateFails ==
  /\ report.phase = "reading"
  /\ report' = NoReport
  /\ UNCHANGED <<table, view, asked, touched, walk, searches, changes>>

----------------------------------------------------------------------------
(* Payments: a row is inserted, or a later message of its transfer is merged in. *)
Change(i, row) ==
  /\ changes < MaxChanges
  /\ changes' = changes + 1
  /\ table' = [table EXCEPT ![i] = row]
  /\ touched' = touched \cup {i}
  /\ report' = IF report.phase = "none" THEN report
               ELSE [report EXCEPT !.touched = @ \cup {i}]
  /\ UNCHANGED <<view, asked, walk, searches>>

Insert(i) == table[i] = NoRow /\ Change(i, Arrival[i])

(* ON DUPLICATE KEY UPDATE: an FSP is kept when only the row knows its party. *)
Merge(i) ==
  /\ table[i] # NoRow
  /\ \E payer \in {table[i].payer, Update[i].payer},
        payee \in {table[i].payee, Update[i].payee} :
       Change(i, [payer |-> payer, payee |-> payee,
                  started |-> IF Update[i].started < table[i].started
                              THEN Update[i].started ELSE table[i].started,
                  completed |-> IF Update[i].completed = Null
                                THEN table[i].completed ELSE Update[i].completed,
                  correlation |-> table[i].correlation])

SearchInit ==
  /\ table = [i \in Id |-> IF i \in Present THEN Arrival[i] ELSE NoRow]
  /\ view = [criteria |-> NoFsp, column |-> "started", direction |-> "DESC",
             searched |-> FALSE, results |-> <<>>, shown |-> FALSE,
             pageInfo |-> NoPage, loading |-> FALSE]
  /\ asked = {} /\ report = NoReport
  /\ touched = {} /\ walk = [going |-> FALSE, seen |-> <<>>]
  /\ searches = 0 /\ changes = 0

Browse ==
  \/ \E criteria \in Criteria, column \in Column, direction \in Direction :
       applySearchRouteQuery(criteria, column, direction)
  \/ \E column \in Column : sortByColumn(column)
  \/ goToPreviousPage \/ goToNextPage \/ goToFirstPage \/ goToLastPage
  \/ \E q \in asked : searchAnswered(q) \/ searchFailed(q)

SearchNext ==
  \/ Browse
  \/ generate \/ readRows \/ generateFails
  \/ \E i \in Id : Insert(i) \/ Merge(i)

SearchSpec == SearchInit /\ [][SearchNext]_searchVars

----------------------------------------------------------------------------
(* Properties. *)

Comes(i, j, q) == Before(i, j, q.column, q.direction)

(* The rows of S stand in seq in the order of q, and so none twice. *)
InOrder(seq, q, S) ==
  \A k, l \in DOMAIN seq :
    k < l /\ seq[k] \in S /\ seq[l] \in S => Comes(seq[k], seq[l], q)

(* seq holds, of the rows of S, the first ones of the whole result, each once and *)
(* in order: none is left out before one that is there. *)
Front(seq, q, S) ==
  LET all  == Visible(q.criteria) \cap S
      kept == Elements(seq) \cap S
  IN /\ InOrder(seq, q, S)
     /\ kept \subseteq all
     /\ \A i \in all, j \in kept : Comes(i, j, q) => i \in kept

(* seq leaves out no row of S. *)
LeavesOutNone(seq, q, S) == Visible(q.criteria) \cap S \subseteq Elements(seq)

(* A user who walks from the first page by Next (goToNextPage, find, keysetWhere,  *)
(* mergeLegs) is shown every row that did not change meanwhile: once, in order,    *)
(* none skipped, and all of them when there is no next page; whatever was inserted *)
(* or updated between two pages, and wherever it sorts.                            *)
WalkComplete ==
  (walk.going /\ view.shown /\ ~view.loading) =>
    LET calm == Id \ touched IN
    /\ Front(walk.seen, view, calm)
    /\ ~view.pageInfo.hasNext => LeavesOutNone(walk.seen, view, calm)

(* shown is a window of the result, a full one unless the result ends there, and   *)
(* info tells on which sides there are more rows.                                  *)
Window(shown, info, q) ==
  LET all  == Visible(q.criteria)
      page == Elements(shown)
      rest == all \ page
  IN /\ InOrder(shown, q, Id) /\ page \subseteq all
     /\ \A i \in rest, j, k \in page : ~(Comes(j, i, q) /\ Comes(i, k, q))
     /\ page = {} => all = {}
     /\ info.hasPrev <=> \E i \in rest, j \in page : Comes(i, j, q)
     /\ info.hasNext <=> \E i \in rest, j \in page : Comes(j, i, q)
     /\ Len(shown) <= Size
     /\ info.hasPrev /\ info.hasNext => Len(shown) = Size

(* As long as no row changes, whatever way the user came (First, Prev, Next, Last, *)
(* after failed requests too), the page is a window of the result, a full one      *)
(* unless the result ends there, and Prev and Next are offered exactly when there  *)
(* are rows on that side (find, buildPageInfo).                                    *)
PageIsWindow ==
  (view.shown /\ ~view.loading /\ touched = {}) => Window(view.results, view.pageInfo, view)

(* A report (generate, readRows, findForReport) has, of the rows that did not      *)
(* change while it was read, the first ones of the search, once and in order, over *)
(* every boundary of a page and of a file; and it has every row when none changed. *)
ReportComplete ==
  report.phase = "done" =>
    /\ Front(report.read, report, Id \ report.touched)
    /\ report.touched = {} => LeavesOutNone(report.read, report, Id)

----------------------------------------------------------------------------
(* Why they hold. A cursor is a place in the order that no change moves: what was  *)
(* read lies before it and the rest after it, for every row that did not change    *)
(* since, and even when the row it was taken from did.                             *)

Cursor == [v: Nat, id: Nat]
Position == {"first", "last", "prev", "next"}
PageInfo == [hasNext: BOOLEAN, hasPrev: BOOLEAN, startCursor: Cursor, endCursor: Cursor]
PageRequest == [criteria: Criteria, column: Column, direction: Direction,
                position: Position, token: Cursor]
View == [criteria: Criteria, column: Column, direction: Direction,
         searched: BOOLEAN, results: Seq(Id), shown: BOOLEAN,
         pageInfo: PageInfo, loading: BOOLEAN]
ReportState == [phase: {"none", "refused", "reading", "done"}, criteria: Criteria,
                column: Column, direction: Direction, total: Nat, cursor: Cursor,
                read: Seq(Id), touched: SUBSET Id]

SearchTypeOK ==
  /\ table \in [Id -> Transaction \cup {NoRow}]
  /\ view \in View /\ report \in ReportState
  /\ asked \subseteq PageRequest /\ IsFiniteSet(asked)
  /\ touched \subseteq Id
  /\ walk \in [going: BOOLEAN, seen: Seq(Id)]
  /\ searches \in Nat /\ changes \in Nat

(* Row i is beyond the cursor. *)
Beyond(i, cursor, q) ==
  cursor = NoCursor \/ keysetWhere(sortMeta(q.column), q.direction, cursor, i)

(* Of the rows of S, seq holds exactly those that are not beyond the cursor. *)
Frontier(seq, q, cursor, S) ==
  /\ InOrder(seq, q, S)
  /\ Elements(seq) \cap S \subseteq Visible(q.criteria)
  /\ \A i \in Visible(q.criteria) \cap S : i \in Elements(seq) <=> ~Beyond(i, cursor, q)

(* One request at a time: it is about what the page is about, and starts from the  *)
(* page's own cursors.                                                             *)
RequestsFit ==
  \A q \in asked :
    /\ asked = {q} /\ view.loading
    /\ q.criteria = view.criteria /\ q.column = view.column /\ q.direction = view.direction
    /\ q.position = "next" => view.pageInfo.hasNext /\ q.token = view.pageInfo.endCursor
    /\ q.position = "prev" => view.pageInfo.hasPrev /\ q.token = view.pageInfo.startCursor

(* A cursor is the present place of its row when no row has changed, and there are *)
(* rows where the page says there are.                                             *)
AtRow(cursor, q) ==
  cursor.id \in Visible(q.criteria) /\ cursor = encodeCursor(cursor.id, sortMeta(q.column))

CursorsAt(info, q) ==
  /\ info.hasNext =>
       /\ AtRow(info.endCursor, q)
       /\ \E i \in Visible(q.criteria) : Comes(info.endCursor.id, i, q)
  /\ info.hasPrev =>
       /\ AtRow(info.startCursor, q)
       /\ \E i \in Visible(q.criteria) : Comes(i, info.startCursor.id, q)

CursorsFit == touched = {} => CursorsAt(view.pageInfo, view)

WalkFits ==
  walk.going /\ view.pageInfo.hasNext =>
    Frontier(walk.seen, view, view.pageInfo.endCursor, Id \ touched)

ReportFits ==
  report.phase = "reading" =>
    /\ Frontier(report.read, report, report.cursor, Id \ report.touched)
    /\ Len(report.read) < report.total
    /\ report.touched = {} => report.total = Cardinality(Visible(report.criteria))

SearchInv ==
  /\ SearchTypeOK /\ RequestsFit /\ CursorsFit /\ WalkFits /\ ReportFits
  /\ WalkComplete /\ PageIsWindow /\ ReportComplete
============================================================================
