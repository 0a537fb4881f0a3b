------------------------------- MODULE Tools -------------------------------
(***************************************************************************)
(* The query tools of the MCP server (src/server.rs): how a request        *)
(* becomes a query with positional parameters, or an error, and what the   *)
(* query returns.  The pool that runs it is ServingPool; get_filing is     *)
(* FilingCache.  A behaviour is one call, on the Serving it got; whether a *)
(* query fails there (a timeout, a panic, an error of DuckDB) is part of   *)
(* the Serving.                                                            *)
(*                                                                         *)
(* Texts that are matched or parsed are sequences: characters for names    *)
(* and patterns, digits 0..9 and Dash for dates.  An optional argument is  *)
(* a sequence of at most one element.  A row is a record, a date in it the *)
(* number yyyymmdd.                                                        *)
(***************************************************************************)
EXTENDS Validator

CONSTANTS
  Calls,           \* the requests looked at
  Tables,          \* the set of rows of each table and view, by name
  Servings,        \* the serving databases looked at: the relations loaded, tables
                   \* before views, and whether queries fail
  MaxRows,         \* MAX_ROWS (5000)
  SearchDefault,   \* default limits: 20 of search_tickers,
  ListDefault,     \* 50 of get_announcements and screen_stocks
  NumFields, TextFields,  \* SCREEN_FIELDS_NUM, SCREEN_FIELDS_TEXT
  Null             \* SQL's NULL

ASSUME LimitsAssumption == {MaxRows, SearchDefault, ListDefault} \subseteq Nat \ {0}
ASSUME FieldsAssumption == NumFields \cap TextFields = {}

IsSeq(s) == Len(s) \in Nat /\ s = [i \in 1..Len(s) |-> s[i]]
IsOptional(arg) == arg = <<>> \/ arg = <<arg[1]>>

\* What a relation holds, when it is loaded, is finite and of its columns' types.
ASSUME TablesAssumption ==
  /\ \A relation \in {"companies", "fundamentals", "summary", "eod_summary",
                      "broker_activity", "ownership", "announcements", "latest"} :
       IsFiniteSet(Tables[relation])
  /\ \A row \in Tables["companies"] : \A name \in {row.ticker, row.company_name} \ {Null} :
       Len(name) \in Nat
  /\ \A row \in Tables["latest"], field \in NumFields : row[field] \in Int \cup {Null}

\* A dataset that could not be read is not there, nor a view that needs it.
ASSUME ServingsAssumption ==
  \A s \in Servings : IsSeq(s.loaded) /\ ToSet(s.loaded) \subseteq Catalog /\ s.fails \in BOOLEAN

VARIABLES call, serving, answer
vars == <<call, serving, answer>>

Pending == [status |-> "pending", rows |-> <<>>, truncated |-> FALSE]
Rows(rows) == [status |-> "rows", rows |-> rows, truncated |-> FALSE]
Error(status) == [status |-> status, rows |-> <<>>, truncated |-> FALSE]

Init == call \in Calls /\ serving \in Servings /\ answer = Pending

-----------------------------------------------------------------------------
(* DuckDB: a query is a relation, AND-ed clauses with holes ("?") or inlined *)
(* values, sort keys, and a limit; the k-th hole takes the k-th parameter.   *)

\* s ILIKE p ESCAPE '\', on characters.  A match is where in s a part of the
\* pattern may end, and whether its last character escapes the next.
Matched(s, match, c) ==
  IF match.escaped \/ c \notin {"%", "_", "\\"}
  THEN [escaped |-> FALSE,
        at |-> {i + 1 : i \in {n \in match.at : n <= Len(s) /\ Lower(s[n]) = Lower(c)}}]
  ELSE CASE c = "%" -> [match EXCEPT !.at = {i \in 1..(Len(s) + 1) : \E n \in match.at : n <= i}]
         [] c = "_" -> [match EXCEPT !.at = {i + 1 : i \in match.at \ {Len(s) + 1}}]
         [] OTHER   -> [match EXCEPT !.escaped = TRUE]

Like(s, p) ==
  LET match[k \in 0..Len(p)] ==
        IF k = 0 THEN [escaped |-> FALSE, at |-> {1}] ELSE Matched(s, match[k - 1], p[k])
  IN ~ match[Len(p)].escaped /\ Len(s) + 1 \in match[Len(p)].at

\* Comparing with NULL is not true.
Compare(x, op, args) ==
  /\ x # Null
  /\ CASE op \in {"=", "is"} -> x = args[1]
       [] op = "!=" -> x # args[1]
       [] op = "<"  -> x < args[1]
       [] op = "<=" -> x <= args[1]
       [] op = ">"  -> x > args[1]
       [] op = ">=" -> x >= args[1]
       [] op = "between" -> x >= args[1] /\ x <= args[2]
       [] op = "in" -> x \in ToSet(args)

\* A clause compares one field, or matches a pattern with one of two.
Holds(row, clause, args) ==
  IF clause.op = "like"
  THEN \/ row.ticker # Null /\ Like(row.ticker, args[1])
       \/ row.company_name # Null /\ Like(row.company_name, args[2])
  ELSE Compare(row[clause.field], clause.op, args)

\* Sorted by the keys, NULLS LAST (DuckDB's default, and what the screen asks).
KeyBefore(key, a, b) ==
  LET x == a[key.field]  y == b[key.field] IN
    x # Null /\ (y = Null \/ (IF key.desc THEN x > y ELSE x < y))

Before(order, a, b) ==
  \E k \in DOMAIN order :
    /\ KeyBefore(order[k], a, b)
    /\ \A i \in 1..(k - 1) : a[order[i].field] = b[order[i].field]

\* The place of the first hole of the i-th clause among those of all.
FirstHole(where, i) ==
  1 + Len(FlattenSeq([k \in 1..(i - 1) |-> [hole \in 1..where[k].holes |-> k]]))

Args(where, params, i) ==
  IF where[i].holes = 0 THEN where[i].inline
  ELSE LET first == FirstHole(where, i) IN SubSeq(params, first, first + where[i].holes - 1)

Selected(relation, where, params) ==
  {row \in Tables[relation] :
     \A i \in DOMAIN where : Holds(row, where[i], Args(where, params, i))}

\* The first rows in order: each is one that no row left over comes before, so
\* rows that the keys do not tell apart come in any order.
Execute(relation, where, params, order, limit) ==
  LET selected == Selected(relation, where, params)
      coming(rows) == LET left == selected \ ToSet(rows) IN
                      {row \in left : \A other \in left : ~ Before(order, other, row)}
      n == Min({limit, Cardinality(selected)})
      first[k \in 0..n] ==
        IF k = 0 THEN {<<>>}
        ELSE UNION {{Append(rows, row) : row \in coming(rows)} : rows \in first[k - 1]}
  IN first[n]

\* A query runs if its relation is there and it got as many parameters as it has
\* holes; it may fail all the same.
CanRun(relation, where, params) ==
  /\ relation \in ToSet(serving.loaded) /\ ~ serving.fails
  /\ FirstHole(where, Len(where) + 1) = Len(params) + 1

-----------------------------------------------------------------------------
(* Arguments. *)

Limit(limit, default) == Min({IF limit = <<>> THEN default ELSE limit[1], MaxRows})

\* Mutant: the escape character itself is not escaped.
escape_like_WildcardsOnly(s) ==
  FlattenSeq([i \in DOMAIN s |-> IF s[i] \in {"%", "_"} THEN <<"\\", s[i]>> ELSE <<s[i]>>])

escape_like(s) ==
  FlattenSeq([i \in DOMAIN s |-> IF s[i] \in {"%", "_", "\\"} THEN <<"\\", s[i]>> ELSE <<s[i]>>])

Dash == 10

IsLeapYear(y) == y % 4 = 0 /\ (y % 100 # 0 \/ y % 400 = 0)

DaysInMonth(y, m) ==
  CASE m \in {1, 3, 5, 7, 8, 10, 12} -> 31
    [] m \in {4, 6, 9, 11} -> 30
    [] m = 2 -> IF IsLeapYear(y) THEN 29 ELSE 28
    [] OTHER -> 0

Year(s)  == 1000 * s[1] + 100 * s[2] + 10 * s[3] + s[4]
Month(s) == 10 * s[6] + s[7]
Day(s)   == 10 * s[9] + s[10]

EnsureDate(s) ==
  /\ Len(s) = 10
  /\ \A i \in 1..10 : IF i \in {5, 8} THEN s[i] = Dash ELSE s[i] \in 0..9
  /\ Month(s) \in 1..12
  /\ Day(s) >= 1 /\ Day(s) <= DaysInMonth(Year(s), Month(s))

\* The clauses push_date_range appends; the value is inlined.
DateClause(op, date) ==
  IF date = <<>> THEN <<>>
  ELSE LET s == date[1] IN
    <<[field |-> "date", op |-> op, holes |-> 0,
       inline |-> <<10000 * Year(s) + 100 * Month(s) + Day(s)>>]>>

DatesOk(req) == \A date \in ToSet(req.from) \cup ToSet(req.to) : EnsureDate(date)

DateRange(req) == DateClause(">=", req.from) \o DateClause("<=", req.to)

Hole(field, op, n) == [field |-> field, op |-> op, holes |-> n, inline |-> <<>>]

Asc(field)  == [field |-> field, desc |-> FALSE]
Desc(field) == [field |-> field, desc |-> TRUE]

-----------------------------------------------------------------------------
(* build_screen.  A JSON value is a record with its kind: "num", "str" (with *)
(* `text`), "numstr" (a string that parses as a number), "arr" or "null".    *)
(* The text of a sector is its place in the order of texts.  "nan" and "inf" *)
(* parse as well; DuckDB orders them after all numbers, like a large one.    *)

IsNum(v)  == v.kind \in {"num", "numstr"}
IsText(v) == v.kind \in {"str", "numstr"}

\* The text of a clause, with its holes, and the parameters pushed beside it.
Clause(field, op, holes, values) ==
  [ok |-> TRUE, clause |-> Hole(field, op, holes), params |-> values]
Rejected == [ok |-> FALSE]

NumericClause(field, op, v) ==
  CASE op \in {"=", "!=", "<", "<=", ">", ">="} /\ IsNum(v) -> Clause(field, op, 1, <<v.n>>)
    [] /\ op = "between" /\ v.kind = "arr"
       /\ Len(v.items) = 2 /\ IsNum(v.items[1]) /\ IsNum(v.items[2]) ->
         Clause(field, op, 2, <<v.items[1].n, v.items[2].n>>)
    [] OTHER -> Rejected

\* Mutant: IN has one hole, whatever the number of its values.
TextClause_OneHole(field, op, v) ==
  CASE op = "=" /\ IsText(v) -> Clause(field, "is", 1, <<v.text>>)
    [] op = "in" /\ v.kind = "arr" /\ v.items # <<>> /\ \A x \in ToSet(v.items) : IsText(x) ->
         Clause(field, op, 1, [i \in DOMAIN v.items |-> v.items[i].text])
    [] OTHER -> Rejected

TextClause(field, op, v) ==
  CASE op = "=" /\ IsText(v) -> Clause(field, "is", 1, <<v.text>>)
    [] op = "in" /\ v.kind = "arr" /\ v.items # <<>> /\ \A x \in ToSet(v.items) : IsText(x) ->
         Clause(field, op, Len(v.items), [i \in DOMAIN v.items |-> v.items[i].text])
    [] OTHER -> Rejected

ScreenClause(f) ==
  LET field == Lower(f.field)  op == Lower(f.op) IN
    CASE field \in NumFields -> NumericClause(field, op, f.value)
      [] field \in TextFields -> TextClause(field, op, f.value)
      [] OTHER -> Rejected

CanSort(sort) == \A s \in ToSet(sort) : Lower(s.field) \in NumFields \cup TextFields

\* Without a sort the largest companies come first; a sort descends by default.
ScreenOrder(sort) ==
  IF sort = <<>> THEN <<Desc("market_cap")>>
  ELSE <<[field |-> Lower(sort[1].field), desc |-> sort[1].desc \in {<<>>, <<TRUE>>}]>>

\* What the types of the requests promise: numbers are numbers, texts are there.
IsScalar(v) == (IsNum(v) => v.n \in Int) /\ (IsText(v) => v.text # Null)
IsValue(v) ==
  /\ IsScalar(v)
  /\ v.kind = "arr" => IsSeq(v.items) /\ \A x \in ToSet(v.items) : IsScalar(x)

ASSUME CallsAssumption ==
  \A c \in Calls :
    /\ c.tool \in {"search_tickers", "get_announcements", "screen_stocks", "run_query"} =>
         c.limit \in Seq(Nat)
    /\ c.tool \in {"get_prices", "get_broker_activity", "get_announcements"} =>
         IsOptional(c.from) /\ IsOptional(c.to)
    /\ c.tool \in {"get_company", "get_prices", "get_broker_activity", "get_ownership"} =>
         c.ticker # Null
    /\ c.tool = "search_tickers" => IsSeq(c.query)
    /\ c.tool = "get_announcements" => IsOptional(c.ticker_filter) /\ Null \notin ToSet(c.ticker_filter)
    /\ c.tool = "screen_stocks" =>
         /\ IsSeq(c.filters) /\ \A f \in ToSet(c.filters) : IsValue(f.value)
         /\ IsOptional(c.sort) /\ \A s \in ToSet(c.sort) : s.desc \in {<<>>, <<TRUE>>, <<FALSE>>}
    /\ c.tool = "run_query" =>
         c.result \in Nat /\ \A i \in 1..Len(c.sql) : SyntaxTree(c.sql[i])

-----------------------------------------------------------------------------
(* The tools. *)

Asked(tool) == answer = Pending /\ call.tool = tool
Reply(a) == answer' = a /\ UNCHANGED <<call, serving>>
Refuse == Reply(Error("invalid"))
Fail == Reply(Error("failed"))

Query(relation, where, params, order, limit) ==
  IF CanRun(relation, where, params)
  THEN \E rows \in Execute(relation, where, params, order, limit) : Reply(Rows(rows))
  ELSE Fail

SearchTickers ==
  /\ Asked("search_tickers")
  /\ LET pattern == <<"%">> \o escape_like(call.query) \o <<"%">> IN
       Query("companies", <<Hole("ticker", "like", 2)>>, <<pattern, pattern>>,
             <<>>, Limit(call.limit, SearchDefault))

\* `first` takes the first row of each query, if there is one; only the key
\* statistics have several rows per ticker.  One query failing fails the call.
GetCompany ==
  /\ Asked("get_company")
  /\ LET where == <<Hole("ticker", "is", 1)>>
         first(relation, order) == Execute(relation, where, <<call.ticker>>, order, 1)
     IN IF \A relation \in {"companies", "fundamentals", "summary"} :
             CanRun(relation, where, <<call.ticker>>)
        THEN \E profile \in first("companies", <<>>),
                key_stats \in first("fundamentals", <<Desc("date")>>),
                summary \in first("summary", <<>>) :
               Reply(Rows(<<profile, key_stats, summary>>))
        ELSE Fail

OfTicker(relation, order) ==
  IF DatesOk(call)
  THEN Query(relation, <<Hole("ticker", "is", 1)>> \o DateRange(call),
             <<call.ticker>>, order, MaxRows)
  ELSE Refuse

GetPrices == Asked("get_prices") /\ OfTicker("eod_summary", <<Asc("date")>>)

GetBrokerActivity ==
  Asked("get_broker_activity") /\ OfTicker("broker_activity", <<Asc("date"), Desc("value")>>)

GetOwnership ==
  /\ Asked("get_ownership")
  /\ Query("ownership", <<Hole("ticker", "is", 1)>>, <<call.ticker>>, <<Desc("percentage")>>, MaxRows)

\* The ticker's clause and its parameter are there together or not at all.
GetAnnouncements ==
  /\ Asked("get_announcements")
  /\ IF DatesOk(call)
     THEN Query("announcements",
            (IF call.ticker_filter = <<>> THEN <<>> ELSE <<Hole("ticker", "is", 1)>>)
              \o DateRange(call),
            call.ticker_filter, <<Desc("date")>>, Limit(call.limit, ListDefault))
     ELSE Refuse

ScreenStocks ==
  /\ Asked("screen_stocks")
  /\ LET built == [i \in DOMAIN call.filters |-> ScreenClause(call.filters[i])] IN
       IF (\A i \in DOMAIN built : built[i].ok) /\ CanSort(call.sort)
       THEN Query("latest",
              [i \in DOMAIN built |-> built[i].clause],
              FlattenSeq([i \in DOMAIN built |-> built[i].params]),
              ScreenOrder(call.sort), Limit(call.limit, ListDefault))
       ELSE Refuse

\* The columns of each relation described are a query of their own.
DescribeSchema ==
  /\ Asked("describe_schema")
  /\ LET described(name) == call.dataset = <<>> \/ Lower(call.dataset[1]) = Lower(name)
         names == FlattenSeq([i \in DOMAIN serving.loaded |->
           IF described(serving.loaded[i]) THEN <<serving.loaded[i]>> ELSE <<>>])
     IN IF serving.fails /\ names # <<>> THEN Fail ELSE Reply(Rows(names))

Cap(limit) == Max({1, Min({IF limit = <<>> THEN MaxRows ELSE limit[1], MaxRows})})

\* Mutant: no row more than the cap is fetched.
Capped_NoExtraRow(result, cap) ==
  LET fetched == Min({result, cap}) IN
    [status |-> "rows", rows |-> [i \in 1..Min({fetched, cap}) |-> i],
     truncated |-> fetched > cap]

\* exec_validated asks for one row more than the cap; if it comes, rows were
\* cut.  The query has `result` rows.
Capped(result, cap) ==
  LET fetched == Min({result, cap + 1}) IN
    [status |-> "rows", rows |-> [i \in 1..Min({fetched, cap}) |-> i],
     truncated |-> fetched > cap]

\* The validator asks DuckDB for the tree; a query it lets pass is DuckDB's to
\* resolve, which may not find a table or find one of its own.
RunQuery ==
  /\ Asked("run_query")
  /\ Reply(CASE serving.fails -> Error("failed")
             [] ~ serving.fails /\ ~ Validate(call.sql) -> Error("refused")
             [] OTHER -> IF Binds(call.sql[1], ToSet(serving.loaded))
                         THEN Capped(call.result, Cap(call.limit)) ELSE Error("failed"))

Next ==
  \/ SearchTickers \/ GetCompany \/ GetPrices \/ GetBrokerActivity \/ GetOwnership
  \/ GetAnnouncements \/ ScreenStocks \/ DescribeSchema \/ RunQuery

Spec == Init /\ [][Next]_vars

-----------------------------------------------------------------------------
(* What was asked, read off the request without SQL, parameters or escapes. *)

\* The Gregorian calendar by day numbers: a day of a month is real if it comes
\* before the first of the next month.
DayNumber(y, m, d) ==
  LET shifted == IF m > 2 THEN y ELSE y - 1
      era == shifted \div 400
      yoe == shifted % 400
      doy == (153 * (IF m > 2 THEN m - 3 ELSE m + 9) + 2) \div 5 + d - 1
  IN era * 146097 + yoe * 365 + yoe \div 4 - yoe \div 100 + doy

IsRealDate(s) ==
  /\ Len(s) = 10 /\ s[5] = Dash /\ s[8] = Dash
  /\ \A i \in 1..10 \ {5, 8} : s[i] \in 0..9
  /\ LET y == Year(s)  m == Month(s)  d == Day(s) IN
       /\ m \in 1..12 /\ d > 0
       /\ DayNumber(y, m, d) <
            (IF m = 12 THEN DayNumber(y + 1, 1, 1) ELSE DayNumber(y, m + 1, 1))

\* q occurs in s, whatever the case of the letters.
Contained(q, s) ==
  /\ s # Null
  /\ \E i \in 0..(Len(s) - Len(q)) : \A k \in DOMAIN q : Lower(s[i + k]) = Lower(q[k])

\* A row without a date is in no range that has an end.
InRange(row, req) ==
  LET number(s) == 10000 * Year(s) + 100 * Month(s) + Day(s) IN
    /\ \A s \in ToSet(req.from) : row.date # Null /\ row.date >= number(s)
    /\ \A s \in ToSet(req.to) : row.date # Null /\ row.date <= number(s)

\* Is the filter one the tool documents (server.rs:120-124), with numbers of the
\* kinds given?  The documentation has strings for the sector only.
IsFilter(f, numbers) ==
  \/ /\ Lower(f.field) \in NumFields
     /\ IF Lower(f.op) = "between"
        THEN /\ f.value.kind = "arr" /\ Len(f.value.items) = 2
             /\ \A v \in ToSet(f.value.items) : v.kind \in numbers
        ELSE Lower(f.op) \in {"=", "!=", "<", "<=", ">", ">="} /\ f.value.kind \in numbers
  \/ /\ Lower(f.field) \in TextFields
     /\ \/ Lower(f.op) = "=" /\ f.value.kind \in {"str", "numstr"}
        \/ /\ Lower(f.op) = "in" /\ f.value.kind = "arr" /\ f.value.items # <<>>
           /\ \A v \in ToSet(f.value.items) : v.kind \in {"str", "numstr"}

Passes(row, f) ==
  LET x == row[Lower(f.field)]  op == Lower(f.op)  v == f.value IN
    IF Lower(f.field) \in TextFields
    THEN x \in {w.text : w \in IF op = "in" THEN ToSet(v.items) ELSE {v}}
    ELSE /\ x # Null
         /\ CASE op = "between" -> v.items[1].n <= x /\ x <= v.items[2].n
              [] op = "="  -> x = v.n  [] op = "!=" -> x # v.n
              [] op = "<"  -> x < v.n  [] op = "<=" -> x <= v.n
              [] op = ">"  -> x > v.n  [] op = ">=" -> x >= v.n

IsAcceptable(c, numbers) ==
  /\ c.tool \in {"get_prices", "get_broker_activity", "get_announcements"} =>
       \A s \in ToSet(c.from) \cup ToSet(c.to) : IsRealDate(s)
  /\ c.tool = "screen_stocks" =>
       /\ \A f \in ToSet(c.filters) : IsFilter(f, numbers)
       /\ \A s \in ToSet(c.sort) : Lower(s.field) \in NumFields \cup TextFields

IsLegal(c) == IsAcceptable(c, {"num"})
IsTolerable(c) == IsAcceptable(c, {"num", "numstr"})

Of(relation, Test(_)) == {row \in Tables[relation] : Test(row)}

Wanted(c) ==
  CASE c.tool = "search_tickers" ->
         Of("companies", LAMBDA r : Contained(c.query, r.ticker) \/ Contained(c.query, r.company_name))
    [] c.tool = "get_prices" ->
         Of("eod_summary", LAMBDA r : r.ticker = c.ticker /\ InRange(r, c))
    [] c.tool = "get_broker_activity" ->
         Of("broker_activity", LAMBDA r : r.ticker = c.ticker /\ InRange(r, c))
    [] c.tool = "get_ownership" -> Of("ownership", LAMBDA r : r.ticker = c.ticker)
    [] c.tool = "get_announcements" ->
         Of("announcements", LAMBDA r : ToSet(c.ticker_filter) \subseteq {r.ticker} /\ InRange(r, c))
    [] c.tool = "screen_stocks" ->
         Of("latest", LAMBDA r : \A f \in ToSet(c.filters) : Passes(r, f))

Order(c) ==
  CASE c.tool = "search_tickers" -> <<>>
    [] c.tool = "get_prices" -> <<Asc("date")>>
    [] c.tool = "get_broker_activity" -> <<Asc("date"), Desc("value")>>
    [] c.tool = "get_ownership" -> <<Desc("percentage")>>
    [] c.tool = "get_announcements" -> <<Desc("date")>>
    [] c.tool = "screen_stocks" /\ c.sort = <<>> -> <<Desc("market_cap")>>
    [] c.tool = "screen_stocks" /\ c.sort # <<>> ->
         <<[field |-> Lower(c.sort[1].field), desc |-> c.sort[1].desc # <<FALSE>>]>>

\* The numbers rows may be cut at: the limit asked for or the default the tool
\* documents, and MAX_ROWS, which the tools without a limit do not mention.
Bounds(c) ==
  {MaxRows} \cup
    CASE c.tool = "search_tickers" -> {IF c.limit = <<>> THEN SearchDefault ELSE c.limit[1]}
      [] c.tool \in {"get_announcements", "screen_stocks"} ->
           {IF c.limit = <<>> THEN ListDefault ELSE c.limit[1]}
      [] OTHER -> {}

\* rows are the first ones of S in the order given; cut, if at all, at a bound.
FirstOf(rows, S, order, bounds) ==
  /\ IsInjective(rows) /\ ToSet(rows) \subseteq S
  /\ \A n \in bounds : Len(rows) <= n
  /\ S \subseteq ToSet(rows) \/ Len(rows) \in bounds
  /\ \A i, k \in DOMAIN rows : i < k => ~ Before(order, rows[k], rows[i])
  /\ \A r \in S \ ToSet(rows), i \in DOMAIN rows : ~ Before(order, r, rows[i])

-----------------------------------------------------------------------------
ListTools == {"search_tickers", "get_prices", "get_broker_activity", "get_ownership",
              "get_announcements", "screen_stocks"}

Sources(c) ==
  CASE c.tool = "search_tickers" -> {"companies"}
    [] c.tool = "get_company" -> {"companies", "fundamentals", "summary"}
    [] c.tool = "get_prices" -> {"eod_summary"}
    [] c.tool = "get_broker_activity" -> {"broker_activity"}
    [] c.tool = "get_ownership" -> {"ownership"}
    [] c.tool = "get_announcements" -> {"announcements"}
    [] c.tool = "screen_stocks" -> {"latest"}

\* What a request that is not refused comes to.
Outcome(c) ==
  IF Sources(c) \subseteq ToSet(serving.loaded) /\ ~ serving.fails THEN "rows" ELSE "failed"

\* A call of a typed tool that is as documented is answered if what it asks for
\* is loaded and no query fails: "the typed tools shouldn't fail on valid input"
\* (server.rs:517).  One with an impossible date, or with a filter or sort that
\* even numbers written as strings do not excuse, is refused.
RefusalsAreRight ==
  (answer # Pending /\ call.tool \in ListTools \cup {"get_company"}) =>
    /\ IsLegal(call) => answer.status = Outcome(call)
    /\ ~ IsTolerable(call) => answer.status = "invalid"
    /\ answer.status \in {"invalid", Outcome(call)}

ListIsRight(c, rows) == FirstOf(rows, Wanted(c), Order(c), Bounds(c))

CompanyIsRight(c, firsts) ==
  \A i \in 1..3 :
    FirstOf(firsts[i],
      Of(<<"companies", "fundamentals", "summary">>[i], LAMBDA r : r.ticker = c.ticker),
      IF i = 2 THEN <<Desc("date")>> ELSE <<>>, {1})

SchemaIsRight(c, names) ==
  ToSet(names) = {n \in ToSet(serving.loaded) : c.dataset = <<>> \/ n = Lower(c.dataset[1])}

\* The typed tools answer what was asked: what is not refused returns, unless
\* the data is missing or a query fails, exactly the rows the request describes,
\* in the order of the tool, up to the limit.  So no parameter is missing or
\* slips into another's hole, a searched text is taken literally (server.rs:524),
\* and NULLs neither pass a filter nor lead.
AnswersAreWhatWasAsked ==
  /\ RefusalsAreRight
  /\ answer.status = "rows" =>
    /\ call.tool \in ListTools => ListIsRight(call, answer.rows)
    /\ call.tool = "get_company" => CompanyIsRight(call, answer.rows)
    /\ call.tool = "describe_schema" => SchemaIsRight(call, answer.rows)
  /\ (call.tool = "describe_schema" /\ answer.status = "failed") => serving.fails

\* run_query says that rows were cut exactly when some were (analytics.rs:45),
\* cuts only at the limit asked for or the hard cap, and never returns more, but
\* for a limit of 0, which returns a row.
TruncationIsTold ==
  (call.tool = "run_query" /\ answer.status = "rows") =>
    LET n == Len(answer.rows)
        asked == IF call.limit = <<>> THEN MaxRows ELSE call.limit[1]
    IN /\ answer.truncated <=> n < call.result
       /\ n <= MaxRows /\ n <= Max({1, asked})
       /\ n < call.result => n = MaxRows \/ n >= asked

\* run_query refuses no single SELECT whose tables are, by scope, common table
\* expressions of its own or in the catalog, and whose table functions are safe;
\* and it answers only single SELECTs without other functions, whose tables are
\* those, loaded, or at least bear a name the query itself introduces somewhere,
\* whatever schemas they are asked for in (analytics.rs:613).
QueriesAreVetted ==
  (call.tool = "run_query" /\ answer # Pending) =>
    LET single == Len(call.sql) = 1 /\ NotSelect \notin ToSet(call.sql)
        tree == call.sql[1]
    IN /\ /\ single /\ OnlySafeFunctions(tree)
          /\ \A path \in BaseTables(tree) : IsCte(tree, path) \/ IsServed(tree[path], Catalog)
          => answer.status # "refused"
       /\ answer.status = "rows" =>
            /\ single /\ OnlySafeFunctions(tree)
            /\ \A path \in BaseTables(tree) :
                 \/ IsCte(tree, path) \/ IsServed(tree[path], ToSet(serving.loaded))
                 \/ IsNameOfCte(tree, tree[path].name)

\* "every base table in the allowlist" (analytics.rs:614): what run_query answers
\* from is in the catalog, but for the query's own expressions.  The code does
\* not keep this: the names of the expressions exempt a table anywhere.
OnlyCatalogIsRead ==
  (call.tool = "run_query" /\ answer.status = "rows") =>
    LET tree == call.sql[1] IN
      \A path \in BaseTables(tree) : IsCte(tree, path) \/ IsServed(tree[path], Catalog)
=============================================================================
