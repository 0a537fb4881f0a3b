------------------------------ MODULE MCTools ------------------------------
(* Requests and a database for the query tools.  Spellings that are not in  *)
(* lower case are listed in MCLowerCase.                                    *)
EXTENDS Tools

MCCatalog == {"companies", "fundamentals", "summary", "eod_summary", "broker_activity",
              "ownership", "announcements", "latest"}
MCSafeFunctions == {"range"}
MCSystemTables == {"pg_tables"}
MCLowerCase == [EOD_SUMMARY |-> "eod_summary", RANGE |-> "range", X |-> "x", A |-> "a",
                CLOSE |-> "close", BETWEEN |-> "between"]
MCServings ==
  LET all == <<"companies", "fundamentals", "summary", "eod_summary", "broker_activity",
               "ownership", "announcements", "latest">>
  IN {[loaded |-> all, fails |-> FALSE], [loaded |-> all, fails |-> TRUE],
      [loaded |-> <<"companies", "fundamentals", "announcements", "latest">>, fails |-> FALSE]}
MCNumFields == {"market_cap", "close"}
MCTextFields == {"sector"}

None == <<>>
Upto(S) == {None} \cup {<<x>> : x \in S}

-----------------------------------------------------------------------------
(* The database: more rows than the limits, ties, and NULLs. *)

T1 == <<"a", "b">>
T2 == <<"b", "%">>
Unlisted == <<"b", "b", "b">>
Tickers == {T1, T2, Unlisted}

Row(ticker, date, value) == [ticker |-> ticker, date |-> date, value |-> value]
Days == {Row(T1, 20240301, 2), Row(T1, 20240228, 1), Row(T2, 20240229, 5), Row(T1, 20240229, 3),
          Row(T1, 20240229, 4), Row(T1, 20231231, Null), Row(T1, 20231231, 0), Row(T2, 20231231, 1), Row(T1, Null, 3)}

Stock(ticker, cap, close, sector) ==
  [ticker |-> ticker, market_cap |-> cap, close |-> close, sector |-> sector]

Company(ticker, name) == [ticker |-> ticker, company_name |-> name]

MCTables ==
  [companies |-> {Company(T1, <<"A", "%">>), Company(T2, <<"b", "_">>), Company(<<"c", "c">>, <<"\\", "a">>),
                  Company(<<"c", "d">>, <<"_", "A">>), Company(<<"d", "\\">>, Null)},
   fundamentals |-> Days, eod_summary |-> Days, broker_activity |-> Days, announcements |-> Days,
   summary |-> {[ticker |-> T2]},
   ownership |-> {[ticker |-> T1, percentage |-> 5], [ticker |-> T1, percentage |-> Null],
                  [ticker |-> T1, percentage |-> 40], [ticker |-> T2, percentage |-> 9]},
   latest |-> {Stock(T1, 2, 1, 1), Stock(T2, Null, 2, 2), Stock(<<"c", "c">>, 3, Null, 1),
               Stock(<<"c", "d">>, 1, 2, Null), Stock(<<"d", "a">>, 2, 3, 7)}]

-----------------------------------------------------------------------------
(* Dates: every month and the days around their ends, of years that decide  *)
(* leap years, and what is no date.                                         *)

Digits(n, width) == [i \in 1..width |-> (n \div (10 ^ (width - i))) % 10]
Date(y, m, d) == Digits(y, 4) \o <<Dash>> \o Digits(m, 2) \o <<Dash>> \o Digits(d, 2)

Calendar == {Date(y, m, d) : y \in {0, 1900, 2000, 2023, 2024, 2100}, m \in 0..13,
                             d \in {0, 1, 28, 29, 30, 31, 32}}

Letter == 11
LeapDay == Date(2024, 2, 29)
Malformed ==
  {None, SubSeq(LeapDay, 1, 9), LeapDay \o <<0>>, Digits(20240229, 8)}
    \cup {[LeapDay EXCEPT ![i] = c] : i \in 1..10, c \in {0, Dash, Letter}}

SomeDates == {Date(2023, 12, 31), Date(2024, 2, 28), LeapDay, Date(2024, 3, 1), Date(2023, 2, 29)}

Ranges ==
  {<<from, to>> : from \in Upto(SomeDates), to \in Upto(SomeDates)}
    \cup {<<<<date>>, None>> : date \in Calendar \cup Malformed}
    \cup {<<None, <<date>>>> : date \in Calendar \cup Malformed}

-----------------------------------------------------------------------------
(* Filters: every field, operator and kind of value, and pairs of some.     *)

Num(n) == [kind |-> "num", n |-> n]
Str(text) == [kind |-> "str", text |-> text]
NumStr(n, text) == [kind |-> "numstr", n |-> n, text |-> text]
Arr(items) == [kind |-> "arr", items |-> items]

Infinite == 1000000
Values == {Num(1), Num(2), NumStr(2, 7), NumStr(Infinite, 8), Str(1), [kind |-> "null"], Arr(<<>>), Arr(<<Num(1)>>),
           Arr(<<Num(1), NumStr(2, 7)>>), Arr(<<Num(3), Num(1)>>), Arr(<<Str(2), Str(1)>>),
           Arr(<<Num(1), Str(1)>>), Arr(<<Num(1), Num(2), Num(3)>>)}

Filter(field, op, value) == [field |-> field, op |-> op, value |-> value]

Filters == {Filter(field, op, v) :
              field \in {"market_cap", "CLOSE", "sector", "ticker"},
              op \in {"=", "!=", "<", "<=", ">", ">=", "between", "BETWEEN", "in", "like"},
              v \in Values}

SomeFilters ==
  {Filter(field, op, Num(2)) : field \in {"market_cap", "close"}, op \in {"!=", "<=", ">"}}
    \cup {Filter("close", "between", Arr(<<Num(1), Num(2)>>)), Filter("sector", "=", Str(1)),
          Filter("sector", "in", Arr(<<Str(1), NumStr(2, 7)>>)), Filter("market_cap", "in", Num(1))}

Sorts == Upto({[field |-> f, desc |-> d] :
                 f \in {"market_cap", "CLOSE", "sector", "ticker"}, d \in Upto({TRUE, FALSE})})

-----------------------------------------------------------------------------
(* SQL: selects of selects, with a common table expression or two.  A tree *)
(* is put together from those below its root.                               *)

Step(into, at) == [into |-> into, at |-> at]

Tree(root, ctes, parts) ==
  LET below == [step \in {Step("ctes", i) : i \in DOMAIN ctes}
                          \cup {Step("parts", i) : i \in DOMAIN parts} |->
                  IF step.into = "ctes" THEN ctes[step.at].query ELSE parts[step.at]]
      paths == {<<>>} \cup UNION {{<<step>> \o path : path \in DOMAIN below[step]} :
                                  step \in DOMAIN below}
  IN [path \in paths |-> IF path = <<>> THEN root ELSE below[Head(path)][Tail(path)]]

Leaf(kind, name, schema) ==
  Tree([kind |-> kind, name |-> name, schema |-> schema, ctes |-> <<>>], <<>>, <<>>)
Table(name) == Leaf("BASE_TABLE", name, "")
Select(ctes, parts) ==
  Tree([kind |-> "SELECT", name |-> "", schema |-> "", ctes |-> [i \in DOMAIN ctes |-> ctes[i].key]],
       ctes, parts)

Leaves == {Table(n) : n \in {"eod_summary", "EOD_SUMMARY", "x", "X", "other", "pg_tables"}}
            \cup {Leaf("BASE_TABLE", n, schema) :
                    n \in {"eod_summary", "x"}, schema \in {"main", "system"}}
            \cup {Leaf("TABLE_FUNCTION", n, "") : n \in {"range", "read_csv"}}

Simple == {Select(<<>>, <<leaf>>) : leaf \in Leaves}
Cte(key, query) == [key |-> key, query |-> query]
Ctes == {Cte(key, Select(<<>>, <<leaf>>)) : key \in {"x", "X", "pg_tables"},
           leaf \in {Table("eod_summary"), Table("x"), Leaf("TABLE_FUNCTION", "read_csv", "")}}
Withs == {Select(c, <<part>>) : c \in Upto(Ctes), part \in Leaves}

Trees ==
  {Select(<<>>, parts) : parts \in {<<>>} \cup (Withs \X Leaves) \cup (Leaves \X Withs)}
    \cup {Select(<<c>>, <<part>>) : c \in Ctes, part \in Withs}
    \cup {Select(<<Cte("x", part)>>, <<leaf>>) : part \in Withs, leaf \in Leaves}
    \cup {Select(<<Cte("x", q1), Cte("y", q2)>>, <<leaf>>) :
            q1 \in Simple \cup {Select(<<>>, <<Table("y")>>)}, q2 \in Simple,
            leaf \in {Table("x"), Table("y")}}

Plain == Select(<<>>, <<Table("eod_summary")>>)
Texts == {<<tree>> : tree \in Trees}
           \cup {<<>>, <<NotSelect>>, <<Plain, Plain>>, <<Plain, NotSelect>>, <<NotSelect, Plain>>}

-----------------------------------------------------------------------------
Limits == Upto(0..6)

MCCalls ==
  [tool : {"search_tickers"}, query : SeqOf({"a", "A", "%", "_", "\\"}, 2), limit : Limits]
    \cup [tool : {"get_company", "get_ownership"}, ticker : Tickers]
    \cup {[tool |-> tool, ticker |-> ticker, from |-> range[1], to |-> range[2]] :
            tool \in {"get_prices", "get_broker_activity"}, ticker \in Tickers, range \in Ranges}
    \cup {[tool |-> "get_announcements", ticker_filter |-> ticker, limit |-> limit,
           from |-> range[1], to |-> range[2]] :
            ticker \in Upto(Tickers), limit \in {None, <<0>>, <<2>>, <<5>>},
            range \in Upto(SomeDates) \X Upto(SomeDates)}
    \cup {[tool |-> "screen_stocks", filters |-> filters, sort |-> None, limit |-> limit] :
            filters \in Upto(Filters), limit \in Limits}
    \cup {[tool |-> "screen_stocks", filters |-> filters, sort |-> sort, limit |-> <<4>>] :
            filters \in SeqOf(SomeFilters, 2), sort \in Sorts}
    \cup [tool : {"describe_schema"}, dataset : Upto({"eod_summary", "EOD_SUMMARY", "latest", "other"})]
    \cup [tool : {"run_query"}, sql : Texts, limit : {None}, result : {1}]
    \cup [tool : {"run_query"}, sql : {<<Plain>>}, limit : Limits, result : 0..6]
=============================================================================
