----------------------------- MODULE Validator -----------------------------
(***************************************************************************)
(* The check of run_query's SQL (src/analytics.rs, `validate` and `walk`)  *)
(* over DuckDB's syntax tree, and what it is meant to decide.              *)
(*                                                                         *)
(* A text parses into a sequence of statements; one that is not a SELECT,  *)
(* or no SQL, is a NotSelect.  A statement is a tree: a function from the  *)
(* paths to its nodes.  A path is a sequence of steps, into one of the     *)
(* common table expressions a node introduces ("ctes") or into one of its  *)
(* other children ("parts").  A node is a record of its `kind`, the `name` *)
(* of a table or table function, the `schema` a table is asked for in      *)
(* ("", "main", or "system" for any of DuckDB's own), and the names of its *)
(* `ctes`, in order.  The queries looked at say WITH RECURSIVE.            *)
(***************************************************************************)
EXTENDS Integers, SequencesExt

CONSTANTS
  Catalog,        \* the names of datasets and views, in lower case
  SafeFunctions,  \* the table functions a query may call, in lower case
  SystemTables,   \* tables and views every DuckDB has, in lower case
  LowerCase       \* to_ascii_lowercase, for the spellings that are not lower case

ASSUME LowerCaseAssumption ==
  (Catalog \cup SafeFunctions \cup Range(LowerCase)) \cap DOMAIN LowerCase = {}
ASSUME SystemAssumption == SystemTables \cap Catalog = {}

Lower(name) == IF name \in DOMAIN LowerCase THEN LowerCase[name] ELSE name

NotSelect ==
  [path \in {<<>>} |-> [kind |-> "NOT_SELECT", name |-> "", schema |-> "", ctes |-> <<>>]]

\* The node k steps down a path, from which its next step is taken.
Above(path, k) == SubSeq(path, 1, k - 1)

SyntaxTree(tree) ==
  /\ <<>> \in DOMAIN tree
  /\ \A path \in DOMAIN tree : \A k \in DOMAIN path :
       /\ Above(path, k) \in DOMAIN tree
       /\ path[k].into = "ctes" => 1..path[k].at \subseteq DOMAIN tree[Above(path, k)].ctes

IsAllowedTable(name) == Lower(name) \in Catalog
IsSafeTableFunction(name) == Lower(name) \in SafeFunctions

\* Mutant: the bodies of common table expressions are not looked into.
Visited_PartsOnly(tree) ==
  {path \in DOMAIN tree : \A k \in DOMAIN path : path[k].into = "parts"}

\* walk goes into every value of every object: what is in cte_map as well.
Visited(tree) == DOMAIN tree

Keys(node) == {Lower(key) : key \in ToSet(node.ctes)}

\* What walk collects: base tables, without the schema they are asked for in,
\* names of common table expressions, and table functions that are not allowed.
Walk(tree) ==
  LET named(kind) == {tree[path].name : path \in {p \in Visited(tree) : tree[p].kind = kind}} IN
    [bases |-> {Lower(name) : name \in named("BASE_TABLE")},
     ctes  |-> UNION {Keys(tree[path]) : path \in Visited(tree)},
     bad   |-> {name \in named("TABLE_FUNCTION") : ~ IsSafeTableFunction(name)}]

\* json_serialize_sql reports an error unless all statements are SELECTs.
Validate(statements) ==
  /\ NotSelect \notin ToSet(statements)
  /\ Len(statements) = 1
  /\ LET w == Walk(statements[1]) IN
       /\ w.bad = {}
       /\ \A table \in w.bases \ w.ctes : IsAllowedTable(table)

-----------------------------------------------------------------------------
(* What a query means: SQL's rules for names, which DuckDB's binder follows. *)

\* The common table expressions in scope at the end of a path: those of the
\* selects above; in the body of one, of those listed with it only the ones
\* before it and itself.
Scope(tree, path) ==
  UNION {LET node == tree[Above(path, k)] IN
           IF path[k].into = "ctes" THEN {Lower(node.ctes[i]) : i \in 1..path[k].at}
           ELSE Keys(node)
         : k \in DOMAIN path}

BaseTables(tree) == {path \in DOMAIN tree : tree[path].kind = "BASE_TABLE"}

IsCte(tree, path) == tree[path].schema = "" /\ Lower(tree[path].name) \in Scope(tree, path)
IsServed(node, loaded) == node.schema \in {"", "main"} /\ Lower(node.name) \in loaded
IsSystem(node) == node.schema \in {"", "system"} /\ Lower(node.name) \in SystemTables

\* Every table is found: in scope, among the relations loaded, or in DuckDB.
Binds(tree, loaded) ==
  \A path \in BaseTables(tree) :
    IsCte(tree, path) \/ IsServed(tree[path], loaded) \/ IsSystem(tree[path])

OnlySafeFunctions(tree) ==
  \A path \in DOMAIN tree : tree[path].kind = "TABLE_FUNCTION" => IsSafeTableFunction(tree[path].name)

\* A name the query gives to a common table expression, in scope or not.
IsNameOfCte(tree, name) == \E node \in Range(tree) : Lower(name) \in Keys(node)
=============================================================================
