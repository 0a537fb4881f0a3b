------------------------------ MODULE MCRefresh ------------------------------
(* A two-dataset catalog with the one kind of view that can lack an input: *)
(* `latest` joins both tables; a view of one table loads or falls with it. *)
EXTENDS Refresh

MCCatalog == <<"companies", "eod_summary">>
MCRequires == [latest |-> {"companies", "eod_summary"}]
==============================================================================
