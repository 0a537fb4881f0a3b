--------------------------- MODULE Refresh_proofs ---------------------------
(***************************************************************************)
(* Proofs about Refresh, for any catalog, views, requests and bounds.  The  *)
(* argument is the order of versions (Phases): what is replaced comes       *)
(* before what is served, that before what is being built, and that before  *)
(* the next one, so no build touches a file that anybody reads; and what a  *)
(* build loads is never older than what the last signal asked for, unless   *)
(* that signal is still pending (Fresh).                                    *)
(***************************************************************************)
EXTENDS Refresh, TLAPS

(* Versions in order, and where the process is. *)
Phases ==
  /\ version = 0 =>
       pc \in {"loading", "exited"} /\ building = 0 /\ serving = None /\ ~ hup
  /\ version > 0 =>
       serving # None /\ building = version - 1 /\ serving <= building
  /\ pc \in {"loading", "swapping"} /\ version > 0 => serving < building
  /\ pc = "swapping" => version > 0
  /\ pc = "unlinking" => serving = building /\ replaced # None

(* A request holds the version served when it asked. *)
HeldIsPast ==
  \A r \in Readers : held[r] # None => serving # None /\ held[r] <= serving

(* What a request has read, and holds, goes up, and no further than what is *)
(* served.                                                                  *)
GotIsPast ==
  \A r \in Readers : \A i \in DOMAIN got[r] :
    /\ serving # None /\ got[r][i] <= serving
    /\ held[r] # None => got[r][i] <= held[r]
    /\ \A k \in DOMAIN got[r] : i < k => got[r][i] <= got[r][k]

Usable(v) ==
  /\ \E d \in Datasets : tables[v][d] # 0
  /\ \A w \in views[v] : \A d \in Requires[w] : tables[v][d] # 0

(* What is served, and what is about to be, is usable. *)
Built ==
  /\ serving # None => Usable(serving)
  /\ pc = "swapping" => Usable(building)

DemandIsPast == \A d \in Datasets : demanded[d] <= gen[d]

(* Unless a signal is pending, what was built last has what was demanded. *)
Fresh ==
  ~ hup => \A d \in Datasets :
             tables[building][d] # 0 => tables[building][d] >= demanded[d]

IInv ==
  /\ TypeOK /\ Phases /\ HeldIsPast /\ GotIsPast /\ Built /\ DemandIsPast
  /\ Fresh /\ NoOrphanFiles

USE BoundsAssumption, NoneAssumption DEF Versions

-----------------------------------------------------------------------------
LEMMA CatalogIsOrdered ==
  ASSUME NEW i \in 1..Len(Catalog) PROVE Catalog[i] \in Datasets
BY CatalogAssumption DEF Datasets

(* What is in a sequence of numbers is a number. *)
LEMMA ElementIsNumber == ASSUME NEW s \in Seq(Nat), NEW k \in DOMAIN s PROVE s[k] \in Nat
OBVIOUS

(* Appending to a sequence that goes up something no smaller than its elements. *)
LEMMA AppendGoesUp ==
  ASSUME NEW s \in Seq(Nat), NEW x \in Nat,
         \A i \in DOMAIN s : s[i] <= x,
         \A i, k \in DOMAIN s : i < k => s[i] <= s[k],
         NEW i \in DOMAIN Append(s, x)
  PROVE /\ Append(s, x)[i] <= x
        /\ \A k \in DOMAIN Append(s, x) : i < k => Append(s, x)[i] <= Append(s, x)[k]
<1>1. /\ Len(s) \in Nat /\ DOMAIN s = 1..Len(s)
      /\ DOMAIN Append(s, x) = 1..(Len(s) + 1)
  OBVIOUS
<1>2. /\ \A k \in 1..Len(s) : Append(s, x)[k] = s[k] /\ s[k] \in Nat
      /\ Append(s, x)[Len(s) + 1] = x
  OBVIOUS
<1>3. CASE i \in 1..Len(s)
  <2>1. ASSUME NEW k \in DOMAIN Append(s, x), i < k PROVE s[i] <= Append(s, x)[k]
    <3>1. CASE k \in 1..Len(s)
      BY <1>1, <1>2, <1>3, <2>1, <3>1
    <3>2. CASE k = Len(s) + 1
      BY <1>1, <1>2, <1>3, <3>2
    <3> QED
      BY <1>1, <3>1, <3>2
  <2> QED
    BY <1>1, <1>2, <1>3, <2>1
<1>4. CASE i = Len(s) + 1
  BY <1>1, <1>2, <1>4
<1> QED
  BY <1>1, <1>3, <1>4

LEMMA InitInv == Init => IInv
<1> SUFFICES ASSUME Init PROVE IInv
  OBVIOUS
<1> USE DEF Init, NoTables
<1>1. TypeOK
  <2>1. Len(Catalog) \in Nat /\ MaxGen \in Nat /\ MaxGen > 0
    BY CatalogAssumption
  <2> QED
    BY <2>1 DEF TypeOK
<1>2. Phases /\ HeldIsPast /\ GotIsPast
  BY DEF Phases, HeldIsPast, GotIsPast
<1>3. Built /\ DemandIsPast /\ Fresh /\ NoOrphanFiles
  BY DEF Built, DemandIsPast, Fresh, NoOrphanFiles
<1> QED
  BY <1>1, <1>2, <1>3 DEF IInv

LEMMA TypesKept ==
  ASSUME TypeOK, Phases, Next PROVE TypeOK'
<1> USE DEF TypeOK, Phases, NoTables, sourceVars, buildVars, readerVars
<1>1. CASE Load
  <2>1. PICK g \in 0..MaxGen : tables' = [tables EXCEPT ![building][Catalog[next]] = g]
    <3>1. Catalog[next] \in Datasets
      BY <1>1, CatalogAssumption, CatalogIsOrdered DEF Load
    <3>2. gen[Catalog[next]] \in 0..MaxGen /\ 0 \in 0..MaxGen
      BY <3>1
    <3>3. PICK g \in {0} \cup (IF Catalog[next] \in readable THEN {gen[Catalog[next]]} ELSE {}) :
            tables' = [tables EXCEPT ![building][Catalog[next]] = g]
      BY <1>1 DEF Load
    <3>4. g \in 0..MaxGen
      BY <3>2, <3>3
    <3> QED
      BY <3>3, <3>4
  <2>2. tables' \in [Versions -> [Datasets -> 0..MaxGen]]
    BY <2>1
  <2>3. next' \in 1..(Len(Catalog) + 1)
    BY <1>1, CatalogAssumption DEF Load
  <2> QED
    BY <1>1, <2>2, <2>3 DEF Load
<1>2. CASE Boot
  BY <1>2 DEF Boot, Booting, BuildDone, Creatable
<1>3. CASE BuildSucceeds
  BY <1>3 DEF BuildSucceeds, BuildDone, Creatable
<1>4. CASE BuildFails
  BY <1>4 DEF BuildFails, Booting
<1>5. CASE InstallHandler
  BY <1>5 DEF InstallHandler
<1>6. CASE Rebuild
  <2>1. version \in Versions /\ NoTables \in [Datasets -> 0..MaxGen]
    BY <1>6 DEF Rebuild
  <2>2. /\ tables' \in [Versions -> [Datasets -> 0..MaxGen]]
        /\ views' \in [Versions -> SUBSET Views]
    <3> HIDE DEF NoTables
    <3> QED
      BY <1>6, <2>1 DEF Rebuild, StartBuild
  <2>3. next' \in 1..(Len(Catalog) + 1)
    BY <1>6, CatalogAssumption DEF Rebuild, StartBuild
  <2>4. building' \in Versions /\ version' \in 0..(MaxVersion + 1) /\ building' < version'
    BY <1>6, <2>1 DEF Rebuild, StartBuild
  <2> QED
    BY <1>6, <2>2, <2>3, <2>4 DEF Rebuild, StartBuild
<1>7. CASE Swap
  BY <1>7 DEF Swap
<1>8. CASE Unlink
  BY <1>8 DEF Unlink
<1>9. CASE Hup
  <2>1. demanded' \in [Datasets -> 0..MaxGen]
    BY <1>9, SMTT(30) DEF Hup, Booting
  <2>2. hup' \in BOOLEAN /\ pc' \in {pc, "exited"}
    BY <1>9 DEF Hup, Booting
  <2> QED
    BY <1>9, <2>1, <2>2 DEF Hup
<1>10. CASE EtlClear
  BY <1>10, SMTT(30) DEF EtlClear
<1>11. ASSUME NEW d \in Datasets, EtlWrite(d) PROVE TypeOK'
  BY <1>11 DEF EtlWrite
<1>12. ASSUME NEW d \in Datasets, EtlRewrite(d) PROVE TypeOK'
  BY <1>12, SMTT(30) DEF EtlRewrite
<1>13. ASSUME NEW r \in Readers, Take(r) PROVE TypeOK'
  BY <1>13 DEF Take, Serves
<1>14. ASSUME NEW r \in Readers, Read(r) PROVE TypeOK'
  <2>1. held[r] \in Versions /\ Append(got[r], held[r]) \in Seq(Versions)
    BY <1>14 DEF Read, Serves
  <2>2. \/ got' = [got EXCEPT ![r] = Append(@, held[r])]
        \/ got' = [got EXCEPT ![r] = <<>>]
    BY <1>14 DEF Read
  <2>3. got' \in [Readers -> Seq(Versions)]
    <3>1. <<>> \in Seq(Versions) /\ got \in [Readers -> Seq(Versions)]
      OBVIOUS
    <3> HIDE DEF TypeOK, Phases, Versions
    <3> QED
      BY <2>1, <2>2, <3>1
  <2> QED
    BY <1>14, <2>3 DEF Read
<1> QED
  BY <1>1, <1>2, <1>3, <1>4, <1>5, <1>6, <1>7, <1>8, <1>9,
     <1>10, <1>11, <1>12, <1>13, <1>14 DEF Next, Build, Loop, Etl, Request

LEMMA PhasesKept ==
  ASSUME TypeOK, Phases, Next PROVE Phases'
<1> USE DEF TypeOK, Phases, sourceVars, buildVars, readerVars
<1>1. CASE Load
  BY <1>1 DEF Load
<1>2. CASE Boot
  BY <1>2 DEF Boot, Booting, BuildDone
<1>3. CASE BuildSucceeds
  BY <1>3 DEF BuildSucceeds, BuildDone, Booting
<1>4. CASE BuildFails
  BY <1>4 DEF BuildFails, Booting
<1>5. CASE InstallHandler
  BY <1>5 DEF InstallHandler
<1>6. CASE Rebuild
  BY <1>6 DEF Rebuild, StartBuild
<1>7. CASE Swap
  BY <1>7 DEF Swap
<1>8. CASE Unlink
  BY <1>8 DEF Unlink
<1>9. CASE Hup
  BY <1>9 DEF Hup, Booting
<1>10. CASE EtlClear
  BY <1>10 DEF EtlClear
<1>11. ASSUME NEW d \in Datasets, EtlWrite(d) PROVE Phases'
  BY <1>11 DEF EtlWrite
<1>12. ASSUME NEW d \in Datasets, EtlRewrite(d) PROVE Phases'
  BY <1>12 DEF EtlRewrite
<1>13. ASSUME NEW r \in Readers, Take(r) PROVE Phases'
  BY <1>13 DEF Take, Serves
<1>14. ASSUME NEW r \in Readers, Read(r) PROVE Phases'
  BY <1>14 DEF Read, Serves
<1> QED
  BY <1>1, <1>2, <1>3, <1>4, <1>5, <1>6, <1>7, <1>8, <1>9,
     <1>10, <1>11, <1>12, <1>13, <1>14 DEF Next, Build, Loop, Etl, Request

LEMMA HeldKept ==
  ASSUME TypeOK, Phases, HeldIsPast, Next PROVE HeldIsPast'
<1> USE DEF TypeOK, Phases, HeldIsPast, sourceVars, buildVars, readerVars
<1>1. CASE Load
  BY <1>1 DEF Load
<1>2. CASE Boot
  BY <1>2 DEF Boot, Booting, BuildDone
<1>3. CASE BuildSucceeds
  BY <1>3 DEF BuildSucceeds, BuildDone
<1>4. CASE BuildFails
  BY <1>4 DEF BuildFails, Booting
<1>5. CASE InstallHandler
  BY <1>5 DEF InstallHandler
<1>6. CASE Rebuild
  BY <1>6 DEF Rebuild, StartBuild
<1>7. CASE Swap
  BY <1>7 DEF Swap
<1>8. CASE Unlink
  BY <1>8 DEF Unlink
<1>9. CASE Hup
  BY <1>9 DEF Hup, Booting
<1>10. CASE EtlClear
  BY <1>10 DEF EtlClear
<1>11. ASSUME NEW d \in Datasets, EtlWrite(d) PROVE HeldIsPast'
  BY <1>11 DEF EtlWrite
<1>12. ASSUME NEW d \in Datasets, EtlRewrite(d) PROVE HeldIsPast'
  BY <1>12 DEF EtlRewrite
<1>13. ASSUME NEW r \in Readers, Take(r) PROVE HeldIsPast'
  BY <1>13 DEF Take, Serves
<1>14. ASSUME NEW r \in Readers, Read(r) PROVE HeldIsPast'
  BY <1>14 DEF Read, Serves
<1> QED
  BY <1>1, <1>2, <1>3, <1>4, <1>5, <1>6, <1>7, <1>8, <1>9,
     <1>10, <1>11, <1>12, <1>13, <1>14 DEF Next, Build, Loop, Etl, Request

LEMMA GotKept ==
  ASSUME TypeOK, Phases, HeldIsPast, GotIsPast, Next PROVE GotIsPast'
<1> USE DEF TypeOK, Phases, HeldIsPast, GotIsPast, sourceVars, buildVars, readerVars
<1>1. CASE Load
  BY <1>1 DEF Load
<1>2. CASE Boot
  BY <1>2 DEF Boot, Booting, BuildDone
<1>3. CASE BuildSucceeds
  BY <1>3 DEF BuildSucceeds, BuildDone
<1>4. CASE BuildFails
  BY <1>4 DEF BuildFails, Booting
<1>5. CASE InstallHandler
  BY <1>5 DEF InstallHandler
<1>6. CASE Rebuild
  BY <1>6 DEF Rebuild, StartBuild
<1>7. CASE Swap
  BY <1>7, SMTT(30) DEF Swap
<1>8. CASE Unlink
  BY <1>8 DEF Unlink
<1>9. CASE Hup
  BY <1>9 DEF Hup, Booting
<1>10. CASE EtlClear
  BY <1>10 DEF EtlClear
<1>11. ASSUME NEW d \in Datasets, EtlWrite(d) PROVE GotIsPast'
  BY <1>11 DEF EtlWrite
<1>12. ASSUME NEW d \in Datasets, EtlRewrite(d) PROVE GotIsPast'
  BY <1>12 DEF EtlRewrite
<1>13. ASSUME NEW r \in Readers, Take(r) PROVE GotIsPast'
  BY <1>13 DEF Take, Serves
<1>14. ASSUME NEW r \in Readers, Read(r) PROVE GotIsPast'
  <2>1. CASE got' = [got EXCEPT ![r] = <<>>]
    BY <1>14, <2>1 DEF Read, Serves
  <2>2. CASE got' = [got EXCEPT ![r] = Append(@, held[r])]
    <3> SUFFICES ASSUME NEW q \in Readers, NEW i \in DOMAIN got'[q]
                 PROVE /\ serving # None /\ got'[q][i] <= serving
                       /\ held'[q] # None => got'[q][i] <= held'[q]
                       /\ \A k \in DOMAIN got'[q] : i < k => got'[q][i] <= got'[q][k]
      BY <1>14 DEF Read
    <3>1. CASE q # r
      BY <1>14, <2>2, <3>1 DEF Read, Serves
    <3>2. CASE q = r
      <4>1. got'[q] = Append(got[r], held[r]) /\ held'[q] = None
        BY <1>14, <2>2, <3>2 DEF Read
      <4>2. got[r] \in Seq(Versions) /\ held[r] \in Versions /\ serving \in Versions
        BY <1>14 DEF Read, Serves
      <4>3. held[r] <= serving
        BY <1>14 DEF Read
      <4>4. /\ got[r] \in Seq(Nat) /\ held[r] \in Nat
            /\ \A k \in DOMAIN got[r] : got[r][k] \in Nat /\ got[r][k] <= held[r]
            /\ \A k, n \in DOMAIN got[r] : k < n => got[r][k] <= got[r][n]
        BY <1>14, <4>2, SMTT(30) DEF Read
      <4>5. /\ got'[q][i] <= held[r]
            /\ \A k \in DOMAIN got'[q] : i < k => got'[q][i] <= got'[q][k]
        BY <4>1, <4>4, AppendGoesUp
      <4>6. serving' = serving /\ serving # None /\ serving \in Nat
        BY <1>14, <4>2 DEF Read, Serves
      <4>7. got'[q][i] \in Nat
        <5>1. Append(got[r], held[r]) \in Seq(Nat)
          BY <4>4
        <5>2. i \in DOMAIN Append(got[r], held[r])
          BY <4>1
        <5> QED
          BY <4>1, <5>1, <5>2, ElementIsNumber, Zenon
      <4>8. got'[q][i] <= serving
        <5> HIDE DEF TypeOK, Phases, HeldIsPast, GotIsPast
        <5> QED
          BY <4>3, <4>4, <4>5, <4>6, <4>7
      <4> HIDE DEF TypeOK, Phases, HeldIsPast, GotIsPast
      <4> QED
        BY <4>1, <4>5, <4>6, <4>8
    <3> QED
      BY <3>1, <3>2
  <2> QED
    BY <1>14, <2>1, <2>2 DEF Read
<1> QED
  BY <1>1, <1>2, <1>3, <1>4, <1>5, <1>6, <1>7, <1>8, <1>9,
     <1>10, <1>11, <1>12, <1>13, <1>14 DEF Next, Build, Loop, Etl, Request

LEMMA BuiltKept ==
  ASSUME TypeOK, Phases, Built, Next PROVE Built'
<1> USE DEF TypeOK, Phases, Built, Usable, sourceVars, buildVars, readerVars
<1>1. CASE Load
  <2>1. pc = "loading" /\ serving # building /\ pc' = "loading" /\ serving' = serving
    BY <1>1 DEF Load
  <2>2. serving # None => tables'[serving] = tables[serving] /\ views' = views
    BY <1>1, <2>1 DEF Load
  <2> QED
    BY <2>1, <2>2
<1>2. CASE Boot
  BY <1>2, RequiresAssumption DEF Boot, Booting, BuildDone, Creatable, Loaded
<1>3. CASE BuildSucceeds
  BY <1>3, RequiresAssumption DEF BuildSucceeds, BuildDone, Creatable, Loaded
<1>4. CASE BuildFails
  BY <1>4 DEF BuildFails, Booting
<1>5. CASE InstallHandler
  BY <1>5 DEF InstallHandler
<1>6. CASE Rebuild
  BY <1>6 DEF Rebuild, StartBuild
<1>7. CASE Swap
  BY <1>7 DEF Swap
<1>8. CASE Unlink
  BY <1>8 DEF Unlink
<1>9. CASE Hup
  BY <1>9 DEF Hup, Booting
<1>10. CASE EtlClear
  BY <1>10 DEF EtlClear
<1>11. ASSUME NEW d \in Datasets, EtlWrite(d) PROVE Built'
  BY <1>11 DEF EtlWrite
<1>12. ASSUME NEW d \in Datasets, EtlRewrite(d) PROVE Built'
  BY <1>12 DEF EtlRewrite
<1>13. ASSUME NEW r \in Readers, Take(r) PROVE Built'
  BY <1>13 DEF Take, Serves
<1>14. ASSUME NEW r \in Readers, Read(r) PROVE Built'
  BY <1>14 DEF Read, Serves
<1> QED
  BY <1>1, <1>2, <1>3, <1>4, <1>5, <1>6, <1>7, <1>8, <1>9,
     <1>10, <1>11, <1>12, <1>13, <1>14 DEF Next, Build, Loop, Etl, Request

LEMMA DemandKept ==
  ASSUME TypeOK, DemandIsPast, Next PROVE DemandIsPast'
<1> USE DEF TypeOK, DemandIsPast, sourceVars, buildVars, readerVars
<1>1. CASE Load
  BY <1>1 DEF Load
<1>2. CASE Boot
  BY <1>2 DEF Boot, Booting, BuildDone
<1>3. CASE BuildSucceeds
  BY <1>3 DEF BuildSucceeds, BuildDone
<1>4. CASE BuildFails
  BY <1>4 DEF BuildFails, Booting
<1>5. CASE InstallHandler
  BY <1>5 DEF InstallHandler
<1>6. CASE Rebuild
  BY <1>6 DEF Rebuild, StartBuild
<1>7. CASE Swap
  BY <1>7 DEF Swap
<1>8. CASE Unlink
  BY <1>8 DEF Unlink
<1>9. CASE Hup
  <2>1. \/ demanded' = demanded
        \/ demanded' = [d \in Datasets |-> IF d \in readable THEN gen[d] ELSE 0]
    BY <1>9 DEF Hup
  <2>2. gen' = gen
    BY <1>9 DEF Hup
  <2>3. ASSUME NEW d \in Datasets PROVE demanded'[d] <= gen'[d]
    <3>1. gen[d] \in Nat /\ 0 <= gen[d] /\ demanded[d] <= gen[d]
      OBVIOUS
    <3>2. demanded'[d] \in {demanded[d], gen[d], 0}
      <4> HIDE DEF TypeOK, DemandIsPast
      <4> QED
        BY <2>1
    <3> HIDE DEF TypeOK, DemandIsPast
    <3> QED
      BY <2>2, <3>1, <3>2
  <2> QED
    BY <2>3
<1>10. CASE EtlClear
  BY <1>10 DEF EtlClear
<1>11. ASSUME NEW d \in Datasets, EtlWrite(d) PROVE DemandIsPast'
  BY <1>11 DEF EtlWrite
<1>12. ASSUME NEW d \in Datasets, EtlRewrite(d) PROVE DemandIsPast'
  BY <1>12 DEF EtlRewrite
<1>13. ASSUME NEW r \in Readers, Take(r) PROVE DemandIsPast'
  BY <1>13 DEF Take, Serves
<1>14. ASSUME NEW r \in Readers, Read(r) PROVE DemandIsPast'
  BY <1>14 DEF Read, Serves
<1> QED
  BY <1>1, <1>2, <1>3, <1>4, <1>5, <1>6, <1>7, <1>8, <1>9,
     <1>10, <1>11, <1>12, <1>13, <1>14 DEF Next, Build, Loop, Etl, Request

LEMMA FreshKept ==
  ASSUME TypeOK, Phases, DemandIsPast, Fresh, Next PROVE Fresh'
<1> USE DEF TypeOK, Phases, DemandIsPast, Fresh, NoTables, sourceVars, buildVars, readerVars
<1>1. CASE Load
  BY <1>1, CatalogIsOrdered DEF Load
<1>2. CASE Boot
  BY <1>2 DEF Boot, Booting, BuildDone
<1>3. CASE BuildSucceeds
  BY <1>3 DEF BuildSucceeds, BuildDone
<1>4. CASE BuildFails
  BY <1>4 DEF BuildFails, Booting
<1>5. CASE InstallHandler
  BY <1>5 DEF InstallHandler
<1>6. CASE Rebuild
  BY <1>6 DEF Rebuild, StartBuild
<1>7. CASE Swap
  BY <1>7 DEF Swap
<1>8. CASE Unlink
  BY <1>8 DEF Unlink
<1>9. CASE Hup
  BY <1>9 DEF Hup, Booting
<1>10. CASE EtlClear
  BY <1>10 DEF EtlClear
<1>11. ASSUME NEW d \in Datasets, EtlWrite(d) PROVE Fresh'
  BY <1>11 DEF EtlWrite
<1>12. ASSUME NEW d \in Datasets, EtlRewrite(d) PROVE Fresh'
  BY <1>12 DEF EtlRewrite
<1>13. ASSUME NEW r \in Readers, Take(r) PROVE Fresh'
  BY <1>13 DEF Take, Serves
<1>14. ASSUME NEW r \in Readers, Read(r) PROVE Fresh'
  BY <1>14 DEF Read, Serves
<1> QED
  BY <1>1, <1>2, <1>3, <1>4, <1>5, <1>6, <1>7, <1>8, <1>9,
     <1>10, <1>11, <1>12, <1>13, <1>14 DEF Next, Build, Loop, Etl, Request

LEMMA FilesKept ==
  ASSUME TypeOK, Phases, NoOrphanFiles, Next PROVE NoOrphanFiles'
<1> USE DEF TypeOK, Phases, NoOrphanFiles, sourceVars, buildVars, readerVars
<1>1. CASE Load
  BY <1>1 DEF Load
<1>2. CASE Boot
  BY <1>2 DEF Boot, Booting, BuildDone
<1>3. CASE BuildSucceeds
  BY <1>3 DEF BuildSucceeds, BuildDone
<1>4. CASE BuildFails
  BY <1>4 DEF BuildFails, Booting
<1>5. CASE InstallHandler
  BY <1>5 DEF InstallHandler
<1>6. CASE Rebuild
  BY <1>6 DEF Rebuild, StartBuild
<1>7. CASE Swap
  BY <1>7 DEF Swap
<1>8. CASE Unlink
  BY <1>8 DEF Unlink
<1>9. CASE Hup
  <2>1. CASE pc' = pc
    BY <1>9, <2>1 DEF Hup
  <2>2. CASE pc' = "exited" /\ Booting
    BY <1>9, <2>2 DEF Hup, Booting
  <2>3. CASE pc' = "exited" /\ pc \in {"installing", "deaf"}
    BY <1>9, <2>3 DEF Hup
  <2> QED
    BY <1>9, <2>1, <2>2, <2>3 DEF Hup
<1>10. CASE EtlClear
  BY <1>10 DEF EtlClear
<1>11. ASSUME NEW d \in Datasets, EtlWrite(d) PROVE NoOrphanFiles'
  BY <1>11 DEF EtlWrite
<1>12. ASSUME NEW d \in Datasets, EtlRewrite(d) PROVE NoOrphanFiles'
  BY <1>12 DEF EtlRewrite
<1>13. ASSUME NEW r \in Readers, Take(r) PROVE NoOrphanFiles'
  BY <1>13 DEF Take, Serves
<1>14. ASSUME NEW r \in Readers, Read(r) PROVE NoOrphanFiles'
  BY <1>14 DEF Read, Serves
<1> QED
  BY <1>1, <1>2, <1>3, <1>4, <1>5, <1>6, <1>7, <1>8, <1>9,
     <1>10, <1>11, <1>12, <1>13, <1>14 DEF Next, Build, Loop, Etl, Request

(* A step that changes nothing keeps everything. *)
LEMMA StutterInv == ASSUME IInv, UNCHANGED vars PROVE IInv'
<1> USE DEF vars, sourceVars, buildVars, readerVars
<1>1. TypeOK'
  BY DEF IInv, TypeOK
<1>2. Phases' /\ HeldIsPast' /\ GotIsPast'
  BY DEF IInv, Phases, HeldIsPast, GotIsPast
<1>3. Built' /\ DemandIsPast' /\ Fresh' /\ NoOrphanFiles'
  BY DEF IInv, Built, Usable, DemandIsPast, Fresh, NoOrphanFiles
<1> QED
  BY <1>1, <1>2, <1>3 DEF IInv

(* The strengthened invariant: every reachable state satisfies it. *)
LEMMA Invariance == Spec => []IInv
<1>1. Init => IInv
  BY InitInv
<1>2. IInv /\ [Next]_vars => IInv'
  <2>1. ASSUME IInv, Next PROVE IInv'
    BY <2>1, TypesKept, PhasesKept, HeldKept, GotKept, BuiltKept, DemandKept,
       FreshKept, FilesKept DEF IInv
  <2> QED
    BY <2>1, StutterInv
<1> QED
  BY <1>1, <1>2, PTL DEF Spec

-----------------------------------------------------------------------------
(* The types of the variables hold in every reachable state. *)
THEOREM TypeCorrectness == Spec => []TypeOK
<1>1. IInv => TypeOK
  BY DEF IInv
<1> QED
  BY <1>1, Invariance, PTL

(* What is served has a table, and its views have theirs (build_and_open    *)
(* refuses an empty database and creates a view only over loaded tables).   *)
THEOREM ServedIsUsable == Spec => []ServedSnapshotUsable
<1>1. IInv => ServedSnapshotUsable
  BY DEF IInv, Built, Usable, ServedSnapshotUsable
<1> QED
  BY <1>1, Invariance, PTL

(* A SIGHUP sent while the loop was rebuilding is not lost: what it asked   *)
(* for has been loaded by the time nothing is pending                       *)
(* (spawn_sighup_refresh).                                                  *)
THEOREM NoSignalLost == Spec => []SignalsHonoured
<1>1. IInv => SignalsHonoured
  <2> SUFFICES ASSUME IInv, pc = "recv", ~ hup, serving = version - 1
               PROVE \A d \in Datasets :
                       tables[serving][d] # 0 => tables[serving][d] >= demanded[d]
    BY DEF SignalsHonoured
  <2>1. version > 0
    BY DEF IInv, TypeOK, Phases
  <2>2. serving = building
    BY <2>1 DEF IInv, Phases
  <2> QED
    BY <2>2 DEF IInv, Fresh
<1> QED
  BY <1>1, Invariance, PTL

(* Replaced files are removed (rebuild), except where unlinking failed.      *)
THEOREM DiskBounded == Spec => []NoOrphanFiles
<1>1. IInv => NoOrphanFiles
  BY DEF IInv
<1> QED
  BY <1>1, Invariance, PTL

(* The queries of one request are answered from versions that never go back *)
(* (current() is called for each of them).                                  *)
THEOREM ReadsGoForward == Spec => []ReadsMoveForward
<1>1. IInv => ReadsMoveForward
  <2> SUFFICES ASSUME IInv, NEW r \in Readers
               PROVE LET seen == IF held[r] = None THEN got[r]
                                 ELSE Append(got[r], held[r]) IN
                       \A i, k \in DOMAIN seen : i < k => seen[i] <= seen[k]
    BY DEF ReadsMoveForward
  <2>1. \A i \in DOMAIN got[r] :
          /\ held[r] # None => got[r][i] <= held[r]
          /\ \A k \in DOMAIN got[r] : i < k => got[r][i] <= got[r][k]
    BY DEF IInv, GotIsPast
  <2>2. CASE held[r] = None
    BY <2>1, <2>2
  <2>3. CASE held[r] # None
    <3>1. got[r] \in Seq(Nat) /\ held[r] \in Nat
      <4>1. got[r] \in Seq(Versions) /\ held[r] \in Versions
        BY <2>3 DEF IInv, TypeOK
      <4> QED
        BY <4>1
    <3>2. \A i \in DOMAIN got[r] : got[r][i] <= held[r]
      BY <2>1, <2>3
    <3>3. \A i, k \in DOMAIN got[r] : i < k => got[r][i] <= got[r][k]
      BY <2>1
    <3>4. \A i, k \in DOMAIN Append(got[r], held[r]) :
            i < k => Append(got[r], held[r])[i] <= Append(got[r], held[r])[k]
      BY <3>1, <3>2, <3>3, AppendGoesUp
    <3> QED
      BY <2>3, <3>4
  <2> QED
    BY <2>2, <2>3
<1> QED
  BY <1>1, Invariance, PTL

(* A rebuild never writes to the file that is served or that a request still *)
(* reads (version numbers only go up, analytics.rs rebuild).                 *)
THEOREM SnapshotsStay == Spec => OpenSnapshotsImmutable
<1> DEFINE Open(v)   == v = serving \/ \E r \in Readers : held[r] = v
           Intact(v) == tables'[v] = tables[v] /\ views'[v] = views[v]
<1>1. ASSUME IInv, [Next]_vars
      PROVE \A v \in Versions : Open(v) => Intact(v)
  <2> SUFFICES ASSUME NEW v \in Versions, Open(v) PROVE Intact(v)
    OBVIOUS
  <2>1. serving # None /\ v <= serving
    BY <1>1, SMTT(30) DEF IInv, TypeOK, HeldIsPast
  <2>2. version > 0 /\ serving \in Nat /\ v \in Nat /\ building \in Nat /\ version \in Nat
    BY <1>1, <2>1 DEF IInv, TypeOK, Phases
  <2>3. v < version /\ (pc \in {"loading", "swapping"} => v < building)
    BY <1>1, <2>1, <2>2 DEF IInv, Phases
  <2>4. /\ tables \in [Versions -> [Datasets -> 0..MaxGen]]
        /\ views \in [Versions -> SUBSET Views]
    BY <1>1 DEF IInv, TypeOK
  <2> USE DEF sourceVars, buildVars, readerVars
  <2>5. CASE Load
    BY <2>3, <2>4, <2>5 DEF Load
  <2>6. CASE Boot
    BY <2>2, <2>6 DEF Boot, Booting
  <2>7. CASE BuildSucceeds
    BY <2>2, <2>3, <2>4, <2>7 DEF BuildSucceeds, BuildDone
  <2>8. CASE Rebuild
    BY <2>2, <2>3, <2>4, <2>8 DEF Rebuild, StartBuild
  <2>9. CASE BuildFails \/ InstallHandler \/ Swap \/ Unlink
    BY <2>9 DEF BuildFails, InstallHandler, Swap, Unlink
  <2>10. CASE Hup \/ Etl \/ Request
    BY <2>10 DEF Hup, Etl, EtlClear, EtlWrite, EtlRewrite, Request, Take, Read
  <2>11. CASE UNCHANGED vars
    BY <2>11 DEF vars
  <2> QED
    BY <1>1, <2>5, <2>6, <2>7, <2>8, <2>9, <2>10, <2>11 DEF Next, Build, Loop
<1> QED
  BY <1>1, Invariance, PTL DEF Spec, OpenSnapshotsImmutable

=============================================================================
