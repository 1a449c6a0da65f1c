--------------------------- MODULE DocsSyncProofs ---------------------------
(***************************************************************************)
(* Theorems about DocsSync, for any releases, manifests, migrations and    *)
(* tables to start from, and any number of crashes.                        *)
(***************************************************************************)
EXTENDS DocsSync, TLAPS

\* A position of a manifest is a number and holds an entry.
LEMMA EntryTypes ==
    ASSUME NEW p \in Releases
    PROVE  /\ DOMAIN Manifest[p] = 1..Len(Manifest[p]) /\ Len(Manifest[p]) \in Nat
           /\ \A i \in DOMAIN Manifest[p] :
                 /\ Manifest[p][i] \in Entries
                 /\ Manifest[p][i].page \in Pages /\ Manifest[p][i].text \in Texts
<1>1. Manifest[p] \in Seq(Entries)
  BY ReleasesAssumption
<1>2. DOMAIN Manifest[p] = 1..Len(Manifest[p]) /\ Len(Manifest[p]) \in Nat
  BY <1>1
<1>3. \A i \in DOMAIN Manifest[p] : Manifest[p][i] \in Entries
  BY <1>1, <1>2
<1>4. QED
  BY <1>2, <1>3 DEF Entries

\* The row a manifest asks for is that of its one entry for the page.
LEMMA RowOfListed ==
    ASSUME NEW p \in Releases, NEW i \in DOMAIN Manifest[p]
    PROVE  RowOf(p, Manifest[p][i].page) = Manifest[p][i].text
<1> DEFINE P(j) == Manifest[p][j].page = Manifest[p][i].page
           chosen == CHOOSE j \in DOMAIN Manifest[p] : P(j)
<1>1. chosen \in DOMAIN Manifest[p] /\ P(chosen)
  OBVIOUS
<1>2. chosen = i
  BY <1>1, PagesOnceAssumption
<1>3. QED
  BY <1>2 DEF RowOf

-----------------------------------------------------------------------------
(* Type correctness *)

LEMMA InitType == Init => TypeOK
BY ReleasesAssumption DEF Init, TypeOK

LEMMA StepType == TypeOK /\ [Next]_vars => TypeOK'
<1> SUFFICES ASSUME TypeOK, [Next]_vars
             PROVE  TypeOK'
  OBVIOUS
<1> USE DEF TypeOK
<1>1. ASSUME NEW p \in Releases, Deploy(p) \/ Start(p) \/ Retire(p)
      PROVE  TypeOK'
  BY <1>1 DEF Deploy, Start, Retire
<1>2. ASSUME NEW p \in Releases, RunMigrations(p)
      PROVE  TypeOK'
  BY <1>2 DEF RunMigrations, Migrated
<1>3. ASSUME NEW p \in Releases, BuildPipeline(p)
      PROVE  TypeOK'
  BY <1>3 DEF BuildPipeline, FirstDoc
<1>4. ASSUME NEW p \in Releases, UpsertDoc(p)
      PROVE  TypeOK'
  <2>1. next[p] \in DOMAIN Manifest[p]
    BY <1>4 DEF UpsertDoc, More
  <2>2. Manifest[p][next[p]].page \in Pages /\ Manifest[p][next[p]].text \in Texts
    BY <2>1, EntryTypes
  <2>3. QED
    BY <1>4, <2>2 DEF UpsertDoc, Upserted, Keep
<1>5. ASSUME NEW p \in Releases, UnknownProject(p) \/ Crash(p)
      PROVE  TypeOK'
  <2>1. crashes' \in 0..MaxCrashes
    BY <1>5, ReleasesAssumption DEF UnknownProject, Crash
  <2>2. pc' = [pc EXCEPT ![p] = Died(p)] /\ Died(p) \in {"down", "stopped"}
    BY <1>5 DEF UnknownProject, Crash, Died
  <2>3. UNCHANGED <<rows, projects, next, keep, deployed, alone>>
    BY <1>5 DEF UnknownProject, Crash
  <2>4. QED
    BY <2>1, <2>2, <2>3
<1>6. ASSUME NEW p \in Releases, PruneDocs(p)
      PROVE  TypeOK'
  BY <1>6 DEF PruneDocs
<1>7. ASSUME UNCHANGED vars
      PROVE  TypeOK'
  BY <1>7 DEF vars
<1>8. QED
  BY <1>1, <1>2, <1>3, <1>4, <1>5, <1>6, <1>7 DEF Next, Boot, Serve

\* Every variable keeps its type.
THEOREM TypeCorrect == Spec => []TypeOK
BY InitType, StepType, PTL DEF Spec

-----------------------------------------------------------------------------
(* What a sync in progress has done *)

\* A process that runs was deployed.
DeployedOK == \A p \in Releases : pc[p] # "down" => p \in deployed

\* A row's project is there: documents.project_id is a foreign key.
KnownRows == \A page \in Pages : rows[page] # NoRow => Known(page)

\* The loop has collected the pages before its position, and no others.
KeepOK ==
    \A p \in Releases : Syncing(p) =>
        /\ next[p] \in 1..(Len(Manifest[p]) + 1)
        /\ keep[p] = {Manifest[p][i].page : i \in 1..(next[p] - 1)}

\* Some deployed release gave the page the text it has.
Settled(page) == \E q \in deployed : rows[page] = RowOf(q, page)

\* Of the common pages, those the loop has passed are settled, and so are all of
\* them once it is over: no prune of any release takes them away again.
CommonOK ==
    \A p \in Releases :
        /\ Syncing(p) => \A i \in 1..(next[p] - 1) :
                            Manifest[p][i].page \in Common => Settled(Manifest[p][i].page)
        /\ pc[p] \in {"serving", "synced"} => \A page \in Common : Settled(page)

\* A sync that no other one crossed finds what it wrote as it wrote it.
AloneOK ==
    \A p \in Releases : alone[p] =>
        /\ \A q \in Releases \ {p} : ~Syncing(q)
        /\ Syncing(p) => \A i \in 1..(next[p] - 1) :
                            rows[Manifest[p][i].page] = Manifest[p][i].text
        /\ pc[p] \in {"serving", "synced"} /\ Listed(p) # {} =>
              \A page \in Pages : rows[page] = RowOf(p, page)

SyncInv == DeployedOK /\ KnownRows /\ KeepOK /\ CommonOK /\ AloneOK

LEMMA SyncInit == Init => SyncInv
BY ReleasesAssumption
   DEF Init, SyncInv, DeployedOK, KnownRows, KeepOK, CommonOK, AloneOK, Syncing, Known

\* At the end of the loop, what is kept is what is listed.
LEMMA KeepListed ==
    ASSUME TypeOK, SyncInv, NEW p \in Releases, Syncing(p), ~More(p)
    PROVE  keep[p] = Listed(p) /\ DOMAIN Manifest[p] = 1..(next[p] - 1)
<1>1. next[p] \in Nat \ {0} /\ DOMAIN Manifest[p] = 1..Len(Manifest[p]) /\ Len(Manifest[p]) \in Nat
  BY EntryTypes DEF TypeOK
<1>2. next[p] = Len(Manifest[p]) + 1
  BY <1>1 DEF SyncInv, KeepOK, More
<1>3. QED
  BY <1>1, <1>2 DEF SyncInv, KeepOK, Listed

\* A step that leaves rows, positions and who syncs alone, and ends no sync.
LEMMA QuietStep ==
    ASSUME TypeOK, TypeOK', SyncInv,
           projects \subseteq projects', deployed \subseteq deployed',
           UNCHANGED <<rows, next, keep, alone>>,
           \A p \in Releases :
              /\ pc'[p] \in {"sync", "serving", "synced"} => pc'[p] = pc[p]
              /\ pc'[p] # "down" => p \in deployed'
    PROVE  SyncInv'
<1>1. DeployedOK'
  BY DEF DeployedOK
<1>2. KnownRows' /\ KeepOK'
  BY DEF SyncInv, KnownRows, KeepOK, Known, Syncing
<1>3. CommonOK'
  BY DEF SyncInv, CommonOK, Syncing, Settled
<1>4. AloneOK'
  BY DEF SyncInv, AloneOK, Syncing
<1>5. QED
  BY <1>1, <1>2, <1>3, <1>4 DEF SyncInv

\* An upsert of a release's own entry, in the light of the manifest.
LEMMA UpsertStep ==
    ASSUME TypeOK, SyncInv, NEW p \in Releases, UpsertDoc(p)
    PROVE  SyncInv'
<1> DEFINE n == next[p]  doc == Manifest[p][n]
<1> USE DEF TypeOK
<1>1. /\ Syncing(p) /\ n \in DOMAIN Manifest[p] /\ Known(doc.page)
      /\ rows' = [rows EXCEPT ![doc.page] = doc.text]
      /\ keep' = [keep EXCEPT ![p] = keep[p] \cup {doc.page}]
      /\ next' = [next EXCEPT ![p] = n + 1]
      /\ UNCHANGED <<projects, pc, deployed, crashes, alone>>
  BY DEF UpsertDoc, More, Upserted, Keep
<1>2. /\ n \in Nat \ {0} /\ n \in 1..Len(Manifest[p]) /\ Len(Manifest[p]) \in Nat
      /\ doc.page \in Pages /\ doc.text \in Texts
  BY <1>1, EntryTypes
<1>3. /\ rows'[doc.page] = doc.text
      /\ \A page \in Pages \ {doc.page} : rows'[page] = rows[page]
      /\ next'[p] = n + 1 /\ keep'[p] = keep[p] \cup {doc.page}
      /\ \A q \in Releases \ {p} : next'[q] = next[q] /\ keep'[q] = keep[q]
  BY <1>1, <1>2
<1>4. p \in deployed
  BY <1>1 DEF SyncInv, DeployedOK, Syncing
<1>5. doc.text = RowOf(p, doc.page)
  BY <1>1, RowOfListed
<1>6. \A page \in Pages : page = doc.page \/ Settled(page) => Settled(page)'
  BY <1>1, <1>3, <1>4, <1>5 DEF Settled
<1>7. Common \subseteq Pages
  BY DEF Common
<1>8. DeployedOK' /\ KnownRows'
  BY <1>1, <1>3 DEF SyncInv, DeployedOK, KnownRows, Known
<1>9. KeepOK'
  <2>1. next'[p] \in 1..(Len(Manifest[p]) + 1)
    BY <1>2, <1>3
  <2>2. keep[p] = {Manifest[p][i].page : i \in 1..(n - 1)}
    BY <1>1 DEF SyncInv, KeepOK
  <2>3. 1..(next'[p] - 1) = 1..(n - 1) \cup {n}
    BY <1>2, <1>3
  <2>4. keep'[p] = {Manifest[p][i].page : i \in 1..(next'[p] - 1)}
    BY <1>3, <2>2, <2>3
  <2>5. \A q \in Releases \ {p} : Syncing(q) => KeepOK!(q)!2'
    BY <1>3 DEF SyncInv, KeepOK
  <2>6. QED
    BY <1>1, <2>1, <2>4, <2>5 DEF KeepOK, Syncing
<1>10. CommonOK'
  <2>1. ASSUME NEW q \in Releases, Syncing(q), NEW i \in 1..(next'[q] - 1),
               Manifest[q][i].page \in Common
        PROVE  Settled(Manifest[q][i].page)'
    <3>1. CASE q = p /\ i = n
      BY <3>1, <1>2, <1>6
    <3>2. CASE q # p \/ i # n
      <4>1. i \in 1..(next[q] - 1)
        BY <1>2, <1>3, <2>1, <3>2
      <4>2. QED
        BY <1>6, <1>7, <2>1, <4>1 DEF SyncInv, CommonOK
    <3>3. QED
      BY <3>1, <3>2
  <2>2. ASSUME NEW q \in Releases, pc[q] \in {"serving", "synced"}, NEW page \in Common
        PROVE  Settled(page)'
    BY <1>6, <1>7, <2>2 DEF SyncInv, CommonOK
  <2>3. QED
    BY <1>1, <2>1, <2>2 DEF CommonOK, Syncing
<1>11. AloneOK'
  <2>1. \A q \in Releases \ {p} : ~alone[q]
    BY <1>1 DEF SyncInv, AloneOK
  <2>2. ASSUME alone[p], NEW i \in 1..(next'[p] - 1)
        PROVE  rows'[Manifest[p][i].page] = Manifest[p][i].text
    <3>1. CASE i = n
      BY <3>1, <1>3
    <3>2. CASE i # n
      <4>1. i \in 1..(n - 1) /\ i \in DOMAIN Manifest[p]
        BY <1>2, <1>3, <3>2, EntryTypes
      <4>2. Manifest[p][i].page \in Pages /\ Manifest[p][i].page # doc.page
        BY <1>1, <3>2, <4>1, EntryTypes, PagesOnceAssumption
      <4>3. QED
        BY <1>1, <1>3, <2>2, <4>1, <4>2 DEF SyncInv, AloneOK
    <3>3. QED
      BY <3>1, <3>2
  <2>3. pc[p] = "sync"
    BY <1>1 DEF Syncing
  <2>4. QED
    BY <1>1, <2>1, <2>2, <2>3 DEF SyncInv, AloneOK, Syncing
<1>12. QED
  BY <1>8, <1>9, <1>10, <1>11 DEF SyncInv

\* A prune takes away no page its release lists, and all others it may.
LEMMA PruneStep ==
    ASSUME TypeOK, SyncInv, NEW p \in Releases, PruneDocs(p)
    PROVE  SyncInv'
<1> USE DEF TypeOK
<1>1. /\ Syncing(p) /\ ~More(p)
      /\ UNCHANGED <<projects, next, keep, deployed, crashes, alone>>
      /\ pc' = [pc EXCEPT ![p] = IF p \in Jobs THEN "synced" ELSE "serving"]
  BY DEF PruneDocs
<1>2. keep[p] = Listed(p) /\ DOMAIN Manifest[p] = 1..(next[p] - 1)
  BY <1>1, KeepListed
<1>3. \A page \in Pages :
          rows'[page] = IF Pruned(page, Listed(p)) THEN NoRow ELSE rows[page]
  BY <1>2 DEF PruneDocs
<1>4. \A page \in Pages : page \in Listed(p) => rows'[page] = rows[page]
  BY <1>3 DEF Pruned
<1>5. Common \subseteq Pages /\ Common \subseteq Listed(p)
  BY DEF Common
<1>6. \A page \in Common : Settled(page) => Settled(page)'
  BY <1>1, <1>4, <1>5 DEF Settled
<1>7. /\ pc'[p] \in {"serving", "synced"}
      /\ \A q \in Releases \ {p} : pc'[q] = pc[q]
  BY <1>1
<1>8. DeployedOK'
  BY <1>1, <1>7 DEF SyncInv, DeployedOK, Syncing
<1>9. KnownRows' /\ KeepOK'
  BY <1>1, <1>3, <1>7 DEF SyncInv, KnownRows, KeepOK, Known, Syncing
<1>10. CommonOK'
  <2>1. \A page \in Common : Settled(page)'
    <3>1. ASSUME NEW page \in Common
          PROVE  Settled(page)'
      <4>1. PICK i \in DOMAIN Manifest[p] : Manifest[p][i].page = page
        BY <1>5 DEF Listed
      <4>2. Settled(page)
        BY <1>1, <1>2, <4>1 DEF SyncInv, CommonOK
      <4>3. QED
        BY <1>6, <4>2
    <3>2. QED
      BY <3>1
  <2>2. \A q \in Releases : Syncing(q)' => Syncing(q) /\ next'[q] = next[q]
    BY <1>1, <1>7 DEF Syncing
  <2>3. QED
    BY <1>6, <2>1, <2>2 DEF SyncInv, CommonOK
<1>11. AloneOK'
  <2>1. \A q \in Releases \ {p} : ~alone[q]
    BY <1>1 DEF SyncInv, AloneOK
  <2>2. ASSUME alone[p], Listed(p) # {}, NEW page \in Pages
        PROVE  rows'[page] = RowOf(p, page)
    <3>1. CASE page \in Listed(p)
      <4>1. PICK i \in DOMAIN Manifest[p] : Manifest[p][i].page = page
        BY <3>1 DEF Listed
      <4>2. rows[page] = Manifest[p][i].text
        BY <1>1, <1>2, <2>2, <4>1 DEF SyncInv, AloneOK
      <4>3. QED
        BY <1>4, <3>1, <4>1, <4>2, RowOfListed
    <3>2. CASE page \notin Listed(p)
      <4>1. RowOf(p, page) = NoRow
        BY <3>2 DEF RowOf, Listed
      <4>2. rows'[page] = NoRow
        BY <1>3, <2>2, <3>2 DEF SyncInv, KnownRows, Pruned
      <4>3. QED
        BY <4>1, <4>2
    <3>3. QED
      BY <3>1, <3>2
  <2>3. QED
    BY <1>1, <1>7, <2>1, <2>2 DEF SyncInv, AloneOK, Syncing
<1>12. QED
  BY <1>8, <1>9, <1>10, <1>11 DEF SyncInv

LEMMA SyncStep == TypeOK /\ TypeOK' /\ SyncInv /\ [Next]_vars => SyncInv'
<1> SUFFICES ASSUME TypeOK, TypeOK', SyncInv, [Next]_vars
             PROVE  SyncInv'
  OBVIOUS
<1>1. ASSUME NEW p \in Releases, Deploy(p)
      PROVE  SyncInv'
  BY <1>1, QuietStep DEF Deploy, SyncInv, DeployedOK
<1>2. ASSUME NEW p \in Releases, Start(p) \/ Retire(p) \/ RunMigrations(p)
      PROVE  SyncInv'
  <2>1. /\ UNCHANGED <<rows, next, keep, deployed, alone>>
        /\ projects \subseteq projects'
        /\ p \in deployed
        /\ \E to \in {"migrate", "stopped", "pipeline"} : pc' = [pc EXCEPT ![p] = to]
    BY <1>2 DEF Start, Retire, RunMigrations, Migrated, SyncInv, DeployedOK
  <2>2. QED
    BY <2>1, QuietStep DEF SyncInv, DeployedOK, TypeOK
<1>3. ASSUME NEW p \in Releases, UnknownProject(p) \/ Crash(p)
      PROVE  SyncInv'
  <2>1. /\ UNCHANGED <<rows, next, keep, deployed, alone, projects>>
        /\ pc[p] # "down"
        /\ pc' = [pc EXCEPT ![p] = Died(p)] /\ Died(p) \in {"down", "stopped"}
    BY <1>3 DEF UnknownProject, Crash, Syncing, Died
  <2>2. QED
    BY <2>1, QuietStep DEF SyncInv, DeployedOK, TypeOK
<1>4. ASSUME NEW p \in Releases, BuildPipeline(p)
      PROVE  SyncInv'
  <2>1. /\ UNCHANGED <<rows, projects, deployed>>
        /\ pc[p] = "pipeline" /\ pc'[p] = "sync" /\ next'[p] = 1 /\ keep'[p] = {}
        /\ \A q \in Releases \ {p} :
              pc'[q] = pc[q] /\ next'[q] = next[q] /\ keep'[q] = keep[q]
        /\ \A q \in Releases : alone'[q] <=> q = p /\ \A s \in Releases : ~Syncing(s)
    BY <1>4 DEF BuildPipeline, FirstDoc, TypeOK
  <2>2. DeployedOK' /\ KnownRows'
    BY <2>1 DEF SyncInv, DeployedOK, KnownRows, Known
  <2>3. KeepOK'
    <3>1. next'[p] \in 1..(Len(Manifest[p]) + 1)
      BY <2>1, EntryTypes
    <3>2. keep'[p] = {Manifest[p][i].page : i \in 1..(next'[p] - 1)}
      BY <2>1
    <3>3. QED
      BY <2>1, <3>1, <3>2 DEF SyncInv, KeepOK, Syncing
  <2>4. CommonOK'
    BY <2>1 DEF SyncInv, CommonOK, Settled, Syncing
  <2>5. AloneOK'
    BY <2>1 DEF AloneOK, Syncing
  <2>6. QED
    BY <2>2, <2>3, <2>4, <2>5 DEF SyncInv
<1>5. ASSUME NEW p \in Releases, UpsertDoc(p) \/ PruneDocs(p)
      PROVE  SyncInv'
  BY <1>5, UpsertStep, PruneStep
<1>6. ASSUME UNCHANGED vars
      PROVE  SyncInv'
  <2>1. \A p \in Releases : pc[p] # "down" => p \in deployed
    BY DEF SyncInv, DeployedOK
  <2>2. QED
    BY <1>6, <2>1, QuietStep DEF vars
<1>7. QED
  BY <1>1, <1>2, <1>3, <1>4, <1>5, <1>6 DEF Next, Boot, Serve

LEMMA Inductive == Spec => [](TypeOK /\ SyncInv)
<1>1. TypeOK /\ SyncInv /\ [Next]_vars => TypeOK' /\ SyncInv'
  BY StepType, SyncStep
<1>2. QED
  BY <1>1, InitType, SyncInit, PTL DEF Spec

\* A sync that no other crossed leaves exactly its release's manifest, whatever
\* half-done syncs and earlier releases had left.
THEOREM ExactSync == Spec => []SyncIsExact
<1>1. SyncInv => SyncIsExact
  BY DEF SyncInv, AloneOK, SyncIsExact
<1>2. QED
  BY <1>1, Inductive, PTL

\* While a pod serves, the pages all releases list are there, whatever syncs
\* and prunes of other releases run.
THEOREM LastingPages == Spec => []CommonPagesServed
<1>1. SyncInv => CommonPagesServed
  <2> SUFFICES ASSUME SyncInv, NEW p \in Releases, pc[p] = "serving", NEW page \in Common
               PROVE  \E q \in deployed : DocPage(p, page) = RowOf(q, page)
    BY DEF CommonPagesServed
  <2>1. Settled(page)
    BY DEF SyncInv, CommonOK
  <2>2. \E i \in DOMAIN Manifest[p] : Manifest[p][i].page = page
    BY DEF Common, Listed
  <2>3. DocPage(p, page) = rows[page]
    BY <2>2 DEF DocPage
  <2>4. QED
    BY <2>1, <2>3 DEF Settled
<1>2. QED
  BY <1>1, Inductive, PTL
=============================================================================
