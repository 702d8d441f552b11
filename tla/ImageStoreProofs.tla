-------------------------- MODULE ImageStoreProofs --------------------------
(***************************************************************************)
(* Proofs about ImageStore, for every set of contents, clients and         *)
(* requests and any number of faults.                                      *)
(*                                                                         *)
(* The invariant follows the import under way through its stages.  Until   *)
(* an import has ended between a link and its sync, the only file that a   *)
(* power loss can take back is the one this import has linked last, and    *)
(* nothing else on disk refers to that file yet.                           *)
(***************************************************************************)
EXTENDS ImageStore, TLAPS

\* Most leaves are logic and functions: Zenon is the backend unless one names another.
USE ZenonT(60)

Safety == Init /\ [][Next]_vars

-----------------------------------------------------------------------------
(* Facts about the operators.                                              *)

\* A listing shows the metadata of every record and nothing else.
LEMMA ViewLemma ==
  ASSUME TypeOK
  PROVE  /\ View \in Catalogs
         /\ \A k \in Keys : /\ records[k] = None <=> View[k] = None
                            /\ records[k] # None => View[k] = records[k].meta
<1>1. \A k \in Keys : records[k] # None => records[k].meta \in Metadata
  BY DEF TypeOK, Records
<1>2. View \in Catalogs
  BY <1>1 DEF View, Catalogs
<1>3. None \notin Metadata
  BY NoneAssumption
<1> QED
  BY <1>1, <1>2, <1>3 DEF View

\* The import under way goes to another stage.
LEMMA AdvanceLemma ==
  ASSUME NEW stage \in Stages, import \in Imports, Advance(stage)
  PROVE  /\ import' \in Imports
         /\ import' # None
         /\ import'.stage = stage
         /\ import'.client = import.client
         /\ import'.id = import.id
         /\ import'.geometry = import.geometry
         /\ import'.data = import.data
<1>1. import' = [import EXCEPT !.stage = stage]
  BY DEF Advance
<1>2. /\ import' \in Imports
      /\ import'.stage = stage
      /\ import'.client = import.client
      /\ import'.id = import.id
      /\ import'.geometry = import.geometry
      /\ import'.data = import.data
  BY <1>1 DEF Imports
<1>3. None \notin Imports
  BY NoneAssumption
<1> QED
  BY <1>2, <1>3

\* What is known of the request behind an import and of the key it publishes.
LEMMA KeyLemma ==
  ASSUME TypeOK, NEW c \in Clients, request[c] # None, import # None
  PROVE  /\ request[c] \in Requests
         /\ request[c].kind \in Kinds
         /\ Meta(c) \in Metadata
         /\ import.id \in Contents => Key(c) \in Keys /\ Key(c)[2] = import.id
                                      /\ Key(c)[1] = request[c].kind
<1>1. request[c] \in Requests
  BY StoreAssumption DEF TypeOK
<1>2. /\ request[c].kind \in Kinds
      /\ request[c].label \in Labels \cup {None}
  BY <1>1 DEF Requests
<1>3. import.geometry \in {Geometry[d] : d \in Contents} \cup {None}
  BY DEF TypeOK, Imports
<1>4. Meta(c) \in Metadata
  BY <1>2, <1>3 DEF Meta, Metadata
<1> QED
  BY <1>1, <1>2, <1>4 DEF Key, Keys

-----------------------------------------------------------------------------
(* What a step leaves alone.                                               *)

\* Nothing that is safely on disk goes away or changes.
DiskKeeps ==
  /\ \A d \in Contents : BlobDurable(d) => BlobDurable(d)'
  /\ \A k \in Keys : RecordDurable(k) =>
       RecordDurable(k)' /\ records'[k].meta = records[k].meta

LEMMA SameDisk ==
  ASSUME UNCHANGED diskVars
  PROVE  DiskKeeps
BY DEF DiskKeeps, BlobDurable, RecordDurable, diskVars

LEMMA KeptStays ==
  ASSUME NEW result \in Results, Kept(result), DiskKeeps
  PROVE  Kept(result)'
<1>1. result.key \in Keys /\ result.key[2] \in Contents
  BY DEF Results, Keys
<1> QED
  BY <1>1 DEF Kept, DiskKeeps

\* A client whose part of the state stays as it is knows what it knew.
LEMMA ClientStays ==
  ASSUME TypeOK, DiskKeeps, unsynced => unsynced',
         NEW c \in Clients, ClientInv(c),
         client'[c] = client[c], request'[c] = request[c],
         imported'[c] = imported[c],
         saw'[c] = saw[c]
  PROVE  ClientInv(c)'
<1>1. imported[c] # None => imported[c] \in Results
  BY DEF TypeOK
<1>2. ASSUME imported[c] # None, Kept(imported[c])
      PROVE  Kept(imported[c])'
  <2>1. PICK result \in Results : result = imported[c]
    BY <1>1, <1>2
  <2>2. Kept(result)
    BY <1>2, <2>1
  <2>3. Kept(result)'
    BY <2>2, KeptStays
  <2> QED
    BY <2>1, <2>3 DEF Kept, RecordDurable, BlobDurable
<1> QED
  BY <1>2 DEF ClientInv

\* A refresh of the catalog and a forgotten listing do no harm.
LEMMA SightStays ==
  ASSUME TypeOK, NEW c \in Clients, SightInv(c),
         saw'[c] \in {saw[c], None},
         \/ Refresh
         \/ UNCHANGED <<generation, observed, life>>
  PROVE  SightInv(c)'
<1>1. CASE saw'[c] = None
  BY <1>1 DEF SightInv
<1>2. CASE saw'[c] # None
  <2>1. saw[c] # None /\ saw'[c] = saw[c]
    BY <1>2
  <2>2. /\ saw[c].life \in Nat /\ saw[c].generation \in Nat
        /\ generation \in Nat /\ life \in Nat
    BY <2>1 DEF TypeOK, Sights
  <2>3. CASE UNCHANGED <<generation, observed, life>>
    BY <2>1, <2>3 DEF SightInv
  <2>4. CASE Refresh /\ observed = View
    BY <2>1, <2>4 DEF SightInv, Refresh, Refreshed
  <2>5. CASE Refresh /\ observed # View
    BY <2>1, <2>2, <2>5, SMTT(60) DEF SightInv, Refresh, Refreshed
  <2> QED
    BY <2>3, <2>4, <2>5
<1> QED
  BY <1>1, <1>2

LEMMA RefreshType ==
  ASSUME TypeOK, Refresh \/ UNCHANGED <<generation, observed, life>>
  PROVE  /\ generation' \in Nat
         /\ observed' \in Catalogs \cup {None}
         /\ life' \in Nat
BY ViewLemma, SMTT(60) DEF TypeOK, Refresh, Refreshed

\* With no import left and no link left unsettled, the disk is in order.
LEMMA DiskLeft ==
  ASSUME DiskInv, UNCHANGED diskVars, import' = None,
         ~unsynced' => /\ ~unsynced
                       /\ import # None =>
                            import.stage \notin {"blob_linked", "record_linked"}
  PROVE  DiskInv' /\ ImportInv'
BY DEF DiskInv, ImportInv, diskVars, BlobDurable, RecordDurable

-----------------------------------------------------------------------------
(* The invariant is kept, one lemma for each action.                       *)

LEMMA StoreInit == Init => StoreInv
<1> SUFFICES ASSUME Init PROVE StoreInv
  OBVIOUS
<1>1. TypeOK
  <2>1. faults \in 0..MaxFaults /\ generation \in Nat /\ life \in Nat
    BY StoreAssumption, SMTT(60) DEF Init
  <2> QED
    BY <2>1, ZenonT(60) DEF Init, TypeOK
<1>2. DiskInv /\ ImportInv
  BY DEF Init, DiskInv, ImportInv
<1>3. ASSUME NEW c \in Clients PROVE SightInv(c) /\ ClientInv(c)
  BY DEF Init, SightInv, ClientInv
<1> QED
  BY <1>1, <1>2, <1>3 DEF StoreInv

\* `Fail`: the lock is released and the client has to start over.
LEMMA FailKeeps ==
  ASSUME StoreInv, NEW c \in Clients, Fail(c),
         client[c] \in {"queued", "importing"},
         UNCHANGED <<source, diskVars>>,
         Refresh \/ UNCHANGED <<generation, observed, life>>,
         unsynced' \in BOOLEAN,
         unsynced => unsynced',
         ~unsynced' /\ import # None =>
                         import.stage \notin {"blob_linked", "record_linked"},
         faults' \in 0..MaxFaults
  PROVE  StoreInv'
<1>0. TypeOK
  BY DEF StoreInv
<1>1. /\ client' = [client EXCEPT ![c] = "failed"]
      /\ saw' = [d \in Clients |-> IF d \in {c} THEN None ELSE saw[d]]
      /\ import' = None
      /\ request' = request /\ imported' = imported
  BY DEF Fail, Enter, Forget
<1>2. TypeOK'
  <2>1. generation' \in Nat /\ observed' \in Catalogs \cup {None} /\ life' \in Nat
    BY <1>0, RefreshType
  <2>2. /\ client' \in [Clients -> {"idle", "seen", "queued", "importing", "done", "failed"}]
        /\ saw' \in [Clients -> Sights \cup {None}]
    BY <1>0, <1>1 DEF TypeOK
  <2> QED
    BY <1>0, <1>1, <2>1, <2>2 DEF TypeOK, diskVars
<1>3. DiskInv' /\ ImportInv'
  BY <1>1, DiskLeft DEF StoreInv
<1>4. DiskKeeps
  BY SameDisk
<1>5. ASSUME NEW d \in Clients PROVE SightInv(d)' /\ ClientInv(d)'
  <2>1. saw'[d] \in {saw[d], None}
    BY <1>1
  <2>2. SightInv(d)'
    BY <1>0, <2>1, SightStays DEF StoreInv
  <2>3. CASE d = c
    <3>1. client'[c] = "failed" /\ imported[c] = None
      BY <1>0, <1>1 DEF TypeOK, StoreInv, ClientInv
    <3> QED
      BY <1>1, <2>2, <2>3, <3>1 DEF ClientInv
  <2>4. CASE d # c
    <3>1. /\ client'[d] = client[d] /\ request'[d] = request[d]
          /\ imported'[d] = imported[d] /\ saw'[d] = saw[d]
      BY <1>0, <1>1, <2>4 DEF TypeOK
    <3> QED
      BY <1>0, <1>4, <2>2, <3>1, ClientStays DEF StoreInv
  <2> QED
    BY <2>3, <2>4
<1> QED
  BY <1>2, <1>3, <1>5 DEF StoreInv

LEMMA BrowseKeeps ==
  ASSUME StoreInv, NEW c \in Clients, Browse(c)
  PROVE  StoreInv'
<1>0. TypeOK
  BY DEF StoreInv
<1> DEFINE s == [generation |-> Refreshed, view |-> View, life |-> life]
<1>1. /\ client[c] = "idle" /\ import = None /\ Refresh
      /\ saw' = [saw EXCEPT ![c] = s]
      /\ client' = [client EXCEPT ![c] = "seen"]
      /\ UNCHANGED <<source, diskVars, import, request, imported, unsynced, faults>>
  BY DEF Browse, Enter
<1>2. /\ generation' \in Nat /\ observed' \in Catalogs \cup {None} /\ life' \in Nat
      /\ generation' = Refreshed /\ observed' = View /\ life' = life
  BY <1>0, <1>1, RefreshType DEF Refresh
<1>3. /\ s \in Sights
      /\ s.generation = generation' /\ s.view = observed' /\ s.life = life'
  BY <1>0, <1>2, ViewLemma DEF Sights
<1>4. s # None
  BY <1>3, NoneAssumption
<1> HIDE DEF s
<1>5. TypeOK'
  <2>1. /\ client' \in [Clients -> {"idle", "seen", "queued", "importing", "done", "failed"}]
        /\ saw' \in [Clients -> Sights \cup {None}]
    BY <1>0, <1>1, <1>3 DEF TypeOK
  <2> QED
    BY <1>0, <1>1, <1>2, <2>1 DEF TypeOK, diskVars
<1>6. DiskInv' /\ ImportInv'
  BY <1>1, DiskLeft DEF StoreInv
<1>7. DiskKeeps
  BY <1>1, SameDisk
<1>8. ASSUME NEW d \in Clients PROVE SightInv(d)' /\ ClientInv(d)'
  <2>1. CASE d = c
    <3>1. saw'[c] = s /\ client'[c] = "seen" /\ imported[c] = None
      BY <1>0, <1>1 DEF TypeOK, StoreInv, ClientInv
    <3>2. SightInv(c)'
      BY <1>2, <1>3, <3>1, SMTT(60) DEF SightInv
    <3> QED
      BY <1>1, <1>4, <2>1, <3>1, <3>2 DEF ClientInv
  <2>2. CASE d # c
    <3>1. /\ client'[d] = client[d] /\ request'[d] = request[d]
          /\ imported'[d] = imported[d] /\ saw'[d] = saw[d]
      BY <1>0, <1>1, <2>2 DEF TypeOK
    <3>2. SightInv(d)'
      BY <1>0, <1>1, <3>1, SightStays DEF StoreInv
    <3> QED
      BY <1>0, <1>1, <1>7, <3>1, <3>2, ClientStays DEF StoreInv
  <2> QED
    BY <2>1, <2>2
<1> QED
  BY <1>5, <1>6, <1>8 DEF StoreInv

LEMMA ResolveKeeps ==
  ASSUME StoreInv, Resolve
  PROVE  StoreInv'
<1>0. TypeOK
  BY DEF StoreInv
<1>1. /\ Refresh
      /\ UNCHANGED <<source, diskVars, import, clientVars, unsynced, faults>>
  BY DEF Resolve
<1>2. generation' \in Nat /\ observed' \in Catalogs \cup {None} /\ life' \in Nat
  BY <1>0, <1>1, RefreshType
<1>3. TypeOK'
  BY <1>0, <1>1, <1>2 DEF TypeOK, diskVars, clientVars
<1>4. DiskInv' /\ ImportInv'
  BY <1>1, DiskLeft, SMTT(60) DEF StoreInv, Resolve
<1>5. DiskKeeps
  BY <1>1, SameDisk
<1>6. ASSUME NEW d \in Clients PROVE SightInv(d)' /\ ClientInv(d)'
  <2>1. /\ client'[d] = client[d] /\ request'[d] = request[d]
        /\ imported'[d] = imported[d] /\ saw'[d] = saw[d]
    BY <1>1 DEF clientVars
  <2>2. SightInv(d)'
    BY <1>0, <1>1, <2>1, SightStays DEF StoreInv
  <2> QED
    BY <1>0, <1>1, <1>5, <2>1, <2>2, ClientStays DEF StoreInv
<1> QED
  BY <1>3, <1>4, <1>6 DEF StoreInv

\* The import under way does not notice what another client does.
LEMMA ImportStays ==
  ASSUME DiskInv, ImportInv, UNCHANGED <<diskVars, import, unsynced>>,
         import # None => /\ client'[import.client] = client[import.client]
                          /\ request'[import.client] = request[import.client]
  PROVE  DiskInv' /\ ImportInv'
<1>1. /\ blobs' = blobs /\ records' = records
      /\ import' = import /\ unsynced' = unsynced
  BY DEF diskVars
<1>2. CASE import = None
  BY <1>1, <1>2, SMTT(60) DEF DiskInv, ImportInv, BlobDurable, RecordDurable
<1>3. CASE import # None
  <2>1. Key(import.client)' = Key(import.client) /\ Meta(import.client)' = Meta(import.client)
    BY <1>1, <1>3 DEF Key, Meta
  <2>2. DiskInv'
    BY <1>1, <1>3, <2>1, SMTT(60) DEF DiskInv, BlobDurable, RecordDurable
  <2>3. ImportInv'
    BY <1>1, <1>3, <2>1, SMTT(60) DEF ImportInv, BlobDurable, RecordDurable
  <2> QED
    BY <2>2, <2>3
<1> QED
  BY <1>2, <1>3

\* A client that has no import under way turns to its next step.
LEMMA TurnKeeps ==
  ASSUME StoreInv, NEW c \in Clients, NEW stage \in {"idle", "queued"}, Enter(c, stage),
         client[c] \in {"seen", "failed"},
         client[c] = "seen" \/ stage = "idle",
         request' \in [Clients -> Workload \cup {None}],
         stage = "queued" => request'[c] # None,
         \A d \in Clients \ {c} : request'[d] = request[d],
         UNCHANGED <<source, diskVars, catalogVars, saw, imported, unsynced, faults>>
  PROVE  StoreInv'
<1>0. TypeOK
  BY DEF StoreInv
<1>1. /\ client' \in [Clients -> {"idle", "seen", "queued", "importing", "done", "failed"}]
      /\ client'[c] = stage
      /\ \A d \in Clients \ {c} : client'[d] = client[d]
  BY <1>0 DEF TypeOK, Enter
<1>2. TypeOK'
  BY <1>0, <1>1 DEF TypeOK, diskVars, catalogVars
<1>3. import # None => import.client \in Clients \ {c}
  <2>1. import # None => import.client \in Clients /\ client[import.client] = "importing"
    BY <1>0 DEF TypeOK, Imports, StoreInv, ImportInv
  <2> QED
    BY <2>1
<1>4. DiskInv' /\ ImportInv'
  BY <1>1, <1>3, ImportStays DEF StoreInv, catalogVars
<1>5. DiskKeeps
  BY SameDisk
<1>6. ASSUME NEW d \in Clients PROVE SightInv(d)' /\ ClientInv(d)'
  <2>1. SightInv(d)'
    BY DEF StoreInv, SightInv, catalogVars
  <2>2. CASE d = c
    <3>1. imported[c] = None /\ (stage = "queued" => saw[c] # None)
      BY DEF StoreInv, ClientInv
    <3> QED
      BY <1>1, <2>1, <2>2, <3>1 DEF ClientInv
  <2>3. CASE d # c
    BY <1>0, <1>1, <1>5, <2>1, <2>3, ClientStays DEF StoreInv
  <2> QED
    BY <2>2, <2>3
<1> QED
  BY <1>2, <1>4, <1>6 DEF StoreInv

LEMMA SubmitKeeps ==
  ASSUME StoreInv, NEW c \in Clients, Submit(c)
  PROVE  StoreInv'
<1>0. TypeOK
  BY DEF StoreInv
<1>1. PICK r \in Workload : request' = [request EXCEPT ![c] = r]
  BY <1>0, ZenonT(60) DEF Submit, TypeOK
<1>2. r # None
  BY NoneAssumption, StoreAssumption
<1>3. /\ request' \in [Clients -> Workload \cup {None}]
      /\ request'[c] # None
      /\ \A d \in Clients \ {c} : request'[d] = request[d]
  BY <1>0, <1>1, <1>2 DEF TypeOK
<1> QED
  BY <1>3, TurnKeeps DEF Submit

LEMMA StartOverKeeps ==
  ASSUME StoreInv, NEW c \in Clients, StartOver(c)
  PROVE  StoreInv'
<1>1. request' = request /\ request \in [Clients -> Workload \cup {None}]
  BY DEF StartOver, StoreInv, TypeOK
<1> QED
  BY <1>1, TurnKeeps DEF StartOver

LEMMA BeginImportKeeps ==
  ASSUME StoreInv, NEW c \in Clients, BeginImport(c)
  PROVE  StoreInv'
<1>0. TypeOK
  BY DEF StoreInv
<1>1. /\ client[c] = "queued" /\ import = None
      /\ UNCHANGED <<source, diskVars, unsynced, faults>>
      /\ Refresh \/ UNCHANGED <<generation, observed, life>>
  BY DEF BeginImport
<1>2. CASE Fail(c)
  BY <1>0, <1>1, <1>2, FailKeeps DEF TypeOK
<1>3. CASE ~Fail(c)
  <2> DEFINE i == [client |-> c, stage |-> "opened", id |-> None,
                   geometry |-> None, data |-> "cached"]
  <2>1. /\ import' = i
        /\ client' = [client EXCEPT ![c] = "importing"]
        /\ saw' = [d \in Clients |-> IF d \in {c} THEN None ELSE saw[d]]
        /\ request' = request /\ imported' = imported
    BY <1>3, ZenonT(60) DEF BeginImport, Enter, Forget
  <2>2. i \in Imports /\ i.stage = "opened" /\ i.client = c
    BY DEF Imports, Stages
  <2> HIDE DEF i
  <2>3. TypeOK'
    <3>1. generation' \in Nat /\ observed' \in Catalogs \cup {None} /\ life' \in Nat
      BY <1>0, <1>1, RefreshType
    <3>2. /\ client' \in [Clients -> {"idle", "seen", "queued", "importing", "done", "failed"}]
          /\ saw' \in [Clients -> Sights \cup {None}]
      BY <1>0, <2>1 DEF TypeOK
    <3> QED
      BY <1>0, <1>1, <2>1, <2>2, <3>1, <3>2 DEF TypeOK, diskVars
  <2>4. DiskInv'
    BY <1>1, <2>1, <2>2 DEF StoreInv, DiskInv, diskVars, BlobDurable, RecordDurable
  <2>5. ImportInv'
    BY <1>0, <2>1, <2>2 DEF ImportInv, TypeOK
  <2>6. DiskKeeps
    BY <1>1, SameDisk
  <2>7. ASSUME NEW d \in Clients PROVE SightInv(d)' /\ ClientInv(d)'
    <3>1. SightInv(d)'
      BY <1>0, <1>1, <2>1, SightStays DEF StoreInv
    <3>2. CASE d = c
      <4>1. client'[c] = "importing" /\ imported[c] = None /\ request[c] # None
        BY <1>0, <1>1, <2>1 DEF TypeOK, StoreInv, ClientInv
      <4> QED
        BY <2>1, <3>1, <3>2, <4>1 DEF ClientInv
    <3>3. CASE d # c
      <4>1. /\ client'[d] = client[d] /\ request'[d] = request[d]
            /\ imported'[d] = imported[d] /\ saw'[d] = saw[d]
        BY <1>0, <2>1, <3>3 DEF TypeOK
      <4> QED
        BY <1>0, <1>1, <2>6, <3>1, <4>1, ClientStays DEF StoreInv
    <3> QED
      BY <3>2, <3>3
  <2> QED
    BY <2>3, <2>4, <2>5, <2>7 DEF StoreInv
<1> QED
  BY <1>2, <1>3

\* The client of the import under way.
LEMMA StageLemma ==
  ASSUME StoreInv, NEW c \in Clients, NEW stage, Stage(c, stage)
  PROVE  /\ import # None /\ import \in Imports
         /\ import.client = c /\ import.stage = stage
         /\ client[c] = "importing" /\ request[c] # None
BY DEF StoreInv, TypeOK, Stage, ImportInv, ClientInv

\* A step of an import that its client does not notice.
LEMMA ImportMoves ==
  ASSUME StoreInv,
         UNCHANGED <<source, generation, observed, life, clientVars, unsynced, faults>>,
         import' \in Imports,
         blobs' \in [Contents -> Blobs \cup {None}],
         records' \in [Keys -> Records \cup {None}],
         DiskKeeps, DiskInv', ImportInv'
  PROVE  StoreInv'
<1>0. TypeOK
  BY DEF StoreInv
<1>1. TypeOK'
  BY <1>0 DEF TypeOK, clientVars
<1>2. ASSUME NEW d \in Clients PROVE SightInv(d)' /\ ClientInv(d)'
  <2>1. SightInv(d)'
    BY DEF StoreInv, SightInv, clientVars
  <2> QED
    BY <1>0, <2>1, ClientStays, ZenonT(60) DEF StoreInv, clientVars
<1> QED
  BY <1>1, <1>2 DEF StoreInv

LEMMA InspectKeeps ==
  ASSUME StoreInv, NEW c \in Clients, Inspect(c)
  PROVE  StoreInv'
<1>0. TypeOK
  BY DEF StoreInv
<1>1. /\ import # None /\ import \in Imports
      /\ import.client = c /\ import.stage = "opened"
      /\ client[c] = "importing" /\ request[c] # None
  BY StageLemma DEF Inspect
<1>2. UNCHANGED <<source, diskVars, generation, observed, life, unsynced, faults>>
  BY DEF Inspect
<1>3. CASE Fail(c)
  BY <1>0, <1>1, <1>2, <1>3, FailKeeps DEF TypeOK
<1>4. CASE ~Fail(c)
  <2> DEFINE g == Geometry[source[request[c].path]]
  <2>1. import' = [import EXCEPT !.stage = "inspected", !.geometry = g]
    BY <1>4 DEF Inspect
  <2>2. UNCHANGED clientVars
    BY <1>4 DEF Inspect
  <2>3. g \in {Geometry[d] : d \in Contents}
    <3>1. request[c] \in Requests
      BY <1>0, <1>1, KeyLemma
    <3>2. source[request[c].path] \in Contents
      BY <1>0, <3>1 DEF TypeOK, Requests
    <3> QED
      BY <3>2
  <2> HIDE DEF g
  <2>4. /\ import' \in Imports
        /\ import'.stage = "inspected"
        /\ import'.client = c
    BY <1>1, <2>1, <2>3, ZenonT(60) DEF Imports, Stages
  <2>5. DiskInv'
    BY <1>1, <1>2, <2>4 DEF StoreInv, DiskInv, diskVars, BlobDurable, RecordDurable
  <2>6. ImportInv'
    BY <1>1, <2>2, <2>4 DEF ImportInv, clientVars
  <2>7. DiskKeeps
    BY <1>2, SameDisk
  <2> QED
    BY <1>0, <1>2, <2>2, <2>4, <2>5, <2>6, <2>7, ImportMoves DEF TypeOK, diskVars
<1> QED
  BY <1>3, <1>4

LEMMA CopyKeeps ==
  ASSUME StoreInv, NEW c \in Clients, Copy(c)
  PROVE  StoreInv'
<1>0. TypeOK
  BY DEF StoreInv
<1>1. /\ import # None /\ import \in Imports
      /\ import.client = c /\ import.stage \in {"opened", "inspected"}
      /\ client[c] = "importing" /\ request[c] # None
  BY StageLemma DEF Copy
<1>2. UNCHANGED <<source, diskVars, generation, observed, life, unsynced, faults>>
  BY DEF Copy
<1>3. CASE Fail(c)
  BY <1>0, <1>1, <1>2, <1>3, FailKeeps DEF TypeOK
<1>4. CASE ~Fail(c)
  <2> DEFINE content == source[request[c].path]
  <2>1. /\ import' = [import EXCEPT !.stage = "copied", !.id = content]
        /\ request[c].expected \in {None, content}
    BY <1>4 DEF Copy
  <2>2. UNCHANGED clientVars
    BY <1>4 DEF Copy
  <2>3. content \in Contents
    <3>1. request[c] \in Requests
      BY <1>0, <1>1, KeyLemma
    <3> QED
      BY <1>0, <3>1 DEF TypeOK, Requests
  <2> HIDE DEF content
  <2>4. /\ import' \in Imports
        /\ import'.stage = "copied"
        /\ import'.client = c
        /\ import'.id = content
    BY <1>1, <2>1, <2>3, ZenonT(60) DEF Imports, Stages
  <2>5. DiskInv'
    BY <1>1, <1>2, <2>4 DEF StoreInv, DiskInv, diskVars, BlobDurable, RecordDurable
  <2>6. ImportInv'
    BY <1>1, <2>1, <2>2, <2>3, <2>4 DEF ImportInv, clientVars
  <2>7. DiskKeeps
    BY <1>2, SameDisk
  <2> QED
    BY <1>0, <1>2, <2>2, <2>4, <2>5, <2>6, <2>7, ImportMoves DEF TypeOK, diskVars
<1> QED
  BY <1>3, <1>4

LEMMA SyncBlobKeeps ==
  ASSUME StoreInv, NEW c \in Clients, SyncBlob(c)
  PROVE  StoreInv'
<1>0. TypeOK
  BY DEF StoreInv
<1>1. /\ import # None /\ import \in Imports
      /\ import.client = c /\ import.stage = "copied"
      /\ client[c] = "importing" /\ request[c] # None
  BY StageLemma DEF SyncBlob
<1>2. /\ import' = [import EXCEPT !.stage = "synced", !.data = "synced"]
      /\ UNCHANGED <<source, diskVars, generation, observed, life, clientVars, unsynced, faults>>
  BY DEF SyncBlob
<1>3. /\ import' \in Imports
      /\ import'.stage = "synced" /\ import'.data = "synced"
      /\ import'.client = c /\ import'.id = import.id
  BY <1>1, <1>2, ZenonT(60) DEF Imports, Stages
<1>4. DiskInv'
  BY <1>1, <1>2, <1>3 DEF StoreInv, DiskInv, diskVars, BlobDurable, RecordDurable
<1>5. ImportInv'
  BY <1>1, <1>2, <1>3 DEF StoreInv, ImportInv, clientVars
<1>6. DiskKeeps
  BY <1>2, SameDisk
<1> QED
  BY <1>0, <1>2, <1>3, <1>4, <1>5, <1>6, ImportMoves DEF TypeOK, diskVars

\* `publish_blob`: the link is new, or the blob that was there is used.
LEMMA PublishBlobKeeps ==
  ASSUME StoreInv, NEW c \in Clients, PublishBlob(c)
  PROVE  StoreInv'
<1>0. TypeOK /\ DiskInv /\ ImportInv
  BY DEF StoreInv
<1>1. /\ import # None /\ import \in Imports
      /\ import.client = c /\ import.stage = "synced"
      /\ client[c] = "importing" /\ request[c] # None
  BY StageLemma DEF PublishBlob
<1>2. UNCHANGED <<source, records, generation, observed, life, unsynced, faults>>
  BY DEF PublishBlob
<1>3. /\ import.id \in Contents /\ request[c].expected \in {None, import.id}
      /\ import.data = "synced"
  BY <1>0, <1>1 DEF ImportInv
<1>4. CASE blobs[import.id] = None
  <2> DEFINE b == [entry |-> "linked", data |-> import.data]
  <2>1. /\ blobs' = [blobs EXCEPT ![import.id] = b]
        /\ Advance("blob_linked") /\ UNCHANGED clientVars
    BY <1>4 DEF PublishBlob
  <2>2. b \in Blobs /\ b.entry = "linked" /\ b.data = "synced"
    BY <1>3 DEF Blobs, Entries
  <2> HIDE DEF b
  <2>3. /\ import' \in Imports /\ import' # None
        /\ import'.stage = "blob_linked" /\ import'.client = c
        /\ import'.id = import.id /\ import'.data = "synced"
    BY <1>1, <1>3, <2>1, AdvanceLemma DEF Stages
  <2>4. /\ blobs' \in [Contents -> Blobs \cup {None}]
        /\ blobs'[import.id] = b
        /\ \A d \in Contents \ {import.id} : blobs'[d] = blobs[d]
    BY <1>0, <1>3, <2>1, <2>2 DEF TypeOK
  <2>5. \A d \in Contents : BlobDurable(d) => BlobDurable(d)'
    BY <1>4, <2>4 DEF BlobDurable
  <2>6. DiskKeeps
    BY <1>2, <2>5 DEF DiskKeeps, RecordDurable
  <2>7. DiskInv'
    <3>1. \A d \in Contents : blobs'[d] # None => blobs'[d].data = "synced"
      BY <1>0, <2>2, <2>4 DEF DiskInv
    <3>2. ASSUME ~unsynced', NEW d \in Contents, blobs'[d] # None
          PROVE  \/ BlobDurable(d)'
                 \/ import' # None /\ import'.stage = "blob_linked" /\ import'.id = d
      BY <1>0, <1>1, <1>2, <2>3, <2>4, <2>5, <3>2 DEF DiskInv
    <3>3. ASSUME ~unsynced', NEW k \in Keys, records'[k] # None
          PROVE  BlobDurable(k[2])' /\ RecordDurable(k)'
      BY <1>0, <1>1, <1>2, <2>5, <3>3 DEF DiskInv, RecordDurable, Keys
    <3> QED
      BY <3>1, <3>2, <3>3 DEF DiskInv
  <2>8. ImportInv'
    <3>1. blobs'[import'.id] # None
      BY <2>2, <2>3, <2>4, NoneAssumption
    <3> QED
      BY <1>1, <1>3, <2>1, <2>3, <3>1 DEF ImportInv, clientVars
  <2> QED
    BY <1>0, <1>2, <2>1, <2>3, <2>4, <2>6, <2>7, <2>8, ImportMoves DEF TypeOK
<1>5. CASE blobs[import.id] # None /\ Intact(import.id)
  <2>1. Advance("blob_published") /\ UNCHANGED clientVars /\ UNCHANGED diskVars
    BY <1>2, <1>5 DEF PublishBlob, diskVars
  <2>2. /\ import' \in Imports /\ import' # None
        /\ import'.stage = "blob_published" /\ import'.client = c
        /\ import'.id = import.id /\ import'.data = "synced"
    BY <1>1, <1>3, <2>1, AdvanceLemma DEF Stages
  <2>3. ~unsynced => BlobDurable(import.id)
    BY <1>0, <1>1, <1>3, <1>5 DEF DiskInv
  <2>4. DiskInv'
    BY <1>0, <1>1, <1>2, <2>1, <2>2 DEF DiskInv, diskVars, BlobDurable, RecordDurable
  <2>5. ImportInv'
    BY <1>1, <1>2, <1>3, <2>1, <2>2, <2>3 DEF ImportInv, clientVars, diskVars, BlobDurable
  <2>6. DiskKeeps
    BY <2>1, SameDisk
  <2> QED
    BY <1>0, <1>2, <2>1, <2>2, <2>4, <2>5, <2>6, ImportMoves DEF TypeOK, diskVars
<1>6. CASE blobs[import.id] # None /\ ~Intact(import.id)
  <2>1. Fail(c) /\ UNCHANGED diskVars
    BY <1>2, <1>6 DEF PublishBlob, diskVars
  <2> QED
    BY <1>0, <1>1, <1>2, <2>1, FailKeeps DEF TypeOK
<1> QED
  BY <1>4, <1>5, <1>6

LEMMA SyncBlobDirectoryKeeps ==
  ASSUME StoreInv, NEW c \in Clients, SyncBlobDirectory(c)
  PROVE  StoreInv'
<1>0. TypeOK /\ DiskInv /\ ImportInv
  BY DEF StoreInv
<1>1. /\ import # None /\ import \in Imports
      /\ import.client = c /\ import.stage = "blob_linked"
      /\ client[c] = "importing" /\ request[c] # None
  BY StageLemma DEF SyncBlobDirectory
<1>2. /\ blobs' = [d \in Contents |->
            IF blobs[d] = None THEN None ELSE [blobs[d] EXCEPT !.entry = "durable"]]
      /\ Advance("blob_published")
      /\ UNCHANGED <<source, records, generation, observed, life, clientVars, unsynced, faults>>
  BY DEF SyncBlobDirectory
<1>3. /\ import.id \in Contents /\ request[c].expected \in {None, import.id}
      /\ import.data = "synced" /\ blobs[import.id] # None
  BY <1>0, <1>1 DEF ImportInv
<1>4. /\ import' \in Imports /\ import' # None
      /\ import'.stage = "blob_published" /\ import'.client = c
      /\ import'.id = import.id /\ import'.data = "synced"
  BY <1>1, <1>2, <1>3, AdvanceLemma DEF Stages
<1>5. ASSUME NEW d \in Contents
      PROVE  /\ blobs'[d] \in Blobs \cup {None}
             /\ blobs[d] = None => blobs'[d] = None
             /\ blobs[d] # None => /\ BlobDurable(d)'
                                   /\ blobs'[d].data = blobs[d].data
  <2>1. CASE blobs[d] = None
    BY <1>2, <2>1
  <2>2. CASE blobs[d] # None
    <3>1. blobs[d] \in Blobs
      BY <1>0, <2>2 DEF TypeOK
    <3>2. blobs'[d] = [blobs[d] EXCEPT !.entry = "durable"]
      BY <1>2, <2>2
    <3>3. /\ blobs'[d] \in Blobs
          /\ blobs'[d].entry = "durable" /\ blobs'[d].data = blobs[d].data
      BY <3>1, <3>2 DEF Blobs, Entries
    <3>4. blobs'[d] # None
      BY <3>3, NoneAssumption
    <3> QED
      BY <2>2, <3>3, <3>4 DEF BlobDurable
  <2> QED
    BY <2>1, <2>2
<1>6. blobs' \in [Contents -> Blobs \cup {None}]
  BY <1>2, <1>5
<1>7. DiskKeeps
  BY <1>2, <1>5, ZenonT(60) DEF DiskKeeps, BlobDurable, RecordDurable
<1>8. DiskInv'
  <2>1. ASSUME NEW d \in Contents, blobs'[d] # None
        PROVE  blobs'[d].data = "synced" /\ BlobDurable(d)'
    BY <1>0, <1>5, <2>1 DEF DiskInv
  <2>2. ASSUME ~unsynced', NEW k \in Keys, records'[k] # None
        PROVE  BlobDurable(k[2])' /\ RecordDurable(k)'
    BY <1>0, <1>1, <1>2, <1>7, <2>2 DEF DiskInv, DiskKeeps, RecordDurable, Keys
  <2> QED
    BY <2>1, <2>2 DEF DiskInv
<1>9. ImportInv'
  BY <1>1, <1>2, <1>3, <1>4, <1>5 DEF ImportInv, clientVars
<1> QED
  BY <1>0, <1>2, <1>4, <1>6, <1>7, <1>8, <1>9, ImportMoves DEF TypeOK

\* `publish_record`: the record is new, or the equal one that was there is used.
LEMMA PublishRecordKeeps ==
  ASSUME StoreInv, NEW c \in Clients, PublishRecord(c)
  PROVE  StoreInv'
<1>0. TypeOK /\ DiskInv /\ ImportInv
  BY DEF StoreInv
<1>1. /\ import # None /\ import \in Imports
      /\ import.client = c /\ import.stage = "blob_published"
      /\ client[c] = "importing" /\ request[c] # None
  BY StageLemma DEF PublishRecord
<1>2. UNCHANGED <<source, blobs, generation, observed, life, unsynced, faults>>
  BY DEF PublishRecord
<1>3. /\ import.id \in Contents /\ request[c].expected \in {None, import.id}
      /\ import.data = "synced"
      /\ ~unsynced => BlobDurable(import.id)
  BY <1>0, <1>1 DEF ImportInv
<1>4. /\ Key(c) \in Keys /\ Key(c)[2] = import.id
      /\ Meta(c) \in Metadata
  BY <1>0, <1>1, <1>3, KeyLemma
<1>5. CASE /\ records[Key(c)] = None
           /\ records' = [records EXCEPT ![Key(c)] = [meta |-> Meta(c), entry |-> "linked"]]
           /\ Advance("record_linked") /\ UNCHANGED clientVars
  <2> DEFINE r == [meta |-> Meta(c), entry |-> "linked"]
  <2>1. r \in Records /\ r.meta = Meta(c) /\ r.entry = "linked"
    BY <1>4, ZenonT(60) DEF Records, Entries
  <2>2. r # None
    BY <2>1, NoneAssumption
  <2>3. records' = [records EXCEPT ![Key(c)] = r]
    BY <1>5
  <2> HIDE DEF r
  <2>4. /\ import' \in Imports /\ import' # None
        /\ import'.stage = "record_linked" /\ import'.client = c
        /\ import'.id = import.id /\ import'.data = "synced"
        /\ import'.geometry = import.geometry
    BY <1>1, <1>3, <1>5, AdvanceLemma, ZenonT(60) DEF Stages
  <2>5. Key(c)' = Key(c) /\ Meta(c)' = Meta(c)
    BY <1>5, <2>4, ZenonT(60) DEF Key, Meta, clientVars
  <2>6. /\ records' \in [Keys -> Records \cup {None}]
        /\ records'[Key(c)] = r
        /\ \A k \in Keys \ {Key(c)} : records'[k] = records[k]
    BY <1>0, <1>4, <2>1, <2>3 DEF TypeOK
  <2>7. DiskKeeps
    BY <1>2, <1>5, <2>6, ZenonT(60) DEF DiskKeeps, RecordDurable, BlobDurable
  <2>8. DiskInv'
    <3>1. \A d \in Contents : blobs'[d] # None => blobs'[d].data = "synced"
      BY <1>0, <1>2 DEF DiskInv
    <3>2. ASSUME ~unsynced', NEW d \in Contents, blobs'[d] # None
          PROVE  BlobDurable(d)'
      BY <1>0, <1>1, <1>2, <3>2 DEF DiskInv, BlobDurable
    <3>3. ASSUME ~unsynced', NEW k \in Keys, records'[k] # None
          PROVE  /\ BlobDurable(k[2])'
                 /\ \/ RecordDurable(k)'
                    \/ /\ import' # None /\ import'.stage = "record_linked"
                       /\ k = Key(import.client)'
      <4>1. CASE k = Key(c)
        BY <1>1, <1>2, <1>3, <1>4, <2>4, <2>5, <3>3, <4>1, ZenonT(60) DEF BlobDurable, Key
      <4>2. CASE k # Key(c)
        BY <1>0, <1>1, <1>2, <2>6, <3>3, <4>2 DEF DiskInv, BlobDurable, RecordDurable
      <4> QED
        BY <4>1, <4>2
    <3> QED
      BY <3>1, <3>2, <3>3 DEF DiskInv
  <2>9. ImportInv'
    <3>1. /\ client'[c] = "importing"
          /\ request'[c] = request[c]
          /\ ~unsynced' => BlobDurable(import.id)'
      BY <1>1, <1>2, <1>3, <1>5, <2>4, ZenonT(60) DEF clientVars, BlobDurable
    <3>2. records'[Key(c)'] # None /\ records'[Key(c)'].meta = Meta(c)'
      BY <2>1, <2>2, <2>5, <2>6
    <3> QED
      BY <1>3, <2>4, <3>1, <3>2, ZenonT(60) DEF ImportInv, Key, Meta
  <2> QED
    BY <1>0, <1>2, <1>5, <2>4, <2>6, <2>7, <2>8, <2>9, ImportMoves DEF TypeOK
<1>6. CASE /\ View[Key(c)] = Meta(c)
           /\ Advance("record_published") /\ UNCHANGED <<records, clientVars>>
  <2>1. /\ import' \in Imports /\ import' # None
        /\ import'.stage = "record_published" /\ import'.client = c
        /\ import'.id = import.id /\ import'.data = "synced"
        /\ import'.geometry = import.geometry
    BY <1>1, <1>3, <1>6, AdvanceLemma DEF Stages
  <2>2. Key(c)' = Key(c) /\ Meta(c)' = Meta(c)
    BY <1>6, <2>1 DEF Key, Meta, clientVars
  <2>3. records[Key(c)] # None /\ records[Key(c)].meta = Meta(c)
    <3>1. Meta(c) # None
      BY <1>4, NoneAssumption
    <3> QED
      BY <1>0, <1>4, <1>6, <3>1, ViewLemma
  <2>4. ~unsynced => RecordDurable(Key(c))
    BY <1>0, <1>1, <1>4, <2>3 DEF DiskInv
  <2>5. DiskInv'
    BY <1>0, <1>1, <1>2, <1>6, <2>1 DEF DiskInv, BlobDurable, RecordDurable
  <2>6. ImportInv'
    <3>1. /\ client'[c] = "importing"
          /\ request'[c] = request[c]
          /\ ~unsynced' => BlobDurable(import.id)'
      BY <1>1, <1>2, <1>3, <1>6, <2>1, ZenonT(60) DEF clientVars, BlobDurable
    <3>2. /\ records'[Key(c)'] # None /\ records'[Key(c)'].meta = Meta(c)'
          /\ ~unsynced' => RecordDurable(Key(c))'
      BY <1>2, <1>6, <2>2, <2>3, <2>4 DEF RecordDurable
    <3> QED
      BY <1>3, <2>1, <3>1, <3>2 DEF ImportInv, Key, Meta
  <2>7. DiskKeeps
    BY <1>2, <1>6, SameDisk DEF diskVars
  <2> QED
    BY <1>0, <1>2, <1>6, <2>1, <2>5, <2>6, <2>7, ImportMoves DEF TypeOK
<1>7. CASE Fail(c) /\ UNCHANGED records
  <2>1. UNCHANGED diskVars
    BY <1>2, <1>7 DEF diskVars
  <2> QED
    BY <1>0, <1>1, <1>2, <1>7, <2>1, FailKeeps DEF TypeOK
<1> QED
  BY <1>5, <1>6, <1>7 DEF PublishRecord

LEMMA SyncRecordDirectoryKeeps ==
  ASSUME StoreInv, NEW c \in Clients, SyncRecordDirectory(c)
  PROVE  StoreInv'
<1>0. TypeOK /\ DiskInv /\ ImportInv
  BY DEF StoreInv
<1>1. /\ import # None /\ import \in Imports
      /\ import.client = c /\ import.stage = "record_linked"
      /\ client[c] = "importing" /\ request[c] # None
  BY StageLemma DEF SyncRecordDirectory
<1>2. /\ records' = [k \in Keys |->
            IF records[k] # None /\ k[1] = request[c].kind
              THEN [records[k] EXCEPT !.entry = "durable"] ELSE records[k]]
      /\ Advance("record_published")
      /\ UNCHANGED <<source, blobs, generation, observed, life, clientVars, unsynced, faults>>
  BY DEF SyncRecordDirectory
<1>3. /\ import.id \in Contents /\ request[c].expected \in {None, import.id}
      /\ import.data = "synced"
      /\ ~unsynced => /\ BlobDurable(import.id)
                      /\ records[Key(c)] # None /\ records[Key(c)].meta = Meta(c)
  BY <1>0, <1>1, ZenonT(60) DEF ImportInv
<1>4. /\ import' \in Imports /\ import' # None
      /\ import'.stage = "record_published" /\ import'.client = c
      /\ import'.id = import.id /\ import'.data = "synced"
      /\ import'.geometry = import.geometry
  BY <1>1, <1>2, <1>3, AdvanceLemma DEF Stages
<1>5. /\ Key(c) \in Keys /\ Key(c)[1] = request[c].kind
      /\ Key(c)' = Key(c) /\ Meta(c)' = Meta(c)
  <2>1. Key(c) \in Keys /\ Key(c)[1] = request[c].kind
    BY <1>0, <1>1, <1>3, KeyLemma, ZenonT(60)
  <2> QED
    BY <1>2, <1>4, <2>1 DEF Key, Meta, clientVars
<1>6. ASSUME NEW k \in Keys
      PROVE  /\ records'[k] \in Records \cup {None}
             /\ records[k] = None => records'[k] = None
             /\ records[k] # None => /\ records'[k] # None
                                     /\ records'[k].meta = records[k].meta
                                     /\ RecordDurable(k) \/ k[1] = request[c].kind
                                          => RecordDurable(k)'
  <2>1. CASE records[k] = None \/ k[1] # request[c].kind
    BY <1>0, <1>2, <2>1 DEF TypeOK, RecordDurable
  <2>2. CASE records[k] # None /\ k[1] = request[c].kind
    <3>1. records[k] \in Records
      BY <1>0, <2>2 DEF TypeOK
    <3>2. records'[k] = [records[k] EXCEPT !.entry = "durable"]
      BY <1>2, <2>2
    <3>3. /\ records'[k] \in Records
          /\ records'[k].entry = "durable" /\ records'[k].meta = records[k].meta
      BY <3>1, <3>2 DEF Records, Entries
    <3>4. records'[k] # None
      BY <3>3, NoneAssumption
    <3> QED
      BY <2>2, <3>3, <3>4 DEF RecordDurable
  <2> QED
    BY <2>1, <2>2
<1>7. records' \in [Keys -> Records \cup {None}]
  BY <1>2, <1>6
<1>8. DiskKeeps
  BY <1>2, <1>6 DEF DiskKeeps, BlobDurable, RecordDurable
<1>9. DiskInv'
  <2>1. \A d \in Contents : blobs'[d] # None => blobs'[d].data = "synced"
    BY <1>0, <1>2 DEF DiskInv
  <2>2. ASSUME ~unsynced', NEW d \in Contents, blobs'[d] # None
        PROVE  BlobDurable(d)'
    BY <1>0, <1>1, <1>2, <2>2 DEF DiskInv, BlobDurable
  <2>3. ASSUME ~unsynced', NEW k \in Keys, records'[k] # None
        PROVE  BlobDurable(k[2])' /\ RecordDurable(k)'
    <3>1. /\ records[k] # None /\ BlobDurable(k[2])
          /\ RecordDurable(k) \/ k = Key(c)
      BY <1>0, <1>1, <1>2, <1>6, <2>3 DEF DiskInv
    <3> QED
      BY <1>2, <1>5, <1>6, <3>1, ZenonT(60) DEF BlobDurable
  <2> QED
    BY <2>1, <2>2, <2>3 DEF DiskInv
<1>10. ImportInv'
  <2>1. /\ client'[c] = "importing"
        /\ request'[c] = request[c]
        /\ ~unsynced' => BlobDurable(import.id)'
    BY <1>1, <1>2, <1>3, <1>4 DEF clientVars, BlobDurable
  <2>2. ~unsynced' => /\ records'[Key(c)'] # None /\ records'[Key(c)'].meta = Meta(c)'
                      /\ RecordDurable(Key(c))'
    BY <1>2, <1>3, <1>5, <1>6, ZenonT(60) DEF RecordDurable
  <2> QED
    BY <1>3, <1>4, <2>1, <2>2, ZenonT(60) DEF ImportInv, Key, Meta
<1> QED
  BY <1>0, <1>2, <1>4, <1>7, <1>8, <1>9, <1>10, ImportMoves DEF TypeOK

LEMMA EndImportKeeps ==
  ASSUME StoreInv, NEW c \in Clients, EndImport(c)
  PROVE  StoreInv'
<1>0. TypeOK /\ DiskInv /\ ImportInv
  BY DEF StoreInv
<1>1. /\ import # None /\ import \in Imports
      /\ import.client = c /\ import.stage = "record_published"
      /\ client[c] = "importing" /\ request[c] # None
  BY StageLemma, ZenonT(60) DEF EndImport
<1>2. UNCHANGED <<source, diskVars, unsynced, faults>>
  BY DEF EndImport
<1>3. CASE ~Readable
  <2>1. Fail(c) /\ UNCHANGED <<generation, observed, life>>
    BY <1>3 DEF EndImport
  <2> QED
    BY <1>0, <1>1, <1>2, <2>1, FailKeeps DEF TypeOK
<1>4. CASE Readable
  <2> DEFINE found == [key |-> Key(c), meta |-> Meta(c)]
  <2>1. /\ Refresh /\ import' = None
        /\ imported' = [imported EXCEPT ![c] = found]
        /\ client' = [client EXCEPT ![c] = "done"]
        /\ request' = request /\ saw' = saw
    BY <1>4 DEF EndImport, Enter
  <2>2. /\ import.id \in Contents /\ request[c].expected \in {None, import.id}
        /\ ~unsynced => /\ BlobDurable(import.id)
                        /\ records[Key(c)].meta = Meta(c)
                        /\ RecordDurable(Key(c))
    BY <1>0, <1>1 DEF ImportInv
  <2>3. Key(c) \in Keys /\ Key(c)[2] = import.id /\ Meta(c) \in Metadata
    BY <1>0, <1>1, <2>2, KeyLemma
  <2>4. PICK result \in Results :
          /\ result = found
          /\ request[c].expected \in {None, result.key[2]}
          /\ ~unsynced => Kept(result)
    <3>1. found \in Results /\ found.key = Key(c) /\ found.meta = Meta(c)
      BY <2>3 DEF Results
    <3>2. ~unsynced => Kept(found)
      BY <2>2, <2>3, <3>1 DEF Kept
    <3> HIDE DEF found
    <3> QED
      BY <2>2, <2>3, <3>1, <3>2
  <2> HIDE DEF found
  <2>5. TypeOK'
    <3>1. generation' \in Nat /\ observed' \in Catalogs \cup {None} /\ life' \in Nat
      BY <1>0, <2>1, RefreshType
    <3>2. /\ client' \in [Clients -> {"idle", "seen", "queued", "importing", "done", "failed"}]
          /\ imported' \in [Clients -> Results \cup {None}]
      BY <1>0, <2>1, <2>4 DEF TypeOK
    <3> QED
      BY <1>0, <1>2, <2>1, <3>1, <3>2 DEF TypeOK, diskVars
  <2>6. DiskInv' /\ ImportInv'
    BY <1>0, <1>1, <1>2, <2>1, DiskLeft
  <2>7. DiskKeeps
    BY <1>2, SameDisk
  <2>8. ASSUME NEW d \in Clients PROVE SightInv(d)' /\ ClientInv(d)'
    <3>1. SightInv(d)'
      BY <1>0, <2>1, SightStays DEF StoreInv
    <3>2. CASE d = c
      <4>1. client'[c] = "done" /\ imported'[c] = result
        BY <1>0, <2>1, <2>4 DEF TypeOK
      <4>2. ~unsynced => Kept(result)'
        BY <2>4, <2>7, KeptStays
      <4>3. ~unsynced' => Kept(imported[c])'
        BY <1>2, <4>1, <4>2 DEF Kept, RecordDurable, BlobDurable
      <4> QED
        BY <1>1, <2>1, <2>4, <3>1, <3>2, <4>1, <4>3 DEF ClientInv
    <3>3. CASE d # c
      <4>1. /\ client'[d] = client[d] /\ request'[d] = request[d]
            /\ imported'[d] = imported[d] /\ saw'[d] = saw[d]
        BY <1>0, <2>1, <3>3 DEF TypeOK
      <4> QED
        BY <1>0, <1>2, <2>7, <3>1, <4>1, ClientStays DEF StoreInv
    <3> QED
      BY <3>2, <3>3
  <2> QED
    BY <2>5, <2>6, <2>8 DEF StoreInv
<1> QED
  BY <1>3, <1>4

LEMMA ImportFailsKeeps ==
  ASSUME StoreInv, NEW c \in Clients, ImportFails(c)
  PROVE  StoreInv'
<1>0. TypeOK
  BY DEF StoreInv
<1>1. /\ Fail(c)
      /\ UNCHANGED <<source, diskVars>> /\ UNCHANGED <<generation, observed, life>>
  BY DEF ImportFails
<1>2. client[c] \in {"queued", "importing"}
  BY DEF ImportFails, StoreInv, ImportInv
<1>3. faults' \in 0..MaxFaults
  BY <1>0, StoreAssumption, SMTT(60) DEF ImportFails, Fault, TypeOK
<1>4. /\ unsynced' \in BOOLEAN
      /\ unsynced => unsynced'
      /\ ~unsynced' /\ import # None =>
           import.stage \notin {"blob_linked", "record_linked"}
  BY ZenonT(60) DEF ImportFails, Abandoned
<1> QED
  BY <1>1, <1>2, <1>3, <1>4, FailKeeps

LEMMA EditSourceKeeps ==
  ASSUME StoreInv, NEW p \in Sources, EditSource(p)
  PROVE  StoreInv'
<1>0. TypeOK
  BY DEF StoreInv
<1>1. /\ UNCHANGED <<diskVars, catalogVars, clientVars, unsynced>>
      /\ source' \in [Sources -> Contents]
  BY <1>0 DEF EditSource, TypeOK
<1>2. faults' \in 0..MaxFaults
  BY <1>0, StoreAssumption, SMTT(60) DEF EditSource, Fault, TypeOK
<1>3. TypeOK'
  BY <1>0, <1>1, <1>2 DEF TypeOK, diskVars, catalogVars, clientVars
<1>4. DiskInv' /\ ImportInv'
  BY <1>1, ImportStays, ZenonT(60) DEF StoreInv, catalogVars, clientVars
<1>5. DiskKeeps
  BY <1>1, SameDisk
<1>6. ASSUME NEW d \in Clients PROVE SightInv(d)' /\ ClientInv(d)'
  <2>1. SightInv(d)'
    BY <1>1, ZenonT(60) DEF StoreInv, SightInv, catalogVars, clientVars
  <2> QED
    BY <1>0, <1>1, <1>5, <2>1, ClientStays, ZenonT(60) DEF StoreInv, clientVars
<1> QED
  BY <1>3, <1>4, <1>6 DEF StoreInv

\* The daemon goes down: no generation it gave out counts any more.
LEMMA DownKeeps ==
  ASSUME StoreInv, Down, DiskKeeps, DiskInv',
         blobs' \in [Contents -> Blobs \cup {None}],
         records' \in [Keys -> Records \cup {None}],
         unsynced' \in BOOLEAN,
         unsynced => unsynced',
         faults' \in 0..MaxFaults
  PROVE  StoreInv'
<1>0. TypeOK
  BY DEF StoreInv
<1> DEFINE pending == {c \in Clients : client[c] \in {"queued", "importing"}}
<1>1. /\ generation' = 0 /\ observed' = None /\ import' = None /\ life' = life + 1
      /\ client' = [c \in Clients |-> IF c \in pending THEN "failed" ELSE client[c]]
      /\ saw' = [c \in Clients |-> IF c \in pending THEN None ELSE saw[c]]
      /\ source' = source /\ request' = request /\ imported' = imported
  BY DEF Down, Forget
<1>2. TypeOK'
  <2>1. generation' \in Nat /\ life' \in Nat
    BY <1>0, <1>1, SMTT(60) DEF TypeOK
  <2>2. /\ client' \in [Clients -> {"idle", "seen", "queued", "importing", "done", "failed"}]
        /\ saw' \in [Clients -> Sights \cup {None}]
    BY <1>0, <1>1 DEF TypeOK
  <2> QED
    BY <1>0, <1>1, <2>1, <2>2 DEF TypeOK
<1>3. ImportInv'
  BY <1>1 DEF ImportInv
<1>4. ASSUME NEW d \in Clients PROVE SightInv(d)'
  <2>1. CASE saw'[d] = None
    BY <2>1 DEF SightInv
  <2>2. CASE saw'[d] # None
    <3>1. saw'[d] = saw[d] /\ saw[d] # None
      BY <1>1, <2>2
    <3>2. saw[d].life \in Nat /\ life \in Nat /\ saw[d].life <= life
      BY <1>0, <3>1, ZenonT(60) DEF TypeOK, Sights, StoreInv, SightInv
    <3> QED
      BY <1>1, <3>1, <3>2, SMTT(60) DEF SightInv
  <2> QED
    BY <2>1, <2>2
<1>5. ASSUME NEW d \in Clients PROVE ClientInv(d)'
  <2>1. CASE d \in pending
    <3>1. client'[d] = "failed" /\ imported[d] = None
      BY <1>1, <2>1 DEF StoreInv, ClientInv
    <3> QED
      BY <1>1, <3>1 DEF ClientInv
  <2>2. CASE d \notin pending
    <3>1. /\ client'[d] = client[d] /\ request'[d] = request[d]
          /\ imported'[d] = imported[d] /\ saw'[d] = saw[d]
      BY <1>1, <2>2
    <3> QED
      BY <1>0, <3>1, ClientStays, ZenonT(60) DEF StoreInv
  <2> QED
    BY <2>1, <2>2
<1> QED
  BY <1>2, <1>3, <1>4, <1>5 DEF StoreInv

LEMMA DaemonDiesKeeps ==
  ASSUME StoreInv, DaemonDies
  PROVE  StoreInv'
<1>0. TypeOK
  BY DEF StoreInv
<1>1. Down /\ Abandoned /\ UNCHANGED diskVars
  BY DEF DaemonDies
<1>2. faults' \in 0..MaxFaults
  BY <1>0, StoreAssumption, SMTT(60) DEF DaemonDies, Fault, TypeOK
<1>3. /\ unsynced' \in BOOLEAN
      /\ unsynced => unsynced'
      /\ ~unsynced' /\ import # None =>
           import.stage \notin {"blob_linked", "record_linked"}
  BY <1>1, ZenonT(60) DEF Abandoned
<1>4. DiskKeeps
  BY <1>1, SameDisk
<1>5. DiskInv'
  BY <1>1, <1>3, DiskLeft DEF StoreInv, Down
<1> QED
  BY <1>0, <1>1, <1>2, <1>3, <1>4, <1>5, DownKeeps DEF TypeOK, diskVars

\* What a power loss makes of a blob: its data is synced, so only a link that
\* is not can be lost.
LEMMA BlobAfterPowerLoss ==
  ASSUME NEW b \in Blobs \cup {None}, NEW f \in AfterPowerLoss(Torn(b)),
         b # None => b.data = "synced"
  PROVE  /\ f \in Blobs \cup {None}
         /\ f # None => /\ b # None
                        /\ f.entry = "durable" /\ f.data = "synced"
         /\ b # None /\ b.entry = "durable" => f # None
<1>1. CASE b = None
  BY <1>1 DEF AfterPowerLoss, Torn
<1>2. CASE b # None
  <2>1. b \in Blobs /\ Torn(b) = b
    BY <1>2 DEF Torn
  <2> DEFINE kept == [b EXCEPT !.entry = "durable"]
  <2>2. kept \in Blobs /\ kept.entry = "durable" /\ kept.data = "synced"
    BY <1>2, <2>1 DEF Blobs, Entries
  <2>3. kept # None
    BY <2>2, NoneAssumption
  <2>4. f = kept \/ (f = None /\ b.entry = "linked")
    BY <1>2, <2>1 DEF AfterPowerLoss
  <2> HIDE DEF kept
  <2> QED
    BY <1>2, <2>2, <2>3, <2>4
<1> QED
  BY <1>1, <1>2

LEMMA PowerLossKeeps ==
  ASSUME StoreInv, PowerLoss
  PROVE  StoreInv'
<1>0. TypeOK /\ DiskInv
  BY DEF StoreInv
<1>1. Down /\ unsynced' = unsynced /\ import' = None
  BY DEF PowerLoss, Down
<1>2. faults' \in 0..MaxFaults
  BY <1>0, StoreAssumption, SMTT(60) DEF PowerLoss, Fault, TypeOK
<1>3. ASSUME NEW d \in Contents
      PROVE  /\ blobs'[d] \in Blobs \cup {None}
             /\ blobs'[d] # None => BlobDurable(d)' /\ blobs'[d].data = "synced"
             /\ BlobDurable(d) => BlobDurable(d)'
  <2>1. blobs[d] \in Blobs \cup {None} /\ (blobs[d] # None => blobs[d].data = "synced")
    BY <1>0 DEF TypeOK, DiskInv
  <2>2. blobs'[d] \in AfterPowerLoss(Torn(blobs[d]))
    BY DEF PowerLoss
  <2>3. /\ blobs'[d] \in Blobs \cup {None}
        /\ blobs'[d] # None => blobs'[d].entry = "durable" /\ blobs'[d].data = "synced"
        /\ blobs[d] # None /\ blobs[d].entry = "durable" => blobs'[d] # None
    BY <2>1, <2>2, BlobAfterPowerLoss
  <2> QED
    BY <2>3 DEF BlobDurable
<1>4. PICK lost \in SUBSET {k \in Keys : records[k] # None /\ records[k].entry = "linked"} :
        records' = [k \in Keys |->
          IF k \in lost \/ records[k] = None THEN None
          ELSE [records[k] EXCEPT !.entry = "durable"]]
  BY ZenonT(60) DEF PowerLoss
<1>5. ASSUME NEW k \in Keys
      PROVE  /\ records'[k] \in Records \cup {None}
             /\ records'[k] # None => /\ records[k] # None /\ RecordDurable(k)'
                                      /\ records'[k].meta = records[k].meta
             /\ RecordDurable(k) => RecordDurable(k)'
  <2>1. CASE k \in lost \/ records[k] = None
    <3>1. records'[k] = None /\ ~RecordDurable(k)
      BY <1>4, <2>1 DEF RecordDurable
    <3> QED
      BY <3>1
  <2>2. CASE k \notin lost /\ records[k] # None
    <3>1. records[k] \in Records
      BY <1>0, <2>2 DEF TypeOK
    <3>2. records'[k] = [records[k] EXCEPT !.entry = "durable"]
      BY <1>4, <2>2
    <3>3. /\ records'[k] \in Records
          /\ records'[k].entry = "durable" /\ records'[k].meta = records[k].meta
      BY <3>1, <3>2 DEF Records, Entries
    <3>4. records'[k] # None
      BY <3>3, NoneAssumption
    <3> QED
      BY <2>2, <3>3, <3>4 DEF RecordDurable
  <2> QED
    BY <2>1, <2>2
<1>6. blobs' \in [Contents -> Blobs \cup {None}]
  <2>1. \E S : blobs' \in [Contents -> S]
    BY ZenonT(60) DEF PowerLoss
  <2> QED
    BY <1>3, <2>1
<1>7. records' \in [Keys -> Records \cup {None}]
  BY <1>4, <1>5
<1>8. DiskKeeps
  <2>1. \A k \in Keys : RecordDurable(k)' => records'[k] # None
    BY DEF RecordDurable
  <2> QED
    BY <1>3, <1>5, <2>1 DEF DiskKeeps
<1>9. DiskInv'
  <2>1. ASSUME ~unsynced', NEW k \in Keys, records'[k] # None
        PROVE  BlobDurable(k[2])' /\ RecordDurable(k)'
    BY <1>0, <1>1, <1>3, <1>5, <2>1 DEF DiskInv, Keys
  <2> QED
    BY <1>3, <2>1 DEF DiskInv
<1> QED
  BY <1>0, <1>1, <1>2, <1>6, <1>7, <1>8, <1>9, DownKeeps DEF TypeOK

LEMMA NextKeeps == StoreInv /\ [Next]_vars => StoreInv'
<1> SUFFICES ASSUME StoreInv, [Next]_vars PROVE StoreInv'
  OBVIOUS
<1>1. CASE UNCHANGED vars
  <2>0. /\ UNCHANGED <<source, diskVars, generation, observed, import, life, unsynced, faults>>
        /\ UNCHANGED <<client, request, saw, imported>>
    BY <1>1 DEF vars, catalogVars, clientVars
  <2>1. TypeOK'
    BY <2>0 DEF diskVars, StoreInv, TypeOK
  <2>2. DiskInv' /\ ImportInv'
    BY <2>0, ImportStays DEF StoreInv
  <2>3. DiskKeeps
    BY <2>0, SameDisk
  <2>4. ASSUME NEW d \in Clients PROVE SightInv(d)' /\ ClientInv(d)'
    <3>1. SightInv(d)'
      BY <2>0 DEF StoreInv, SightInv
    <3> QED
      BY <2>0, <2>3, <3>1, ClientStays, ZenonT(60) DEF StoreInv
  <2> QED
    BY <2>1, <2>2, <2>4 DEF StoreInv
<1>2. ASSUME NEW c \in Clients, Browse(c) \/ Submit(c) \/ StartOver(c)
      PROVE  StoreInv'
  BY <1>2, BrowseKeeps, SubmitKeeps, StartOverKeeps
<1>3. ASSUME NEW c \in Clients, BeginImport(c) \/ ImportStep(c) \/ ImportFails(c)
      PROVE  StoreInv'
  BY <1>3, BeginImportKeeps, InspectKeeps, CopyKeeps, SyncBlobKeeps, PublishBlobKeeps,
     SyncBlobDirectoryKeeps, PublishRecordKeeps, SyncRecordDirectoryKeeps,
     EndImportKeeps, ImportFailsKeeps DEF ImportStep
<1>4. ASSUME NEW p \in Sources, EditSource(p) PROVE StoreInv'
  BY <1>4, EditSourceKeeps
<1>5. CASE Resolve \/ DaemonDies \/ PowerLoss
  BY <1>5, ResolveKeeps, DaemonDiesKeeps, PowerLossKeeps
<1> QED
  BY <1>1, <1>2, <1>3, <1>4, <1>5 DEF Next

-----------------------------------------------------------------------------
(* The theorems.                                                           *)

(***************************************************************************)
(* The invariant of the store, the catalog and its clients holds after any *)
(* sequence of imports, edits of source files, failed steps, daemon deaths *)
(* and power losses.                                                       *)
(***************************************************************************)
THEOREM StoreInvariant == Safety => []StoreInv
BY StoreInit, NextKeeps, PTL DEF Safety

(***************************************************************************)
(* `list` can always read the store: until an import has ended between a   *)
(* link and the sync of its directory, no record lacks its complete blob.  *)
(***************************************************************************)
THEOREM StaysReadable == Safety => []CatalogStaysReadable
<1>1. StoreInv => CatalogStaysReadable
  <2> SUFFICES ASSUME StoreInv, ~unsynced, NEW k \in Keys, records[k] # None
               PROVE  Intact(k[2])
    BY DEF CatalogStaysReadable, Readable
  <2>1. k[2] \in Contents /\ BlobDurable(k[2])
    BY DEF StoreInv, DiskInv, Keys
  <2> QED
    BY <2>1 DEF StoreInv, DiskInv, BlobDurable, Intact
<1> QED
  BY <1>1, StoreInvariant, PTL

(***************************************************************************)
(* What `import_kernel` and `import_os_image` reported as imported stays   *)
(* on disk with the metadata they reported, under the same proviso.        *)
(***************************************************************************)
THEOREM ImportsAreDurable == Safety => []SuccessfulImportsAreDurable
<1>1. StoreInv => SuccessfulImportsAreDurable
  BY DEF StoreInv, ClientInv, SuccessfulImportsAreDurable
<1> QED
  BY <1>1, StoreInvariant, PTL

(***************************************************************************)
(* `expected_id`: an import with a pinned digest returns that artifact,    *)
(* whatever happened to the source file meanwhile.                         *)
(***************************************************************************)
THEOREM DigestIsHonoured == Safety => []PinnedDigestIsHonoured
<1>1. StoreInv => PinnedDigestIsHonoured
  BY DEF StoreInv, ClientInv, PinnedDigestIsHonoured
<1> QED
  BY <1>1, StoreInvariant, PTL

\* What a step may do to a record that is there.
Immutable ==
  \A k \in Keys :
    records[k] # None =>
      /\ records[k].entry = "durable" => records'[k] # None
      /\ records'[k] # None => records'[k].meta = records[k].meta

LEMMA PublishRecordImmutable ==
  ASSUME StoreInv, NEW c \in Clients, PublishRecord(c)
  PROVE  Immutable
<1>1. CASE records' = records
  BY <1>1 DEF Immutable
<1>2. CASE records' # records
  <2>1. records[Key(c)] = None
    BY <1>2 DEF PublishRecord
  <2>2. PICK r : records' = [records EXCEPT ![Key(c)] = r]
    BY <1>2 DEF PublishRecord
  <2>3. ASSUME NEW k \in Keys, records[k] # None PROVE records'[k] = records[k]
    BY <2>1, <2>2, <2>3 DEF StoreInv, TypeOK
  <2> QED
    BY <2>3 DEF Immutable
<1> QED
  BY <1>1, <1>2

LEMMA SettledImmutable ==
  ASSUME StoreInv, NEW k \in Keys, records[k] # None,
         records'[k] = [records[k] EXCEPT !.entry = "durable"]
  PROVE  records'[k] # None /\ records'[k].meta = records[k].meta
<1>1. records[k] \in Records
  BY DEF StoreInv, TypeOK
<1>2. records'[k] \in Records /\ records'[k].meta = records[k].meta
  BY <1>1 DEF Records, Entries
<1> QED
  BY <1>2, NoneAssumption

LEMMA SyncRecordDirectoryImmutable ==
  ASSUME StoreInv, NEW c \in Clients, SyncRecordDirectory(c)
  PROVE  Immutable
<1>1. ASSUME NEW k \in Keys, records[k] # None
      PROVE  records'[k] # None /\ records'[k].meta = records[k].meta
  <2>1. CASE k[1] = request[c].kind
    <3>1. records'[k] = [records[k] EXCEPT !.entry = "durable"]
      BY <1>1, <2>1 DEF SyncRecordDirectory
    <3> QED
      BY <1>1, <3>1, SettledImmutable
  <2>2. CASE k[1] # request[c].kind
    <3>1. records'[k] = records[k]
      BY <1>1, <2>2 DEF SyncRecordDirectory
    <3> QED
      BY <1>1, <3>1
  <2> QED
    BY <2>1, <2>2
<1> QED
  BY <1>1 DEF Immutable

LEMMA PowerLossImmutable ==
  ASSUME StoreInv, PowerLoss
  PROVE  Immutable
<1>1. PICK lost \in SUBSET {k \in Keys : records[k] # None /\ records[k].entry = "linked"} :
        records' = [k \in Keys |->
          IF k \in lost \/ records[k] = None THEN None
          ELSE [records[k] EXCEPT !.entry = "durable"]]
  BY DEF PowerLoss
<1>2. ASSUME NEW k \in Keys, records[k] # None
      PROVE  /\ records[k].entry = "durable" => records'[k] # None
             /\ records'[k] # None => records'[k].meta = records[k].meta
  <2>1. CASE k \in lost
    BY <1>1, <2>1
  <2>2. CASE k \notin lost
    <3>1. records'[k] = [records[k] EXCEPT !.entry = "durable"]
      BY <1>1, <1>2, <2>2
    <3> QED
      BY <1>2, <3>1, SettledImmutable
  <2> QED
    BY <2>1, <2>2
<1> QED
  BY <1>2 DEF Immutable

(***************************************************************************)
(* The store is immutable: `publish_record` never replaces a record, and   *)
(* a record that is safely on disk survives every fault.                   *)
(***************************************************************************)
THEOREM RecordsStay == Safety => RecordsAreImmutable
<1>1. StoreInv /\ [Next]_vars => [Immutable]_vars
  <2> SUFFICES ASSUME StoreInv, Next PROVE Immutable \/ UNCHANGED vars
    OBVIOUS
  <2>1. CASE records' = records
    BY <2>1 DEF Immutable
  <2>2. CASE records' # records
    <3>1. \/ \E c \in Clients : PublishRecord(c) \/ SyncRecordDirectory(c)
          \/ PowerLoss
      BY <2>2, ZenonT(60) DEF Next, ImportStep, Browse, Submit, StartOver, BeginImport, Inspect,
           Copy, SyncBlob, PublishBlob, SyncBlobDirectory, EndImport, ImportFails,
           EditSource, Resolve, DaemonDies, diskVars
    <3> QED
      BY <3>1, PublishRecordImmutable, SyncRecordDirectoryImmutable, PowerLossImmutable
  <2> QED
    BY <2>1, <2>2
<1>2. Safety => [][Immutable]_vars
  BY <1>1, StoreInvariant, PTL DEF Safety
<1> QED
  BY <1>2 DEF Immutable, RecordsAreImmutable

\* What an import that passes the generation check has before it.
ActsOnSight ==
  \A c \in Clients :
    /\ client[c] = "queued" /\ client'[c] = "importing"
    /\ saw[c].life = life
    => saw[c].view = View

LEMMA BeginImportActs ==
  ASSUME StoreInv, NEW c \in Clients, BeginImport(c),
         client'[c] = "importing", saw[c].life = life
  PROVE  saw[c].view = View
<1>0. TypeOK
  BY DEF StoreInv
<1>1. ~Fail(c)
  BY <1>0 DEF Fail, Enter, TypeOK
<1>2. saw[c].generation = Refreshed
  BY <1>1, ZenonT(60) DEF BeginImport
<1>3. saw[c] # None
  BY ZenonT(60) DEF BeginImport, StoreInv, ClientInv
<1>4. /\ generation \in Nat /\ saw[c].generation \in Nat
      /\ saw[c].generation <= generation
      /\ saw[c].generation = generation => saw[c].view = observed
  BY <1>0, <1>3, ZenonT(60) DEF TypeOK, Sights, StoreInv, SightInv
<1>5. observed = View
  BY <1>2, <1>4, SMTT(60) DEF Refreshed
<1> QED
  BY <1>2, <1>4, <1>5 DEF Refreshed

(***************************************************************************)
(* Within one life of the daemon, an import that passes the generation     *)
(* check of the catalog finds the catalog its client had read, however     *)
(* many imports, listings and failures came in between.                    *)
(***************************************************************************)
THEOREM ActsOnSeenCatalog == Safety => ImportActsOnWhatClientSaw
<1>1. StoreInv /\ [Next]_vars => [ActsOnSight]_vars
  <2> SUFFICES ASSUME StoreInv, Next, NEW c \in Clients,
                      client[c] = "queued", client'[c] = "importing", saw[c].life = life
               PROVE  saw[c].view = View
    BY DEF ActsOnSight
  <2>0. client \in [Clients -> {"idle", "seen", "queued", "importing", "done", "failed"}]
    BY DEF StoreInv, TypeOK
  <2>1. \A d \in Clients : Fail(d) => client'[c] # "importing"
    BY <2>0 DEF Fail, Enter
  <2>2. client' # client
    OBVIOUS
  <2>3. ~Resolve /\ ~DaemonDies /\ ~PowerLoss /\ \A p \in Sources : ~EditSource(p)
    <3>1. ~Down
      BY DEF Down
    <3> QED
      BY <2>2, <3>1 DEF Resolve, DaemonDies, PowerLoss, EditSource, clientVars
  <2>4. ASSUME NEW d \in Clients PROVE ~ImportStep(d) /\ ~ImportFails(d)
    <3>1. ~ImportFails(d)
      BY <2>1 DEF ImportFails
    <3>2. ~EndImport(d)
      BY <2>0, <2>1 DEF EndImport, Enter
    <3> QED
      BY <2>1, <2>2, <3>1, <3>2 DEF ImportStep, Inspect, Copy, SyncBlob, PublishBlob,
           SyncBlobDirectory, PublishRecord, SyncRecordDirectory, clientVars
  <2>5. ASSUME NEW d \in Clients PROVE ~Browse(d) /\ ~Submit(d) /\ ~StartOver(d)
    BY <2>0 DEF Browse, Submit, StartOver, Enter
  <2>6. PICK d \in Clients : BeginImport(d)
    BY <2>3, <2>4, <2>5 DEF Next
  <2>7. d = c
    BY <2>0, <2>1, <2>6 DEF BeginImport, Enter
  <2> QED
    BY <2>6, <2>7, BeginImportActs
<1>2. Safety => [][ActsOnSight]_vars
  BY <1>1, StoreInvariant, PTL DEF Safety
<1> QED
  BY <1>2 DEF ActsOnSight, ImportActsOnWhatClientSaw

-----------------------------------------------------------------------------
(* Why retries help: the safety half of RetriesSucceed.                    *)

\* The guards of ImportStep.
ImportReady(c) ==
  /\ import # None /\ import.client = c
  /\ import.stage = "opened" => request[c].kind \in {"kernel", "os_image"}
  /\ import.stage = "inspected" => request[c].kind # "kernel"

(***************************************************************************)
(* The catalog's lock is never lost: a client whose import has begun holds *)
(* it and can go on, from every stage and whatever the disk looks like, so *)
(* at most one import is under way.                                        *)
(***************************************************************************)
ImporterGoesOn == \A c \in Clients : client[c] = "importing" => ImportReady(c)

\* Steps of an import up to its end.
StepsLeft ==
  IF import = None THEN 0
  ELSE CASE import.stage = "opened" -> 8 [] import.stage = "inspected" -> 7
         [] import.stage = "copied" -> 6 [] import.stage = "synced" -> 5
         [] import.stage = "blob_linked" -> 4 [] import.stage = "blob_published" -> 3
         [] import.stage = "record_linked" -> 2 [] OTHER -> 1

(***************************************************************************)
(* No step takes an import back to an earlier stage.                       *)
(***************************************************************************)
ImportsProgress ==
  [][import # None =>
       /\ StepsLeft' <= StepsLeft
       /\ (\E c \in Clients : ImportStep(c)) => StepsLeft' < StepsLeft]_vars

\* The store has another record for what the import has copied.
Conflicting(c) == records[Key(c)] # None /\ records[Key(c)].meta # Meta(c)

(***************************************************************************)
(* Without a fault, an import that has begun fails only because of what it *)
(* was asked to do: the file is refused or not the one that was pinned,    *)
(* the catalog cannot be read, or, for a disk image, there is no image in  *)
(* it or the same image is there with another label.  What earlier crashes *)
(* left behind is no reason: neither a blob without a record nor a record  *)
(* that is already there.                                                  *)
(***************************************************************************)
ImportsFailForCause ==
  [][\A c \in Clients :
       client[c] = "importing" /\ client'[c] = "failed" /\ faults' = faults =>
         \/ Hopeless(c) \/ ~Readable
         \/ /\ request[c].kind = "os_image"
            /\ \/ Geometry[source[request[c].path]] = None
               \/ Conflicting(c)]_vars

(***************************************************************************)
(* All kernel records look alike, so no import of a kernel meets another   *)
(* record than its own; and whoever is importing has the lock.             *)
(***************************************************************************)
Plain == [label |-> None, geometry |-> None]

KernelInv ==
  /\ \A c \in Clients : client[c] = "importing" => import # None /\ import.client = c
  /\ import # None /\ request[import.client].kind = "kernel" =>
       import.geometry = None /\ import.stage # "inspected"
  /\ \A k \in Keys : k[1] = "kernel" /\ records[k] # None => records[k].meta = Plain

(***************************************************************************)
(* Where a step of the import under way takes it.                          *)
(***************************************************************************)
Onward(from, to) ==
  \/ from = "opened" /\ to \in {"inspected", "copied"}
  \/ from = "inspected" /\ to = "copied"
  \/ from = "copied" /\ to = "synced"
  \/ from = "synced" /\ to \in {"blob_linked", "blob_published"}
  \/ from = "blob_linked" /\ to = "blob_published"
  \/ from = "blob_published" /\ to \in {"record_linked", "record_published"}
  \/ from = "record_linked" /\ to = "record_published"

LEMMA ImportMovesOn ==
  ASSUME StoreInv, NEW c \in Clients, ImportStep(c)
  PROVE  /\ import # None /\ import \in Imports /\ import.client = c /\ request' = request
         /\ client[c] = "importing" /\ request[c] # None
         /\ \/ /\ import' = None
               /\ \E s \in {"failed", "done"} : client' = [client EXCEPT ![c] = s]
            \/ /\ import' \in Imports /\ import' # None /\ import'.client = c
               /\ client' = client /\ Onward(import.stage, import'.stage)
               /\ \/ import'.geometry = import.geometry /\ import'.stage # "inspected"
                  \/ request[c].kind = "os_image"
<1>0. None \notin Imports
  BY NoneAssumption
<1>1. PICK stage : Stage(c, stage)
  BY DEF ImportStep, Inspect, Copy, SyncBlob, PublishBlob, SyncBlobDirectory, PublishRecord,
         SyncRecordDirectory, EndImport
<1>2. /\ import # None /\ import \in Imports /\ import.client = c
      /\ client[c] = "importing" /\ request[c] # None
  BY <1>1, StageLemma
<1>3. ASSUME NEW s \in Stages, Advance(s), UNCHANGED clientVars, Onward(import.stage, s)
      PROVE  /\ request' = request
             /\ import' \in Imports /\ import' # None /\ import'.client = c
             /\ client' = client /\ Onward(import.stage, import'.stage)
             /\ import'.geometry = import.geometry /\ import'.stage = s
  BY <1>2, <1>3, AdvanceLemma DEF clientVars
<1>4. ASSUME Fail(c)
      PROVE  request' = request /\ import' = None /\ client' = [client EXCEPT ![c] = "failed"]
  BY <1>4 DEF Fail, Enter
<1>5. CASE Inspect(c) /\ ~Fail(c)
  <2> DEFINE g == Geometry[source[request[c].path]]
  <2>1. /\ import' = [import EXCEPT !.stage = "inspected", !.geometry = g]
        /\ import.stage = "opened" /\ request[c].kind = "os_image" /\ UNCHANGED clientVars
    BY <1>5 DEF Inspect, Stage
  <2>2. g \in {Geometry[d] : d \in Contents}
    <3>1. request[c].path \in Sources
      BY <1>2, StoreAssumption DEF StoreInv, TypeOK, Requests
    <3> QED
      BY <3>1 DEF StoreInv, TypeOK
  <2> HIDE DEF g
  <2>3. /\ import' \in Imports /\ import'.client = c /\ import'.stage = "inspected"
    BY <1>2, <2>1, <2>2 DEF Imports, Stages
  <2> QED
    BY <1>0, <1>2, <2>1, <2>3 DEF clientVars, Onward
<1>6. CASE Copy(c) /\ ~Fail(c)
  <2> DEFINE d == source[request[c].path]
  <2>1. /\ import' = [import EXCEPT !.stage = "copied", !.id = d]
        /\ import.stage \in {"opened", "inspected"} /\ UNCHANGED clientVars
    BY <1>6 DEF Copy, Stage
  <2>2. d \in Contents
    <3>1. request[c].path \in Sources
      BY <1>2, StoreAssumption DEF StoreInv, TypeOK, Requests
    <3> QED
      BY <3>1 DEF StoreInv, TypeOK
  <2> HIDE DEF d
  <2>3. /\ import' \in Imports /\ import'.client = c /\ import'.stage = "copied"
        /\ import'.geometry = import.geometry
    BY <1>2, <2>1, <2>2 DEF Imports, Stages
  <2> QED
    BY <1>0, <1>2, <2>1, <2>3 DEF clientVars, Onward
<1>7. CASE SyncBlob(c)
  <2>1. /\ import' = [import EXCEPT !.stage = "synced", !.data = "synced"]
        /\ import.stage = "copied" /\ UNCHANGED clientVars
    BY <1>7 DEF SyncBlob, Stage
  <2>2. /\ import' \in Imports /\ import'.client = c /\ import'.stage = "synced"
        /\ import'.geometry = import.geometry
    BY <1>2, <2>1 DEF Imports, Stages
  <2> QED
    BY <1>0, <1>2, <2>1, <2>2 DEF clientVars, Onward
<1>8. CASE (PublishBlob(c) /\ ~Fail(c)) \/ SyncBlobDirectory(c)
  <2>1. PICK s \in {"blob_linked", "blob_published"} :
          Advance(s) /\ UNCHANGED clientVars /\ Onward(import.stage, s)
    BY <1>8 DEF PublishBlob, SyncBlobDirectory, Stage, Onward
  <2> QED
    BY <1>2, <1>3, <2>1 DEF Stages
<1>9. CASE (PublishRecord(c) /\ ~Fail(c)) \/ SyncRecordDirectory(c)
  <2>1. PICK s \in {"record_linked", "record_published"} :
          Advance(s) /\ UNCHANGED clientVars /\ Onward(import.stage, s)
    BY <1>9 DEF PublishRecord, SyncRecordDirectory, Stage, Onward
  <2> QED
    BY <1>2, <1>3, <2>1 DEF Stages
<1>10. CASE EndImport(c) /\ ~Fail(c)
  BY <1>2, <1>10 DEF EndImport, Enter
<1>11. CASE Fail(c)
  BY <1>2, <1>4, <1>11
<1> QED
  BY <1>5, <1>6, <1>7, <1>8, <1>9, <1>10, <1>11 DEF ImportStep

(***************************************************************************)
(* Where a record comes from: it was there, or an import has just linked   *)
(* it under its key.                                                       *)
(***************************************************************************)
LEMMA RecordsComeFrom ==
  ASSUME StoreInv, [Next]_vars, NEW k \in Keys, records'[k] # None
  PROVE  \/ records[k] # None /\ records'[k].meta = records[k].meta
         \/ \E c \in Clients : /\ Stage(c, "blob_published") /\ k = Key(c)
                               /\ records'[k].meta = Meta(c)
<1>1. CASE records' = records
  BY <1>1
<1>2. ASSUME NEW c \in Clients, PublishRecord(c), records' # records
      PROVE  \/ records[k] # None /\ records'[k].meta = records[k].meta
             \/ Stage(c, "blob_published") /\ k = Key(c) /\ records'[k].meta = Meta(c)
  <2>1. /\ records' = [records EXCEPT ![Key(c)] = [meta |-> Meta(c), entry |-> "linked"]]
        /\ Stage(c, "blob_published")
    BY <1>2 DEF PublishRecord
  <2>2. CASE k = Key(c)
    <3> DEFINE r == [meta |-> Meta(c), entry |-> "linked"]
    <3>1. r.meta = Meta(c) /\ records' = [records EXCEPT ![Key(c)] = r]
      BY <2>1
    <3> HIDE DEF r
    <3>2. records'[k] = r
      BY <2>2, <3>1 DEF StoreInv, TypeOK
    <3> QED
      BY <2>1, <2>2, <3>1, <3>2
  <2>3. CASE k # Key(c)
    BY <2>1, <2>3 DEF StoreInv, TypeOK
  <2> QED
    BY <2>2, <2>3
<1>3. ASSUME NEW c \in Clients, SyncRecordDirectory(c)
      PROVE  records[k] # None /\ records'[k].meta = records[k].meta
  <2>1. records[k] # None
    BY <1>3 DEF SyncRecordDirectory
  <2> QED
    BY <1>3, <2>1, SyncRecordDirectoryImmutable DEF Immutable
<1>4. ASSUME PowerLoss
      PROVE  records[k] # None /\ records'[k].meta = records[k].meta
  <2>1. records[k] # None
    BY <1>4 DEF PowerLoss
  <2> QED
    BY <1>4, <2>1, PowerLossImmutable DEF Immutable
<1>5. CASE records' # records
  <2>1. \/ \E c \in Clients : PublishRecord(c) \/ SyncRecordDirectory(c)
        \/ PowerLoss
    BY <1>5, ZenonT(60) DEF Next, ImportStep, Browse, Submit, StartOver, BeginImport, Inspect,
         Copy, SyncBlob, PublishBlob, SyncBlobDirectory, EndImport, ImportFails,
         EditSource, Resolve, DaemonDies, diskVars, vars
  <2> QED
    BY <1>2, <1>3, <1>4, <1>5, <2>1
<1> QED
  BY <1>1, <1>5

LEMMA KernelStays ==
  ASSUME StoreInv, KernelInv, [Next]_vars
  PROVE  KernelInv'
<1> DEFINE Importers ==
             \A c \in Clients : client'[c] = "importing" => import' # None /\ import'.client = c
           Kernel ==
             import' # None /\ request'[import'.client].kind = "kernel" =>
               import'.geometry = None /\ import'.stage # "inspected"
<1>0. /\ TypeOK /\ ImportInv
      /\ client \in [Clients -> {"idle", "seen", "queued", "importing", "done", "failed"}]
      /\ import # None => import.client \in Clients /\ client[import.client] = "importing"
  BY DEF StoreInv, TypeOK, ImportInv, Imports
<1>1. ASSUME NEW c \in Clients, Browse(c) \/ Submit(c) \/ StartOver(c)
      PROVE  Importers /\ Kernel
  <2>1. /\ import' = import /\ client[c] # "importing"
        /\ \E s \in {"seen", "queued", "idle"} : client' = [client EXCEPT ![c] = s]
        /\ \A d \in Clients \ {c} : request'[d] = request[d]
    BY <1>0, <1>1 DEF Browse, Submit, StartOver, Enter, catalogVars, TypeOK
  <2> QED
    BY <1>0, <2>1 DEF KernelInv
<1>2. ASSUME NEW c \in Clients, BeginImport(c)
      PROVE  Importers /\ Kernel
  <2>1. import = None
    BY <1>2 DEF BeginImport
  <2>2. CASE Fail(c)
    BY <1>0, <2>1, <2>2 DEF Fail, Enter, KernelInv
  <2>3. CASE ~Fail(c)
    <3> DEFINE i == [client |-> c, stage |-> "opened", id |-> None,
                     geometry |-> None, data |-> "cached"]
    <3>1. import' = i /\ client' = [client EXCEPT ![c] = "importing"]
      BY <1>2, <2>3, ZenonT(60) DEF BeginImport, Enter
    <3>2. i.client = c /\ i.stage = "opened" /\ i.geometry = None /\ i \in Imports
      BY DEF Imports, Stages
    <3>3. i # None
      BY <3>2, NoneAssumption
    <3> HIDE DEF i
    <3> QED
      BY <1>0, <2>1, <3>1, <3>2, <3>3 DEF KernelInv
  <2> QED
    BY <2>2, <2>3
<1>3. ASSUME NEW c \in Clients, ImportStep(c)
      PROVE  Importers /\ Kernel
  <2>1. /\ import # None /\ import.client = c /\ request' = request
        /\ \/ /\ import' = None
              /\ \E s \in {"failed", "done"} : client' = [client EXCEPT ![c] = s]
           \/ /\ import' # None /\ import'.client = c /\ client' = client
              /\ \/ import'.geometry = import.geometry /\ import'.stage # "inspected"
                 \/ request[c].kind = "os_image"
    BY <1>3, ImportMovesOn
  <2> QED
    BY <1>0, <2>1 DEF KernelInv
<1>4. ASSUME NEW c \in Clients, ImportFails(c)
      PROVE  Importers /\ Kernel
  <2>1. /\ import' = None /\ client' = [client EXCEPT ![c] = "failed"]
        /\ import # None => import.client = c
    BY <1>4 DEF ImportFails, Fail, Enter
  <2> QED
    BY <1>0, <2>1 DEF KernelInv
<1>5. ASSUME DaemonDies \/ PowerLoss
      PROVE  Importers /\ Kernel
  <2>1. Down
    BY <1>5 DEF DaemonDies, PowerLoss
  <2>2. import' = None /\ \A c \in Clients : client'[c] # "importing"
    BY <1>0, <2>1 DEF Down
  <2> QED
    BY <2>2
<1>6. ASSUME (\E p \in Sources : EditSource(p)) \/ Resolve \/ UNCHANGED vars
      PROVE  Importers /\ Kernel
  <2>1. UNCHANGED <<import, client, request>>
    BY <1>6 DEF EditSource, Resolve, vars, catalogVars, clientVars
  <2> QED
    BY <2>1 DEF KernelInv
<1>7. ASSUME NEW k \in Keys, k[1] = "kernel", records'[k] # None
      PROVE  records'[k].meta = Plain
  <2>1. CASE records[k] # None /\ records'[k].meta = records[k].meta
    BY <1>7, <2>1 DEF KernelInv
  <2>2. ASSUME NEW c \in Clients, Stage(c, "blob_published"), k = Key(c),
               records'[k].meta = Meta(c)
        PROVE  records'[k].meta = Plain
    <3>1. import # None /\ import.client = c /\ request[c] # None
      BY <2>2, StageLemma
    <3>2. request[c].kind = "kernel"
      BY <1>7, <2>2 DEF Key
    <3>3. request[c].label = None
      BY <1>0, <3>1, <3>2, StoreAssumption DEF TypeOK
    <3>4. import.geometry = None
      BY <3>1, <3>2 DEF KernelInv
    <3> QED
      BY <2>2, <3>3, <3>4 DEF Meta, Plain
  <2> QED
    BY <1>7, <2>1, <2>2, RecordsComeFrom
<1> HIDE DEF Importers, Kernel
<1>8. Importers /\ Kernel
  BY <1>1, <1>2, <1>3, <1>4, <1>5, <1>6 DEF Next
<1> QED
  BY <1>7, <1>8 DEF KernelInv, Importers, Kernel

LEMMA KernelInvariant == Safety => []KernelInv
<1>1. Init => KernelInv
  BY DEF Init, KernelInv
<1>2. StoreInv /\ KernelInv /\ [Next]_vars => KernelInv'
  BY KernelStays
<1> QED
  BY <1>1, <1>2, StoreInvariant, PTL DEF Safety

LEMMA ImporterIsReady == StoreInv /\ KernelInv => ImporterGoesOn
<1> SUFFICES ASSUME StoreInv, KernelInv, NEW c \in Clients, client[c] = "importing"
             PROVE  ImportReady(c)
  BY DEF ImporterGoesOn
<1>1. import # None /\ import.client = c
  BY DEF KernelInv
<1>2. request[c] # None /\ TypeOK
  BY DEF StoreInv, ClientInv
<1>3. request[c].kind \in {"kernel", "os_image"}
  BY <1>1, <1>2, KeyLemma DEF Kinds
<1> QED
  BY <1>1, <1>3 DEF ImportReady, KernelInv

LEMMA StepProgresses ==
  ASSUME StoreInv, [Next]_vars, import # None
  PROVE  /\ StepsLeft' <= StepsLeft
         /\ (\E c \in Clients : ImportStep(c)) => StepsLeft' < StepsLeft
<1>1. ASSUME NEW c \in Clients, ImportStep(c)
      PROVE  StepsLeft' <= StepsLeft /\ StepsLeft' < StepsLeft
  <2>1. \/ import' = None
        \/ import' # None /\ Onward(import.stage, import'.stage)
    BY <1>1, ImportMovesOn
  <2>2. CASE import' = None
    BY <2>2, SMTT(60) DEF StepsLeft
  <2>3. CASE import' # None /\ Onward(import.stage, import'.stage)
    BY <2>3, SMTT(60) DEF StepsLeft, Onward
  <2> QED
    BY <2>1, <2>2, <2>3
<1>2. CASE import' = None
  <2>1. StepsLeft' <= StepsLeft
    BY <1>2, SMTT(60) DEF StepsLeft
  <2> QED
    BY <1>1, <2>1
<1>3. CASE import' = import
  <2>1. StepsLeft' <= StepsLeft
    BY <1>3, SMTT(60) DEF StepsLeft
  <2> QED
    BY <1>1, <2>1
<1>4. ASSUME ~\E c \in Clients : ImportStep(c)
      PROVE  import' = None \/ import' = import
  BY <1>4 DEF Next, Browse, Submit, StartOver, BeginImport, ImportFails, Fail, EditSource,
              Resolve, DaemonDies, PowerLoss, Down, vars, catalogVars
<1> QED
  BY <1>1, <1>2, <1>3, <1>4

(***************************************************************************)
(* Why the steps of an import fail, one by one.                            *)
(***************************************************************************)
Cause(c) ==
  \/ Hopeless(c) \/ ~Readable
  \/ /\ request[c].kind = "os_image"
     /\ \/ Geometry[source[request[c].path]] = None
        \/ Conflicting(c)

LEMMA FailsForCause ==
  ASSUME StoreInv, KernelInv, NEW c \in Clients, ImportStep(c),
         client'[c] = "failed"
  PROVE  Cause(c)
<1>0. /\ TypeOK /\ DiskInv /\ ImportInv /\ import # None /\ import \in Imports
      /\ import.client = c /\ request[c] # None /\ client[c] = "importing"
  BY ImportMovesOn DEF StoreInv
<1>1. CASE Inspect(c)
  <2>1. Geometry[source[request[c].path]] = None /\ request[c].kind = "os_image"
    BY <1>0, <1>1 DEF Inspect, clientVars
  <2> QED
    BY <2>1 DEF Cause
<1>2. CASE Copy(c)
  BY <1>0, <1>2 DEF Copy, clientVars, Hopeless, Cause
<1>3. CASE SyncBlob(c) \/ SyncBlobDirectory(c) \/ SyncRecordDirectory(c)
  BY <1>0, <1>3 DEF SyncBlob, SyncBlobDirectory, SyncRecordDirectory, clientVars
<1>4. CASE PublishBlob(c)
  <2>1. import.stage = "synced" /\ blobs[import.id] # None /\ ~Intact(import.id)
    BY <1>0, <1>4 DEF PublishBlob, Stage, clientVars
  <2>2. import.id \in Contents
    BY <1>0, <2>1 DEF ImportInv
  <2> QED
    BY <1>0, <2>1, <2>2 DEF DiskInv, Intact
<1>5. CASE PublishRecord(c)
  <2>1. import.stage = "blob_published" /\ View[Key(c)] \notin {None, Meta(c)}
    BY <1>0, <1>5 DEF PublishRecord, Stage, clientVars
  <2>2. import.id \in Contents
    BY <1>0, <2>1 DEF ImportInv
  <2>3. /\ Key(c) \in Keys /\ Key(c)[1] = request[c].kind /\ request[c].kind \in Kinds
    BY <1>0, <2>2, KeyLemma
  <2>4. Conflicting(c)
    BY <1>0, <2>1, <2>3, ViewLemma DEF Conflicting
  <2>5. request[c].kind # "kernel"
    <3> SUFFICES ASSUME request[c].kind = "kernel" PROVE FALSE
      OBVIOUS
    <3>1. records[Key(c)].meta = Plain
      BY <2>3, <2>4 DEF KernelInv, Conflicting
    <3>2. request[c].label = None
      BY <1>0, StoreAssumption DEF TypeOK
    <3>3. import.geometry = None
      BY <1>0 DEF KernelInv
    <3> QED
      BY <2>4, <3>1, <3>2, <3>3 DEF Conflicting, Meta, Plain
  <2> QED
    BY <2>3, <2>4, <2>5 DEF Cause, Kinds
<1>6. CASE EndImport(c)
  <2>1. "failed" # "done" /\ client \in [Clients -> {"idle", "seen", "queued", "importing",
                                                     "done", "failed"}]
    BY <1>0 DEF TypeOK
  <2>2. ~Readable
    BY <1>6, <2>1 DEF EndImport, Enter
  <2> QED
    BY <2>2 DEF Cause
<1> QED
  BY <1>1, <1>2, <1>3, <1>4, <1>5, <1>6 DEF ImportStep

LEMMA StepFailsForCause ==
  ASSUME StoreInv, KernelInv, [Next]_vars, NEW c \in Clients,
         client[c] = "importing", client'[c] = "failed", faults' = faults
  PROVE  Cause(c)
<1>0. /\ TypeOK /\ import # None /\ import.client = c
      /\ client \in [Clients -> {"idle", "seen", "queued", "importing", "done", "failed"}]
  BY DEF StoreInv, TypeOK, KernelInv
<1>1. ASSUME NEW kind PROVE ~Fault(kind)
  <2>1. PICK n \in Nat : n = faults
    BY <1>0, StoreAssumption, SMTT(60) DEF TypeOK
  <2>2. n # n + 1
    BY SMTT(60)
  <2> QED
    BY <2>1, <2>2 DEF Fault
<1>2. ASSUME NEW d \in Clients, ImportStep(d)
      PROVE  d = c
  BY <1>0, <1>2, ImportMovesOn
<1>3. ASSUME NEW d \in Clients, Browse(d) \/ Submit(d) \/ StartOver(d) \/ BeginImport(d)
      PROVE  FALSE
  <2>1. client[d] # "importing"
    BY <1>3 DEF Browse, Submit, StartOver, BeginImport
  <2>2. \E s : client' = [client EXCEPT ![d] = s]
    BY <1>3 DEF Browse, Submit, StartOver, BeginImport, Fail, Enter
  <2>3. client'[c] = client[c]
    BY <1>0, <2>1, <2>2
  <2> QED
    BY <2>3
<1>4. ~(Resolve \/ UNCHANGED vars)
  BY DEF Resolve, vars, clientVars
<1>5. PICK d \in Clients : ImportStep(d)
  BY <1>1, <1>3, <1>4 DEF Next, ImportFails, EditSource, DaemonDies, PowerLoss
<1> QED
  BY <1>2, <1>5, FailsForCause

(***************************************************************************)
(* The catalog's lock in `import_kernel` and `import_os_image` is held by  *)
(* an import that can go on, or by nobody.                                 *)
(***************************************************************************)
THEOREM ImportsNeverStick == Safety => []ImporterGoesOn
BY ImporterIsReady, StoreInvariant, KernelInvariant, PTL

(***************************************************************************)
(* An import ends after at most eight steps, whatever the source file, the *)
(* other clients and the faults do in between.                             *)
(***************************************************************************)
THEOREM ImportsMoveOn == Safety => ImportsProgress
<1>1. StoreInv /\ [Next]_vars =>
        [import # None =>
           /\ StepsLeft' <= StepsLeft
           /\ (\E c \in Clients : ImportStep(c)) => StepsLeft' < StepsLeft]_vars
  BY StepProgresses
<1> QED
  BY <1>1, StoreInvariant, PTL DEF Safety, ImportsProgress

(***************************************************************************)
(* `copy_and_hash`, `publish_blob` and `publish_record` fail for the       *)
(* reasons they name and for no others: whatever crashes have left in the  *)
(* store, the import of an acceptable kernel into a readable catalog goes  *)
(* through unless a new fault stops it.                                    *)
(***************************************************************************)
THEOREM FailuresHaveCauses == Safety => ImportsFailForCause
<1>1. StoreInv /\ KernelInv /\ [Next]_vars =>
        [\A c \in Clients :
           client[c] = "importing" /\ client'[c] = "failed" /\ faults' = faults =>
             \/ Hopeless(c) \/ ~Readable
             \/ /\ request[c].kind = "os_image"
                /\ \/ Geometry[source[request[c].path]] = None
                   \/ Conflicting(c)]_vars
  BY StepFailsForCause DEF Cause
<1> QED
  BY <1>1, StoreInvariant, KernelInvariant, PTL DEF Safety, ImportsFailForCause
=============================================================================
