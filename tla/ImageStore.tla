----------------------------- MODULE ImageStore -----------------------------
(***************************************************************************)
(* The content-addressed image store and the catalog over it               *)
(* (image_store.rs), as the import handlers of host_api.rs use them.       *)
(*                                                                         *)
(* An import holds the catalog's lock from its first refresh to its last.  *)
(* Inside, it is a sequence of file system steps, and the daemon or the    *)
(* machine may go down between any two of them: a hard link is on disk for *)
(* certain only once its directory has been synced, and file contents only *)
(* once the file has.  The source file belongs to somebody else and may    *)
(* change under the import.                                                *)
(*                                                                         *)
(* Left out: file modes and symbolic links, temporary files (nobody reads  *)
(* them), label syntax, initrds (stored as kernels are), and damage to     *)
(* files that were written completely.  A content stands for its SHA-256   *)
(* digest and its length.                                                  *)
(***************************************************************************)
EXTENDS Integers

CONSTANTS
  Contents,       \* what a source file may hold
  Refused,        \* contents that are empty or larger than the limit
  Geometry,       \* what `inspect_disk_image` finds in a content, or None
  Sources,        \* source files, by path
  Labels,
  Clients,
  Workload,       \* requests clients may make
  Faults,         \* faults that may happen, of AllFaults
  MaxFaults,      \* bound: faults that happen
  None

AllFaults == {"power", "kill", "io", "edit"}

Kinds == {"kernel", "os_image"}
Keys  == Kinds \X Contents

Requests ==
  [kind : Kinds, path : Sources, label : Labels \cup {None},
   expected : Contents \cup {None}]

\* What a record says of its artifact, and what a listing shows.
Metadata == [label : Labels \cup {None},
             geometry : {Geometry[c] : c \in Contents} \cup {None}]
Catalogs == [Keys -> Metadata \cup {None}]
Sights   == [generation : Nat, view : Catalogs, life : Nat]
Results  == [key : Keys, meta : Metadata]

\* The files of the store.
Entries  == {"linked", "durable"}
Blobs    == [entry : Entries, data : {"cached", "synced", "torn"}]
Records  == [meta : Metadata, entry : Entries]

Stages   == {"opened", "inspected", "copied", "synced", "blob_linked",
             "blob_published", "record_linked", "record_published"}
Imports  == [client : Clients, stage : Stages, id : Contents \cup {None},
             geometry : {Geometry[c] : c \in Contents} \cup {None},
             data : {"cached", "synced"}]

ASSUME StoreAssumption ==
  /\ Refused \subseteq Contents
  /\ Workload \subseteq {r \in Requests : r.kind = "kernel" <=> r.label = None}
  /\ Faults \subseteq AllFaults
  /\ MaxFaults \in Nat

\* None is the absence of a value, never a value.
ASSUME NoneAssumption ==
  None \notin Contents \cup Requests \cup Metadata \cup Catalogs \cup Sights
             \cup Results \cup Blobs \cup Records \cup Imports

VARIABLES
  source,        \* the content of each source file
  blobs,         \* blobs/sha256: [entry, data] or None
  records,       \* records/<kind>/sha256: [meta, entry] or None
  generation,    \* `ImageCatalog.generation`
  observed,      \* `ImageCatalog.observed`
  import,        \* the import that holds the catalog's lock, or None
  client,        \* where each client stands
  request,
  saw,           \* the catalog each client read, until an import has used it
  imported,      \* what a successful import returned to its client
  life,          \* how often the daemon has started
  unsynced,      \* history: an import ended between a link and its sync
  faults

diskVars    == <<blobs, records>>
catalogVars == <<generation, observed, import, life>>
clientVars  == <<client, request, saw, imported>>
vars        == <<source, diskVars, catalogVars, clientVars, unsynced, faults>>

\* An empty store whose directories are on disk for good: `prepare_layout` makes
\* missing ones without syncing their parents, so a store just made is covered
\* only from when the file system has written them.
Init ==
  /\ source \in [Sources -> Contents]
  /\ blobs = [c \in Contents |-> None]
  /\ records = [k \in Keys |-> None]
  /\ generation = 0
  /\ observed = None
  /\ import = None
  /\ client = [c \in Clients |-> "idle"]
  /\ request = [c \in Clients |-> None]
  /\ saw = [c \in Clients |-> None]
  /\ imported = [c \in Clients |-> None]
  /\ life = 1
  /\ unsynced = FALSE
  /\ faults = 0

-----------------------------------------------------------------------------
(* The catalog.                                                            *)

Intact(content) == blobs[content] # None /\ blobs[content].data # "torn"

\* `list` verifies every record and its blob, and fails on the first bad one.
Readable == \A k \in Keys : records[k] # None => Intact(k[2])

View == [k \in Keys |-> IF records[k] = None THEN None ELSE records[k].meta]

\* Mutant: a change of the store goes unnoticed.
Refreshed_Keeps == IF observed = None THEN generation + 1 ELSE generation

Refreshed == IF observed = View THEN generation ELSE generation + 1

Refresh ==
  /\ generation' = Refreshed
  /\ observed' = View
  /\ UNCHANGED life

Enter(c, stage) == client' = [client EXCEPT ![c] = stage]

\* A listing; when the catalog cannot be read the client may try again.
Browse(c) ==
  /\ client[c] = "idle"
  /\ import = None
  /\ Readable
  /\ Refresh
  /\ saw' = [saw EXCEPT ![c] = [generation |-> Refreshed, view |-> View, life |-> life]]
  /\ Enter(c, "seen")
  /\ UNCHANGED <<source, diskVars, import, request, imported, unsynced, faults>>

\* `resolve`, for a managed load: it reads the catalog and changes nothing else.
Resolve ==
  /\ import = None
  /\ Readable
  /\ Refresh
  /\ UNCHANGED <<source, diskVars, import, clientVars, unsynced, faults>>

\* A client that starts over asks for the same thing again.
Submit(c) ==
  /\ client[c] = "seen"
  /\ \E r \in IF request[c] = None THEN Workload ELSE {request[c]} :
       request' = [request EXCEPT ![c] = r]
  /\ Enter(c, "queued")
  /\ UNCHANGED <<source, diskVars, catalogVars, saw, imported, unsynced, faults>>

StartOver(c) ==
  /\ client[c] = "failed"
  /\ Enter(c, "idle")
  /\ UNCHANGED <<source, diskVars, catalogVars, request, saw, imported, unsynced, faults>>

-----------------------------------------------------------------------------
(* An import.                                                              *)

Stage(c, stage) == import # None /\ import.client = c /\ import.stage = stage

Advance(stage) == import' = [import EXCEPT !.stage = stage]

Forget(cs) == saw' = [c \in Clients |-> IF c \in cs THEN None ELSE saw[c]]

\* The lock is released and the operation recorded as failed.
Fail(c) ==
  /\ Enter(c, "failed")
  /\ Forget({c})
  /\ import' = None
  /\ UNCHANGED <<request, imported>>

Key(c) == <<request[c].kind, import.id>>

BeginImport(c) ==
  /\ client[c] = "queued"
  /\ import = None
  /\ IF ~Readable
       THEN Fail(c) /\ UNCHANGED <<generation, observed, life>>
       ELSE /\ Refresh
            /\ IF saw[c].generation # Refreshed
                 THEN Fail(c)
                 ELSE /\ Enter(c, "importing")
                      /\ import' = [client |-> c, stage |-> "opened", id |-> None,
                                    geometry |-> None, data |-> "cached"]
                      /\ Forget({c})
                      /\ UNCHANGED <<request, imported>>
  /\ UNCHANGED <<source, diskVars, unsynced, faults>>

\* A disk image's header is read before the file is copied.
Inspect(c) ==
  /\ Stage(c, "opened")
  /\ request[c].kind = "os_image"
  /\ LET geometry == Geometry[source[request[c].path]]
     IN  IF geometry = None THEN Fail(c)
         ELSE /\ import' = [import EXCEPT !.stage = "inspected", !.geometry = geometry]
              /\ UNCHANGED clientVars
  /\ UNCHANGED <<source, diskVars, generation, observed, life, unsynced, faults>>

\* Mutant: the digest the client pinned is not compared.
Copy_AnyDigest(c) ==
  LET content == source[request[c].path]
  IN  /\ Stage(c, IF request[c].kind = "kernel" THEN "opened" ELSE "inspected")
      /\ IF content \in Refused
           THEN Fail(c)
           ELSE /\ import' = [import EXCEPT !.stage = "copied", !.id = content]
                /\ UNCHANGED clientVars
      /\ UNCHANGED <<source, diskVars, generation, observed, life, unsynced, faults>>

\* `copy_and_hash`, then the comparison with `expected_id`.
Copy(c) ==
  LET content == source[request[c].path]
  IN  /\ Stage(c, IF request[c].kind = "kernel" THEN "opened" ELSE "inspected")
      /\ IF content \in Refused \/ request[c].expected \notin {None, content}
           THEN Fail(c)
           ELSE /\ import' = [import EXCEPT !.stage = "copied", !.id = content]
                /\ UNCHANGED clientVars
      /\ UNCHANGED <<source, diskVars, generation, observed, life, unsynced, faults>>

SyncBlob(c) ==
  /\ Stage(c, "copied")
  /\ import' = [import EXCEPT !.stage = "synced", !.data = "synced"]
  /\ UNCHANGED <<source, diskVars, generation, observed, life, clientVars, unsynced, faults>>

\* Mutant: a blob that is already there is an error.
PublishBlob_MustBeNew(c) ==
  /\ Stage(c, "synced")
  /\ IF blobs[import.id] = None
       THEN /\ blobs' = [blobs EXCEPT ![import.id] =
                           [entry |-> "linked", data |-> import.data]]
            /\ Advance("blob_linked") /\ UNCHANGED clientVars
       ELSE Fail(c) /\ UNCHANGED blobs
  /\ UNCHANGED <<source, records, generation, observed, life, unsynced, faults>>

\* `publish_blob`: a blob that is already there is verified and used.
PublishBlob(c) ==
  /\ Stage(c, "synced")
  /\ IF blobs[import.id] = None
       THEN /\ blobs' = [blobs EXCEPT ![import.id] =
                           [entry |-> "linked", data |-> import.data]]
            /\ Advance("blob_linked") /\ UNCHANGED clientVars
       ELSE /\ IF Intact(import.id) THEN Advance("blob_published") /\ UNCHANGED clientVars
                                    ELSE Fail(c)
            /\ UNCHANGED blobs
  /\ UNCHANGED <<source, records, generation, observed, life, unsynced, faults>>

\* Mutant: the directory is not synced.
SyncBlobDirectory_Skips(c) ==
  /\ Stage(c, "blob_linked")
  /\ Advance("blob_published")
  /\ UNCHANGED <<source, diskVars, generation, observed, life, clientVars, unsynced, faults>>

\* Syncing a directory settles all its entries.
SyncBlobDirectory(c) ==
  /\ Stage(c, "blob_linked")
  /\ blobs' = [d \in Contents |->
       IF blobs[d] = None THEN None ELSE [blobs[d] EXCEPT !.entry = "durable"]]
  /\ Advance("blob_published")
  /\ UNCHANGED <<source, records, generation, observed, life, clientVars, unsynced, faults>>

Meta(c) == [label |-> request[c].label, geometry |-> import.geometry]

\* Mutant: a record with other metadata is replaced.
PublishRecord_Replaces(c) ==
  /\ Stage(c, "blob_published")
  /\ records' = [records EXCEPT ![Key(c)] = [meta |-> Meta(c), entry |-> "linked"]]
  /\ Advance("record_linked")
  /\ UNCHANGED <<source, blobs, generation, observed, life, clientVars, unsynced, faults>>

\* `publish_record`: an equal record will do, a different one is an error.
PublishRecord(c) ==
  /\ Stage(c, "blob_published")
  /\ \/ /\ records[Key(c)] = None
        /\ records' = [records EXCEPT ![Key(c)] = [meta |-> Meta(c), entry |-> "linked"]]
        /\ Advance("record_linked") /\ UNCHANGED clientVars
     \/ /\ View[Key(c)] = Meta(c)
        /\ Advance("record_published") /\ UNCHANGED <<records, clientVars>>
     \/ /\ View[Key(c)] \notin {None, Meta(c)}
        /\ Fail(c) /\ UNCHANGED records
  /\ UNCHANGED <<source, blobs, generation, observed, life, unsynced, faults>>

\* Mutant: the directory is not synced.
SyncRecordDirectory_Skips(c) ==
  /\ Stage(c, "record_linked")
  /\ Advance("record_published")
  /\ UNCHANGED <<source, diskVars, generation, observed, life, clientVars, unsynced, faults>>

SyncRecordDirectory(c) ==
  /\ Stage(c, "record_linked")
  /\ records' = [k \in Keys |->
       IF records[k] # None /\ k[1] = request[c].kind
         THEN [records[k] EXCEPT !.entry = "durable"] ELSE records[k]]
  /\ Advance("record_published")
  /\ UNCHANGED <<source, blobs, generation, observed, life, clientVars, unsynced, faults>>

\* The import counts as successful only if the catalog can be read after it.
EndImport(c) ==
  /\ Stage(c, "record_published")
  /\ IF ~Readable
       THEN Fail(c) /\ UNCHANGED <<generation, observed, life>>
       ELSE /\ Refresh
            /\ imported' = [imported EXCEPT ![c] = [key |-> Key(c), meta |-> Meta(c)]]
            /\ Enter(c, "done")
            /\ import' = None
            /\ UNCHANGED <<request, saw>>
  /\ UNCHANGED <<source, diskVars, unsynced, faults>>

-----------------------------------------------------------------------------
(* Faults.                                                                 *)

Fault(kind) ==
  /\ kind \in Faults
  /\ faults < MaxFaults
  /\ faults' = faults + 1

\* The import under way, if any, stops here.  A link it made is not undone.
Abandoned ==
  unsynced' =
    \/ unsynced
    \/ import # None /\ import.stage \in {"blob_linked", "record_linked"}

\* Any step of an import may fail instead, both refreshes included.
ImportFails(c) ==
  /\ Fault("io")
  /\ IF import = None THEN client[c] = "queued" ELSE import.client = c
  /\ Fail(c)
  /\ Abandoned
  /\ UNCHANGED <<source, diskVars, generation, observed, life>>

\* Somebody writes to the source file.
EditSource(p) ==
  /\ Fault("edit")
  /\ \E content \in Contents : source' = [source EXCEPT ![p] = content]
  /\ UNCHANGED <<diskVars, catalogVars, clientVars, unsynced>>

\* The catalog starts again from `ImageCatalog::new`; clients lose the answer.
Down ==
  /\ generation' = 0
  /\ observed' = None
  /\ import' = None
  /\ life' = life + 1
  /\ LET pending == {c \in Clients : client[c] \in {"queued", "importing"}}
     IN  /\ client' = [c \in Clients |-> IF c \in pending THEN "failed" ELSE client[c]]
         /\ Forget(pending)
  /\ UNCHANGED <<source, request, imported>>

DaemonDies == Fault("kill") /\ Down /\ Abandoned /\ UNCHANGED diskVars

\* What was not synced may or may not be on disk afterwards.
AfterPowerLoss(file) ==
  IF file = None THEN {None}
  ELSE LET kept == [file EXCEPT !.entry = "durable"]
       IN  {kept} \cup (IF file.entry = "linked" THEN {None} ELSE {})

Torn(file) ==
  IF file # None /\ file.data = "cached" THEN [file EXCEPT !.data = "torn"] ELSE file

PowerLoss ==
  /\ Fault("power")
  /\ Down
  /\ UNCHANGED unsynced
  /\ blobs' \in {f \in [Contents -> UNION {AfterPowerLoss(Torn(blobs[d])) : d \in Contents}] :
                   \A d \in Contents : f[d] \in AfterPowerLoss(Torn(blobs[d]))}
  /\ \E lost \in SUBSET {k \in Keys : records[k] # None /\ records[k].entry = "linked"} :
       records' = [k \in Keys |->
         IF k \in lost \/ records[k] = None THEN None
         ELSE [records[k] EXCEPT !.entry = "durable"]]

ImportStep(c) ==
  \/ Inspect(c)
  \/ Copy(c)
  \/ SyncBlob(c)
  \/ PublishBlob(c)
  \/ SyncBlobDirectory(c)
  \/ PublishRecord(c)
  \/ SyncRecordDirectory(c)
  \/ EndImport(c)

Next ==
  \/ \E c \in Clients :
       \/ Browse(c) \/ Submit(c) \/ StartOver(c)
       \/ BeginImport(c) \/ ImportStep(c) \/ ImportFails(c)
  \/ \E p \in Sources : EditSource(p)
  \/ Resolve
  \/ DaemonDies
  \/ PowerLoss

\* Threads run, the lock is got eventually by whoever keeps asking, and a
\* client that failed starts over.
Fairness ==
  \A c \in Clients :
    /\ SF_vars(Browse(c)) /\ SF_vars(BeginImport(c))
    /\ WF_vars(Submit(c)) /\ WF_vars(StartOver(c)) /\ WF_vars(ImportStep(c))

Spec == Init /\ [][Next]_vars /\ Fairness

-----------------------------------------------------------------------------

(***************************************************************************)
(* Types of the store, the catalog, the import under way and its clients.  *)
(***************************************************************************)
TypeOK ==
  /\ source \in [Sources -> Contents]
  /\ blobs \in [Contents -> Blobs \cup {None}]
  /\ records \in [Keys -> Records \cup {None}]
  /\ generation \in Nat
  /\ observed \in Catalogs \cup {None}
  /\ import \in Imports \cup {None}
  /\ client \in [Clients -> {"idle", "seen", "queued", "importing", "done", "failed"}]
  /\ request \in [Clients -> Workload \cup {None}]
  /\ saw \in [Clients -> Sights \cup {None}]
  /\ imported \in [Clients -> Results \cup {None}]
  /\ life \in Nat
  /\ unsynced \in BOOLEAN
  /\ faults \in 0..MaxFaults

\* Files that no power loss takes away.
BlobDurable(d)   == blobs[d] # None /\ blobs[d].entry = "durable"
RecordDurable(k) == records[k] # None /\ records[k].entry = "durable"

\* What an import that succeeded left on disk.
Kept(result) ==
  /\ RecordDurable(result.key)
  /\ records[result.key].meta = result.meta
  /\ BlobDurable(result.key[2])

(***************************************************************************)
(* The disk between any two steps.  A blob is linked only with its data    *)
(* synced.  Until an import ends between a link and its sync, the one link *)
(* that a power loss may take back is the one the import under way has     *)
(* just made, and a record is written only over a blob that stays.         *)
(***************************************************************************)
DiskInv ==
  /\ \A d \in Contents : blobs[d] # None => blobs[d].data = "synced"
  /\ ~unsynced =>
       /\ \A d \in Contents : blobs[d] # None =>
            \/ BlobDurable(d)
            \/ import # None /\ import.stage = "blob_linked" /\ import.id = d
       /\ \A k \in Keys : records[k] # None =>
            /\ BlobDurable(k[2])
            /\ \/ RecordDurable(k)
               \/ /\ import # None /\ import.stage = "record_linked"
                  /\ k = Key(import.client)

(***************************************************************************)
(* What the import under way has established at each of its stages.        *)
(***************************************************************************)
ImportInv ==
  import # None =>
    LET c == import.client
    IN  /\ client[c] = "importing"
        /\ import.stage \notin {"opened", "inspected"} =>
             import.id \in Contents /\ request[c].expected \in {None, import.id}
        /\ import.stage \notin {"opened", "inspected", "copied"} => import.data = "synced"
        /\ import.stage = "blob_linked" => blobs[import.id] # None
        /\ ~unsynced =>
             /\ import.stage \in {"blob_published", "record_linked", "record_published"}
                  => BlobDurable(import.id)
             /\ import.stage \in {"record_linked", "record_published"}
                  => records[Key(c)] # None /\ records[Key(c)].meta = Meta(c)
             /\ import.stage = "record_published" => RecordDurable(Key(c))

(***************************************************************************)
(* What a client has read: within one life of the daemon a generation      *)
(* stands for one catalog, and the client's is not from the future.        *)
(***************************************************************************)
SightInv(c) ==
  saw[c] # None =>
    /\ saw[c].life <= life
    /\ saw[c].life = life =>
         /\ saw[c].generation <= generation
         /\ saw[c].generation = generation => saw[c].view = observed

(***************************************************************************)
(* What a client has been told: the artifact a successful import returned  *)
(* to it is the one it asked for, and is on disk.                          *)
(***************************************************************************)
ClientInv(c) ==
  /\ client[c] \in {"queued", "importing", "done"} => request[c] # None
  /\ client[c] \in {"seen", "queued"} => saw[c] # None
  /\ imported[c] # None =>
       /\ client[c] = "done"
       /\ request[c].expected \in {None, imported[c].key[2]}
       /\ ~unsynced => Kept(imported[c])

\* The inductive invariant.
StoreInv ==
  /\ TypeOK
  /\ DiskInv
  /\ ImportInv
  /\ \A c \in Clients : SightInv(c) /\ ClientInv(c)

(***************************************************************************)
(* No power loss leaves a record without its complete blob.  One such      *)
(* record would make `list` fail, and with it every listing, import and    *)
(* managed load, until somebody repairs the store by hand.  The proviso is *)
(* the code's: `publish_blob` and `publish_record` accept a link that is   *)
(* already there without syncing its directory, so a link whose own import *)
(* ended before the sync stays unsettled although later imports rely on it.*)
(***************************************************************************)
CatalogStaysReadable == ~unsynced => Readable

(***************************************************************************)
(* An import that was reported as successful is on disk for good, record   *)
(* and blob, with the metadata that was reported, under the same proviso.  *)
(***************************************************************************)
SuccessfulImportsAreDurable ==
  \A c \in Clients :
    imported[c] # None /\ ~unsynced =>
      Kept(imported[c])

(***************************************************************************)
(* The store is immutable: what a record says never changes, and a record  *)
(* that is safely on disk never goes away.                                 *)
(***************************************************************************)
RecordsAreImmutable ==
  [][\A k \in Keys :
       records[k] # None =>
         /\ records[k].entry = "durable" => records'[k] # None
         /\ records'[k] # None => records'[k].meta = records[k].meta]_vars

(***************************************************************************)
(* A client that pins a digest gets that artifact or none, also when the   *)
(* source file changes while the import runs.                              *)
(***************************************************************************)
PinnedDigestIsHonoured ==
  \A c \in Clients :
    imported[c] # None /\ request[c].expected # None =>
      imported[c].key[2] = request[c].expected

(***************************************************************************)
(* Within one life of the daemon, an import that passes the generation     *)
(* check finds the very catalog its client read.                           *)
(***************************************************************************)
ImportActsOnWhatClientSaw ==
  [][\A c \in Clients :
       /\ client[c] = "queued" /\ client'[c] = "importing"
       /\ saw[c].life = life
       => saw[c].view = View]_vars

(***************************************************************************)
(* Retrying helps: whatever crashes left behind, a client that keeps       *)
(* asking for a kernel gets it in the end, unless the file it names is not *)
(* what it asked for or the catalog has become unreadable.                 *)
(***************************************************************************)
Hopeless(c) ==
  /\ request[c] # None
  /\ LET content == source[request[c].path]
     IN  content \in Refused \/ request[c].expected \notin {None, content}

RetriesSucceed ==
  \A c \in Clients :
    client[c] = "queued" /\ request[c].kind = "kernel"
      ~> client[c] = "done" \/ Hopeless(c) \/ ~Readable
=============================================================================
