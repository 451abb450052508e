----------------------------- MODULE DocumentStore -----------------------------
(***************************************************************************)
(* A document store: its row, the chunk rows of its loaders, and what its  *)
(* vector store has been given.                                            *)
(*                                                                         *)
(* Every operation of services/documentstore reads the row, awaits other   *)
(* work, and saves the copy it read: the save overwrites what others wrote *)
(* in between, and inserts the row again if it is gone.  One action is     *)
(* what happens between two awaits that another operation can notice.      *)
(* What a loader reads, how it is split and embedded is left out; a chunk  *)
(* row says who wrote it and whether it was edited, and of the totals of a *)
(* loader the number of chunks is kept, not that of characters.  A request *)
(* about a chunk names the loader of that chunk, as the user interface     *)
(* does; the code does not check it.                                       *)
(***************************************************************************)
EXTENDS Integers, FiniteSets

CONSTANTS
    Requests,       \* HTTP requests, and the jobs they put in the queue
    Loaders,        \* ids a document loader may get
    NoLoader, NoRequest,
    Splits,         \* numbers of chunks a document may be split into
    Setups,         \* the configurations to consider
    MaxFaults,      \* bound: calls of the database, a loader or a model that throw
    MaxCrashes      \* bound: processes that die

UploadKinds == {"add", "process"}                       \* by hand, in two calls
UpsertKinds == {"upsertNew", "replace", "refresh"}      \* by the upsert and refresh API
ChunkKinds == {"dropChunk", "editChunk"}
Kinds == UploadKinds \cup UpsertKinds \cup ChunkKinds
            \cup {"insert", "config", "unlist", "deleteStore", "touch", "unindex", "none"}

\* The record manager of the store, if it has one, and what it cleans up; the
\* loaders' documents may all name the same source.
Cleanups == {"noManager", "none", "incremental", "incrementalShared", "full"}

\* changing: a document that is processed again gives other chunks than before.
Setup == [queue : BOOLEAN, kind : [Requests -> Kinds], first : SUBSET Loaders,
          cleanup : Cleanups, changing : BOOLEAN,
          last : SUBSET Requests, faults : 0 .. MaxFaults, crashes : 0 .. MaxCrashes]

ASSUME StoreAssumption ==
    /\ Setups \subseteq Setup
    /\ Splits \subseteq Nat /\ \E n \in Splits : n >= 1 /\ \A m \in Splits : m <= n
    /\ IsFiniteSet(Requests)
    /\ NoLoader \notin Loaders /\ NoRequest \notin Requests
    /\ MaxFaults \in Nat /\ MaxCrashes \in Nat

VARIABLES
    setup,          \* never changes
    row,            \* the DocumentStore row
    chunks,         \* the DocumentStoreFileChunk rows of the store
    vectors,        \* the keys of the chunks that the vector store holds
    records,        \* the keys that the record manager has on record
    session,        \* what each request has learnt from the record manager
    issued,         \* loader ids ever given out
    op,             \* the local state of each request
    budget,
    suspect,        \* history: loaders whose totals an overlap or a cut may have spoilt
    overlapped,     \* history: operations overlapped
    refreshed,      \* history: the last operation was a refresh, alone and complete
    muddled         \* history: an overlap or a cut may have left a key on record
                    \* that is not in the vector store

index == <<records, session, muddled>>

vars == <<setup, row, chunks, vectors, index, issued, op, budget, suspect, overlapped, refreshed>>

Largest == CHOOSE n \in Splits : \A m \in Splits : m <= n

Chunk == [doc : Loaders, by : Requests \cup {NoRequest}, no : 1 .. Largest, edited : BOOLEAN]

Loader == [status : {"SYNCING", "SYNC"}, total : 0 - Cardinality(Requests) .. Largest]

Rows == [status : {"EMPTY", "SYNC", "STALE", "UPSERTING", "UPSERTED", "gone"},
         loaders : UNION {[S -> Loader] : S \in SUBSET Loaders}]

Gone == [status |-> "gone", loaders |-> [l \in {} |-> l]]

Phases == {"idle", "marking", "marked", "splitting", "inserting", "reporting", "item", "found",
           "configuring", "saving", "upserting", "loading", "reading", "sending", "adding",
           "recording", "listing", "pruning", "forgetting", "finishing", "clearing",
           "unlisting", "seeking", "changing", "counting", "erasing", "removing", "touching",
           "unindexing", "done", "failed"}

Op == [pc : Phases, doc : Loaders \cup {NoLoader}, copy : Rows, items : SUBSET (Loaders \cup {NoLoader}),
       left : SUBSET (Loaders \cup {NoLoader}), pending : SUBSET Chunk, docs : SUBSET Chunk,
       size : 0 .. Largest, alone : BOOLEAN]

\* known: chunks that were on record when indexing began; older: the keys that it
\* will clean up.
Nothing == [known |-> {}, older |-> {}]

IndexTypeOK ==
    /\ records \subseteq Chunk
    /\ session \in [Requests -> [known : SUBSET Chunk, older : SUBSET Chunk]]
    /\ muddled \in BOOLEAN

StoreTypeOK ==
    /\ setup \in Setup
    /\ row \in Rows
    /\ chunks \subseteq Chunk /\ vectors \subseteq Chunk
    /\ issued \subseteq Loaders
    /\ op \in [Requests -> Op]
    /\ budget \in [faults : 0 .. MaxFaults, crashes : 0 .. MaxCrashes]
    /\ suspect \subseteq Loaders
    /\ overlapped \in BOOLEAN /\ refreshed \in BOOLEAN

TypeOK == StoreTypeOK /\ IndexTypeOK

Rest == [pc |-> "idle", doc |-> NoLoader, copy |-> Gone, items |-> {}, left |-> {},
         pending |-> {}, docs |-> {}, size |-> 0, alone |-> TRUE]

ChunksOf(l) == {c \in chunks : c.doc = l}

Listed(r, l) == l \in DOMAIN r.loaders

Kind(r) == setup.kind[r]

Listing(loaders) == [status |-> IF DOMAIN loaders = {} THEN "EMPTY" ELSE "UPSERTED",
                     loaders |-> loaders]

Managed == setup.cleanup # "noManager"

\* The key of a chunk is a hash of its text and its metadata.
Key(c) == IF setup.changing THEN c ELSE [c EXCEPT !.by = NoRequest]

Keys(S) == {Key(c) : c \in S}

\* A new store is EMPTY; the others have loaders that were processed and upserted
\* before.
Init ==
    /\ setup \in Setups
    /\ row = Listing([l \in setup.first |-> [status |-> "SYNC", total |-> 1]])
    /\ chunks = [doc : setup.first, by : {NoRequest}, no : {1}, edited : {FALSE}]
    /\ vectors = Keys(chunks)
    /\ records = (IF Managed THEN vectors ELSE {})
    /\ session = [r \in Requests |-> Nothing] /\ muddled = FALSE
    /\ issued = setup.first
    /\ op = [r \in Requests |-> Rest]
    /\ budget = [faults |-> setup.faults, crashes |-> setup.crashes]
    /\ suspect = {} /\ overlapped = FALSE /\ refreshed = FALSE

history == <<suspect, overlapped, refreshed>>

----------------------------------------------------------------------------
\* Rows whose insertion is under way are inserted even if the request has failed.
InFlight(r) == op[r].pc \notin {"idle", "done", "failed"} \/ op[r].pending # {}

Quiet == \A r \in Requests : ~InFlight(r)

\* The request's first step; history: it may find others under way, unless it
\* is the last one of the setup.
Enter(r, start) ==
    LET others == {q \in Requests : InFlight(q)} IN
    /\ op[r].pc = "idle" /\ row # Gone
    /\ r \in setup.last => /\ others = {}
                           /\ \A q \in Requests \ {r} : op[q].pc # "idle" \/ Kind(q) = "none"
    /\ op' = [q \in Requests |->
          IF q = r THEN [start EXCEPT !.alone = (others = {})]
          ELSE IF q \in others THEN [op[q] EXCEPT !.alone = FALSE] ELSE op[q]]
    /\ suspect' = IF others = {} THEN suspect ELSE Loaders
    /\ overlapped' = (overlapped \/ others # {})
    /\ refreshed' = FALSE
    /\ muddled' = (muddled \/ others # {})
    /\ UNCHANGED <<setup, row, chunks, vectors, records, session, budget>>

Goto(r, pc) == op' = [op EXCEPT ![r].pc = pc]

Over(o, end) == [o EXCEPT !.pc = end, !.copy = Gone, !.docs = {}, !.size = 0, !.left = {}]

EndsAs(r, end) == op' = [op EXCEPT ![r] = Over(@, end)]

Clears(r, l) == suspect' = IF op[r].alone THEN suspect \ {l} ELSE suspect

\* findOneBy, and the copy kept for a later save.
Find(r, pc) == op' = [op EXCEPT ![r].copy = row, ![r].pc = pc]

At(r, pc) == op[r].pc = pc

----------------------------------------------------------------------------
(***************************************************************************)
(* saveProcessingLoader: the loader is listed as SYNCING before it is      *)
(* processed.  The user interface calls it, then processLoader with the id *)
(* it got; upsertDocStore calls both.                                      *)
(***************************************************************************)
Fresh == Loaders \ issued

BeginUpload(r) ==
    /\ Kind(r) \in UploadKinds
    /\ \E l \in IF Kind(r) = "add" THEN Fresh ELSE DOMAIN row.loaders :
          /\ Enter(r, [Rest EXCEPT !.pc = "marking", !.doc = l, !.items = {l}, !.copy = row])
          /\ issued' = issued \cup {l}

\* Mutant: a loader that is listed keeps its status and totals.
MarkingNothing(copy, l) ==
    [copy EXCEPT !.loaders = [k \in DOMAIN @ \cup {l} |->
        IF k \in DOMAIN @ THEN @[k] ELSE [status |-> "SYNCING", total |-> 0]]]

Marking(copy, l) ==
    [copy EXCEPT !.loaders = [k \in DOMAIN @ \cup {l} |->
        IF k = l THEN [status |-> "SYNCING", total |-> 0] ELSE @[k]]]

Mark(r) ==
    /\ At(r, "marking")
    /\ row' = Marking(op[r].copy, op[r].doc)
    /\ Goto(r, "marked")
    /\ UNCHANGED <<setup, chunks, vectors, index, issued, budget, history>>

(***************************************************************************)
(* processLoader and _saveChunksToStorage                                  *)
(***************************************************************************)
FindToProcess(r) ==
    /\ At(r, "marked") /\ row # Gone
    /\ Find(r, "splitting")
    /\ UNCHANGED <<setup, row, chunks, vectors, index, issued, budget, history>>

\* The document is loaded and split; then the old rows go.
Split(r) ==
    /\ At(r, "splitting")
    /\ \E n \in Splits :
          op' = [op EXCEPT ![r].pc = "inserting", ![r].size = n,
                           ![r].pending = [doc : {op[r].doc}, by : {r}, no : 1 .. n, edited : {FALSE}]]
    /\ chunks' = chunks \ ChunksOf(op[r].doc)
    /\ UNCHANGED <<setup, row, vectors, index, issued, budget, history>>

\* Promise.all over the new rows.
InsertChunk(r) ==
    /\ \E c \in op[r].pending :
          /\ chunks' = chunks \cup {c}
          /\ op' = [op EXCEPT ![r].pending = @ \ {c}]
    /\ UNCHANGED <<setup, row, vectors, index, issued, budget, history>>

Processed(copy, l, n) ==
    LET loaders == [copy.loaders EXCEPT ![l] = [status |-> "SYNC", total |-> n]] IN
    [loaders |-> loaders,
     status |-> IF \A k \in DOMAIN loaders : loaders[k].status = "SYNC" THEN "SYNC" ELSE "STALE"]

\* A loader that was not in the copy is undefined here: the request fails, the
\* new rows stay.
FinishProcessing(r) ==
    LET l == op[r].doc IN
    /\ At(r, "inserting") /\ op[r].pending = {}
    /\ IF Listed(op[r].copy, l)
       THEN /\ row' = Processed(op[r].copy, l, op[r].size)
            /\ op' = [op EXCEPT ![r].pc = "reporting", ![r].copy = Gone, ![r].size = 0]
            /\ Clears(r, l)
       ELSE EndsAs(r, "failed") /\ UNCHANGED <<row, suspect>>
    /\ UNCHANGED <<setup, chunks, vectors, index, issued, budget, overlapped, refreshed>>

\* getDocumentStoreFileChunks.
Report(r) ==
    /\ At(r, "reporting")
    /\ IF ~Listed(row, op[r].doc) THEN EndsAs(r, "failed")
       ELSE IF Kind(r) \in UpsertKinds THEN Goto(r, "configuring")
       ELSE EndsAs(r, "done")
    /\ UNCHANGED <<setup, row, chunks, vectors, index, issued, budget, history>>

----------------------------------------------------------------------------
(***************************************************************************)
(* executeDocStoreUpsert: upsertDocStore for each item, stopping at the    *)
(* first failure.  A refresh has the loaders listed when it was asked for, *)
(* here in any order; NoLoader stands for a loader that is still to be     *)
(* made.                                                                   *)
(***************************************************************************)
Items(r) ==
    CASE Kind(r) = "upsertNew" -> {{NoLoader}}
      [] Kind(r) = "replace" -> {{l} : l \in DOMAIN row.loaders}
      [] Kind(r) = "refresh" -> {DOMAIN row.loaders}

BeginUpsert(r) ==
    /\ Kind(r) \in UpsertKinds
    /\ \E S \in Items(r) : Enter(r, [Rest EXCEPT !.pc = "item", !.items = S, !.left = S])
    /\ UNCHANGED issued

\* The last item is done; history.
Complete(r) ==
    /\ EndsAs(r, "done")
    /\ refreshed' = (Kind(r) = "refresh" /\ op[r].alone)

NoItem(r) ==
    /\ At(r, "item") /\ op[r].left = {}
    /\ Complete(r)
    /\ UNCHANGED <<setup, row, chunks, vectors, index, issued, budget, suspect, overlapped>>

Target(l) == IF l = NoLoader THEN Fresh ELSE {l}

TakeItem(r) ==
    /\ At(r, "item") /\ row # Gone
    /\ \E l \in op[r].left :
          IF l # NoLoader /\ ~Listed(row, l)
          THEN EndsAs(r, "failed")
          ELSE op' = [op EXCEPT ![r].pc = "found", ![r].doc = l, ![r].left = @ \ {l}]
    /\ UNCHANGED <<setup, row, chunks, vectors, index, issued, budget, history>>

FindToMark(r) ==
    /\ At(r, "found") /\ row # Gone
    /\ \E l \in Target(op[r].doc) :
          /\ op' = [op EXCEPT ![r].pc = "marking", ![r].doc = l, ![r].copy = row]
          /\ issued' = issued \cup {l}
    /\ UNCHANGED <<setup, row, chunks, vectors, index, budget, history>>

(***************************************************************************)
(* insertIntoVectorStore: saveVectorStoreConfig, UPSERTING, the upsert     *)
(***************************************************************************)
BeginInsert(r) ==
    /\ Kind(r) \in {"insert", "config"}
    /\ Enter(r, [Rest EXCEPT !.pc = "configuring"])
    /\ UNCHANGED issued

FindToConfigure(r) ==
    /\ At(r, "configuring") /\ row # Gone
    /\ Find(r, "saving")
    /\ UNCHANGED <<setup, row, chunks, vectors, index, issued, budget, history>>

Configured(copy) == [copy EXCEPT !.status = IF @ = "UPSERTED" THEN @ ELSE "SYNC"]

SaveConfig(r) ==
    /\ At(r, "saving")
    /\ row' = Configured(op[r].copy)
    /\ IF Kind(r) = "config" THEN EndsAs(r, "done") ELSE Goto(r, "upserting")
    /\ UNCHANGED <<setup, chunks, vectors, index, issued, budget, history>>

SaveUpserting(r) ==
    /\ At(r, "upserting")
    /\ row' = [op[r].copy EXCEPT !.status = "UPSERTING"]
    /\ Goto(r, "loading")
    /\ UNCHANGED <<setup, chunks, vectors, index, issued, budget, history>>

\* _insertIntoVectorStoreWorkerThread.
FindToUpsert(r) ==
    /\ At(r, "loading") /\ row # Gone
    /\ Find(r, "reading")
    /\ UNCHANGED <<setup, row, chunks, vectors, index, issued, budget, history>>

ReadChunks(r) ==
    /\ At(r, "reading")
    /\ op' = [op EXCEPT ![r].pc = IF Managed THEN "sending" ELSE "adding",
                        ![r].docs = Keys(IF op[r].doc = NoLoader THEN chunks
                                         ELSE ChunksOf(op[r].doc))]
    /\ UNCHANGED <<setup, row, chunks, vectors, index, issued, budget, history>>

(***************************************************************************)
(* The upsert of a vector store.  Without a record manager it adds all     *)
(* chunks; with one, index() adds those that are not on record, records    *)
(* them all as of now, and cleans up older records: in incremental mode    *)
(* those of the same source, in full mode all others of the store.  The    *)
(* clock of the record manager is left out: what was on record when        *)
(* index() began is older unless it is recorded again; so are its batches. *)
(***************************************************************************)
\* Mutant: listKeys is not told the sources.
OutdatedOfAll(docs) == {c \in records \ docs : setup.cleanup # "none"}

Outdated(docs) ==
    {c \in records \ docs :
        \/ setup.cleanup = "full"
        \/ setup.cleanup = "incrementalShared" /\ docs # {}
        \/ setup.cleanup = "incremental" /\ \E d \in docs : d.doc = c.doc}

\* These keys are recorded as of now, whoever wants to clean them up.
Renewed(keys) == [q \in Requests |-> [session[q] EXCEPT !.older = @ \ keys]]

LookUp(r) ==
    LET known == op[r].docs \cap records IN
    /\ At(r, "sending")
    /\ session' = [Renewed(known) EXCEPT ![r] = [known |-> known, older |-> Outdated(op[r].docs)]]
    /\ Goto(r, "adding")
    /\ UNCHANGED <<setup, row, chunks, vectors, records, muddled, issued, budget, history>>

AddDocuments(r) ==
    /\ At(r, "adding")
    /\ vectors' = vectors \cup (op[r].docs \ session[r].known)
    /\ Goto(r, IF Managed THEN "recording" ELSE "finishing")
    /\ UNCHANGED <<setup, row, chunks, index, issued, budget, history>>

Record(r) ==
    /\ At(r, "recording")
    /\ records' = records \cup op[r].docs
    /\ session' = Renewed(op[r].docs)
    /\ Goto(r, "listing")
    /\ UNCHANGED <<setup, row, chunks, vectors, muddled, issued, budget, history>>

\* listKeys: what is still on record of what is to be cleaned up.
List(r) ==
    /\ At(r, "listing")
    /\ op' = [op EXCEPT ![r].docs = session[r].older \cap records,
                        ![r].pc = IF session[r].older \cap records = {} THEN "finishing"
                                  ELSE "pruning"]
    /\ session' = [session EXCEPT ![r] = Nothing]
    /\ UNCHANGED <<setup, row, chunks, vectors, records, muddled, issued, budget, history>>

\* The chunks that were listed go from the vector store, then from the records.
Prune(r) ==
    /\ At(r, "pruning")
    /\ vectors' = vectors \ op[r].docs
    /\ Goto(r, "forgetting")
    /\ UNCHANGED <<setup, row, chunks, index, issued, budget, history>>

\* Mutant: the keys stay on record.
ForgetNothing(keys) == UNCHANGED records

ForgetKeys(keys) == records' = records \ keys

\* History: nothing is on record once all was deleted, with nothing else under way.
Forget(r) ==
    /\ At(r, "forgetting")
    /\ ForgetKeys(op[r].docs)
    /\ IF Kind(r) = "unindex"
       THEN /\ EndsAs(r, "done")
            /\ muddled' = (muddled /\ ~(op[r].alone /\ op[r].doc = NoLoader))
       ELSE Goto(r, "finishing") /\ UNCHANGED muddled
    /\ UNCHANGED <<setup, row, chunks, vectors, session, issued, budget, history>>

FinishUpsert(r) ==
    /\ At(r, "finishing")
    /\ row' = [op[r].copy EXCEPT !.status = "UPSERTED"]
    /\ IF op[r].left = {}
       THEN Complete(r)
       ELSE /\ op' = [op EXCEPT ![r].pc = "item", ![r].copy = Gone, ![r].docs = {}]
            /\ UNCHANGED refreshed
    /\ UNCHANGED <<setup, chunks, vectors, index, issued, budget, suspect, overlapped>>

----------------------------------------------------------------------------
(***************************************************************************)
(* Deletions and edits                                                     *)
(***************************************************************************)
\* deleteLoaderFromDocumentStore.
BeginUnlist(r) ==
    /\ Kind(r) = "unlist"
    /\ \E l \in DOMAIN row.loaders :
          Enter(r, [Rest EXCEPT !.pc = "clearing", !.doc = l, !.copy = row])
    /\ UNCHANGED issued

\* Mutant: the chunk rows are left to themselves.
ClearNothing(l) == UNCHANGED chunks

ClearChunks(l) == chunks' = chunks \ ChunksOf(l)

Clear(r) ==
    /\ At(r, "clearing")
    /\ ClearChunks(op[r].doc)
    /\ Goto(r, "unlisting")
    /\ UNCHANGED <<setup, row, vectors, index, issued, budget, history>>

Unlist(r) ==
    /\ At(r, "unlisting")
    /\ row' = [op[r].copy EXCEPT !.loaders = [k \in DOMAIN @ \ {op[r].doc} |-> @[k]]]
    /\ EndsAs(r, "done")
    /\ UNCHANGED <<setup, chunks, vectors, index, issued, budget, history>>

\* deleteDocumentStoreFileChunk and editDocumentStoreFileChunk: the chunk row
\* first, the totals of its loader last.
BeginChunk(r) ==
    /\ Kind(r) \in ChunkKinds
    /\ \E c \in chunks :
          /\ Listed(row, c.doc)
          /\ Enter(r, [Rest EXCEPT !.pc = "seeking", !.doc = c.doc, !.docs = {c}, !.copy = row])
    /\ UNCHANGED issued

\* The row may have been edited meanwhile; it is gone if its loader was processed.
Same(c, d) == c.doc = d.doc /\ c.by = d.by /\ c.no = d.no

FindChunk(r) ==
    /\ At(r, "seeking")
    /\ LET found == {c \in chunks : \E d \in op[r].docs : Same(c, d)} IN
       IF found = {} THEN EndsAs(r, "failed")
       ELSE op' = [op EXCEPT ![r].pc = "changing", ![r].docs = found]
    /\ UNCHANGED <<setup, row, chunks, vectors, index, issued, budget, history>>

\* A save of an edited row inserts it if it is gone.
ChangeChunk(r) ==
    LET kept == {c \in chunks : \A d \in op[r].docs : ~Same(c, d)} IN
    /\ At(r, "changing")
    /\ chunks' = kept \cup {[d EXCEPT !.edited = TRUE] :
                                d \in {e \in op[r].docs : Kind(r) = "editChunk"}}
    /\ Goto(r, "counting")
    /\ UNCHANGED <<setup, row, vectors, index, issued, budget, history>>

\* Mutant: the deleted chunk is added to the totals.
RecountUp(copy, l) == [copy EXCEPT !.loaders[l].total = @ + 1]

Recount(copy, l) == [copy EXCEPT !.loaders[l].total = @ - 1]

SaveTotals(r) ==
    /\ At(r, "counting")
    /\ row' = IF Kind(r) = "editChunk" THEN op[r].copy ELSE Recount(op[r].copy, op[r].doc)
    /\ EndsAs(r, "done")
    /\ UNCHANGED <<setup, chunks, vectors, index, issued, budget, history>>

\* deleteDocumentStore: the chunk rows, files and history, then the row.
BeginDelete(r) ==
    /\ Kind(r) = "deleteStore"
    /\ Enter(r, [Rest EXCEPT !.pc = "erasing"])
    /\ UNCHANGED issued

EraseChunks(r) ==
    /\ At(r, "erasing")
    /\ chunks' = {}
    /\ Goto(r, "removing")
    /\ UNCHANGED <<setup, row, vectors, index, issued, budget, history>>

\* History: a deletion that nothing overlapped leaves nothing behind.
RemoveRow(r) ==
    /\ At(r, "removing")
    /\ row' = Gone
    /\ overlapped' = (overlapped /\ ~op[r].alone)
    /\ EndsAs(r, "done")
    /\ UNCHANGED <<setup, chunks, vectors, index, issued, budget, suspect, refreshed>>

----------------------------------------------------------------------------
(***************************************************************************)
(* Saves of a copy in which nothing that is modelled has changed:          *)
(* updateDocumentStore, updateVectorStoreConfigOnly and                    *)
(* updateDocumentStoreUsage, which does not await its saves.               *)
(***************************************************************************)
BeginTouch(r) ==
    /\ Kind(r) = "touch"
    /\ Enter(r, [Rest EXCEPT !.pc = "touching", !.copy = row])
    /\ UNCHANGED issued

Touch(r) ==
    /\ At(r, "touching")
    /\ row' = op[r].copy
    /\ EndsAs(r, "done")
    /\ UNCHANGED <<setup, chunks, vectors, index, issued, budget, history>>

\* deleteVectorStoreFromStore: of one loader, or all; it needs a record manager,
\* which lists the keys.  The row is not touched.
BeginUnindex(r) ==
    /\ Kind(r) = "unindex" /\ Managed
    /\ \E l \in DOMAIN row.loaders \cup {NoLoader} :
          Enter(r, [Rest EXCEPT !.pc = "unindexing", !.doc = l, !.copy = row])
    /\ UNCHANGED issued

Unindex(r) ==
    /\ At(r, "unindexing")
    /\ op' = [op EXCEPT ![r].pc = "pruning",
                        ![r].docs = {c \in records : op[r].doc \in {NoLoader, c.doc}}]
    /\ UNCHANGED <<setup, row, chunks, vectors, index, issued, budget, history>>

----------------------------------------------------------------------------
(***************************************************************************)
(* What goes wrong                                                         *)
(***************************************************************************)
\* The store is gone when an operation looks for it.
NotFound(r) ==
    /\ op[r].pc \in {"item", "found", "marked", "configuring", "loading"} /\ row = Gone
    /\ EndsAs(r, "failed")
    /\ UNCHANGED <<setup, row, chunks, vectors, index, issued, budget, history>>

\* Chunk rows are changed or gone, and the totals of their loader are not saved:
\* a deletion or an edit is cut off, or a processing whose loader is not marked
\* SYNCING, because the job had finished before it was taken again.
Unmarked(o) == setup.queue /\ Listed(row, o.doc) /\ row.loaders[o.doc].status = "SYNC"

CutOff(S) ==
    {op[r].doc : r \in {q \in S : \/ op[q].pc \in {"unlisting", "counting"}
                                  \/ /\ op[q].pc \in {"marked", "splitting", "inserting"}
                                     /\ Unmarked(op[q])}}
        \cup UNION {Loaders : r \in {q \in S : op[q].pc = "removing"}}

\* A request that is cut off forgets what it has learnt; keys that are gone from the
\* vector store may stay on record.
CutsIndex(S) ==
    /\ session' = [r \in Requests |-> IF r \in S THEN Nothing ELSE session[r]]
    /\ muddled' = (muddled \/ \E r \in S : op[r].pc = "forgetting")

\* A call throws.  One of the rows being inserted is not; the others will be.
Throw(r) ==
    /\ op[r].pc \notin {"idle", "done", "failed"}
    /\ budget.faults > 0
    /\ budget' = [budget EXCEPT !.faults = @ - 1]
    /\ IF op[r].pending = {}
       THEN EndsAs(r, "failed")
       ELSE \E c \in op[r].pending :
              LET o == Over(op[r], "failed") IN
              op' = [op EXCEPT ![r] = [o EXCEPT !.pending = o.pending \ {c}]]
    /\ suspect' = suspect \cup CutOff({r})
    /\ CutsIndex({r})
    /\ UNCHANGED <<setup, row, chunks, vectors, records, issued, overlapped, refreshed>>

\* In queue mode processing and upserting are jobs of a worker.
InJob(r) ==
    /\ setup.queue
    /\ \/ Kind(r) \in UploadKinds /\ op[r].pc \in {"marked", "splitting", "inserting", "reporting"}
       \/ Kind(r) \in UpsertKinds \cup {"insert"} /\ op[r].pc \notin {"idle", "done", "failed"}

\* The worker's successor takes its jobs again from their start, as often as the
\* worker dies.  (BullMQ fails a job the second time it finds it stalled: a restart
\* whose first call throws.)  Mutant: the items that were begun are struck off.
RestartedWithRest(r) ==
    [Rest EXCEPT !.pc = IF Kind(r) \in UploadKinds THEN "marked"
                        ELSE IF Kind(r) \in UpsertKinds THEN "item" ELSE "configuring",
                 !.doc = IF Kind(r) \in UploadKinds THEN op[r].doc ELSE NoLoader,
                 !.items = op[r].items, !.left = op[r].left, !.alone = op[r].alone]

Restarted(r) ==
    [Rest EXCEPT !.pc = IF Kind(r) \in UploadKinds THEN "marked"
                        ELSE IF Kind(r) \in UpsertKinds THEN "item" ELSE "configuring",
                 !.doc = IF Kind(r) \in UploadKinds THEN op[r].doc ELSE NoLoader,
                 !.items = op[r].items, !.left = op[r].items, !.alone = op[r].alone]

WorkerDies ==
    /\ \E r \in Requests : InJob(r)
    /\ budget.crashes > 0
    /\ budget' = [budget EXCEPT !.crashes = @ - 1]
    /\ op' = [r \in Requests |->
          IF InJob(r) THEN Restarted(r) ELSE [op[r] EXCEPT !.pending = {}]]
    /\ CutsIndex({r \in Requests : InJob(r)})
    /\ UNCHANGED <<setup, row, chunks, vectors, records, issued, history>>

\* The server dies with the requests that are not, or not yet, jobs.
ServerDies ==
    LET lost == {r \in Requests : op[r].pc \notin {"idle", "done", "failed"} /\ ~InJob(r)} IN
    /\ lost # {}
    /\ budget.crashes > 0
    /\ budget' = [budget EXCEPT !.crashes = @ - 1]
    /\ op' = [r \in Requests |->
          LET o == IF r \in lost THEN Over(op[r], "failed") ELSE op[r] IN
          IF setup.queue THEN o ELSE [o EXCEPT !.pending = {}]]
    /\ suspect' = suspect \cup CutOff(lost)
    /\ CutsIndex(lost)
    /\ UNCHANGED <<setup, row, chunks, vectors, records, issued, overlapped, refreshed>>

----------------------------------------------------------------------------
Begin(r) ==
    \/ BeginUpload(r) \/ BeginUpsert(r) \/ BeginInsert(r) \/ BeginUnlist(r)
    \/ BeginChunk(r) \/ BeginDelete(r) \/ BeginTouch(r) \/ BeginUnindex(r)

Step(r) ==
    \/ Mark(r) \/ FindToProcess(r) \/ Split(r) \/ InsertChunk(r) \/ FinishProcessing(r) \/ Report(r)
    \/ NoItem(r) \/ TakeItem(r) \/ FindToMark(r)
    \/ FindToConfigure(r) \/ SaveConfig(r) \/ SaveUpserting(r)
    \/ FindToUpsert(r) \/ ReadChunks(r) \/ FinishUpsert(r)
    \/ LookUp(r) \/ AddDocuments(r) \/ Record(r) \/ List(r) \/ Prune(r) \/ Forget(r)
    \/ Clear(r) \/ Unlist(r)
    \/ FindChunk(r) \/ ChangeChunk(r) \/ SaveTotals(r)
    \/ EraseChunks(r) \/ RemoveRow(r) \/ Touch(r) \/ Unindex(r)
    \/ NotFound(r)

Next ==
    \/ \E r \in Requests : Begin(r) \/ Step(r) \/ Throw(r)
    \/ WorkerDies
    \/ ServerDies

Spec == Init /\ [][Next]_vars

(* The database answers, loaders and models return or throw, and a worker  *)
(* takes its jobs.  Users, faults and crashes owe nothing.                 *)
FairSpec == Spec /\ \A r \in Requests : WF_vars(Step(r))

----------------------------------------------------------------------------
(***************************************************************************)
(* Properties                                                              *)
(***************************************************************************)
\* At rest a loader that is SYNC has as many chunk rows as it says, however
\* often processing it failed or was cut off before, and even if operations
\* overlapped, once it has been processed alone after that.
TotalsAgree ==
    Quiet => \A l \in DOMAIN row.loaders \ suspect :
        row.loaders[l].status = "SYNC" => row.loaders[l].total = Cardinality(ChunksOf(l))

\* As long as no operations overlap every chunk row belongs to a listed loader,
\* also when a deletion fails half-way or the process dies; and the deletion of
\* a store that runs alone leaves nothing behind, whatever came before.
NoOrphans == ~overlapped => \A c \in chunks : Listed(row, c.doc)

\* A refresh that ran alone to its end repairs the store, whatever failed, died
\* or overlapped before it, and also if its worker died and it was taken again:
\* all loaders are SYNC with the right totals, and what the store says is
\* UPSERTED has reached the vector store.  The last only if indexing a loader
\* cleans up nothing of the others, and if no chunk is skipped because its key
\* stayed on record when it was deleted: there was no overlap or cut in the
\* vector store, or all was deleted from it since.
KeepsOthers == setup.cleanup \notin {"incrementalShared", "full"}

RefreshRepairs ==
    refreshed => \A l \in DOMAIN row.loaders :
        /\ row.status = "UPSERTED"
        /\ row.loaders[l].status = "SYNC"
        /\ row.loaders[l].total = Cardinality(ChunksOf(l))
        /\ KeepsOthers /\ (Managed => ~muddled) => Keys(ChunksOf(l)) \subseteq vectors

\* What the record manager has on record is in the vector store, for index() does
\* not add it again: however often indexing throws or dies before it cleans up, and
\* whichever loaders are cleaned up or deleted from the vector store, as long as
\* operations do not overlap and deletions are not cut between the vector store
\* and the records.
RecordsAgree ==
    ~muddled /\ (\A r \in Requests : op[r].pc # "forgetting") => records \subseteq vectors

\* (Violated.)  "Same as incremental, but if the source document has been deleted,
\* it will be deleted from vector store as well": what indexing cleans up in full
\* mode is of no document that the store still has.
FullCleansOnlyDeleted ==
    \A r \in Requests :
        At(r, "pruning") /\ Kind(r) # "unindex" => op[r].docs \cap Keys(chunks) = {}

\* In queue mode the loaders a job is to process end up SYNC although the worker
\* dies, unless a call throws or another operation comes in between.  (A job
\* that makes its loader itself makes another one when it is taken again.)
Named(r) == Kind(r) \in UploadKinds \cup {"replace", "refresh"}

Settled(r) ==
    \/ op[r].pc = "failed" \/ ~op[r].alone
    \/ /\ op[r].pc = "done"
       /\ \A l \in op[r].items : Listed(row, l) /\ row.loaders[l].status = "SYNC"

JobsSurviveWorkers == \A r \in Requests : (Named(r) /\ InJob(r)) ~> Settled(r)
==============================================================================
