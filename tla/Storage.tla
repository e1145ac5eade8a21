------------------------------- MODULE Storage --------------------------------
(***************************************************************************)
(* A database directory: its identity and manifest, the transactions and   *)
(* snapshots of its backend, and provenance captured from a snapshot.      *)
(* LMDB admits one writing transaction at a time and several processes;    *)
(* transactional RocksDB locks the keys a transaction wrote; LevelDB has   *)
(* neither transactions nor snapshots.                                     *)
(***************************************************************************)
EXTENDS KVStore

CONSTANTS
    Backends,       \* "lmdb", "leveldb" and "pyrex" (transactional)
    Procs,          \* the processes, each with one handle
    Records,        \* the records that are written
    NewId(_),       \* the UUID a process draws
    Preloaded,      \* the sets of records a database may already hold
    Queries,        \* the range queries
    MaxWrites,      \* bound: committed writes
    MaxTxnWrites    \* bound: writes in one transaction

VARIABLES
    backend,        \* what this database is kept in
    data,           \* the committed pairs
    records,        \* what was put and not deleted: the records data stands for
    seq,            \* the backend's sequence number
    txn,            \* each process's open transaction
    view,           \* each process's read snapshot
    prov,           \* the provenance each process has captured
    verified        \* _verified_current_provenance of each handle

storeVars == <<backend, data, records, seq, txn, view, prov, verified>>

NoTxn == [open |-> FALSE, puts |-> {}, dels |-> {}]
NoView == [open |-> FALSE, seq |-> 0, data |-> {}]
NoProv == [captured |-> FALSE, seq |-> 0, data |-> {}]

InitStore ==
    /\ backend \in Backends
    /\ records \in Preloaded /\ data = UNION {Pairs(r) : r \in records} /\ seq = 0
    /\ txn = [p \in Procs |-> NoTxn] /\ view = [p \in Procs |-> NoView]
    /\ prov = [p \in Procs |-> NoProv] /\ verified = [p \in Procs |-> {}]

Applied(pairs, puts, dels) ==
    LET touched == UNION {KeysOf(r) : r \in puts \cup dels}
    IN  {p \in pairs : p[1] \notin touched} \cup UNION {Pairs(r) : r \in puts}

(* Whether a writer must wait for another's transaction, or fails on it.    *)
WriterFree(others, r) ==
    \A o \in others : txn[o].open =>
        CASE backend = "lmdb" -> FALSE
          [] backend = "pyrex" -> KeysOf(r) \cap UNION {KeysOf(w) : w \in txn[o].puts \cup txn[o].dels} = {}

Publish(puts, dels) ==
    /\ data' = Applied(data, puts, dels)
    /\ records' = {r \in records : \A w \in puts \cup dels : KeysOf(r) \cap KeysOf(w) = {}} \cup puts
    /\ seq' = IF puts \cup dels = {} THEN seq ELSE seq + 1

(* A put or delete outside a transaction commits by itself, of this or of   *)
(* another thread while one is open.                                        *)
Write(p, r, put) ==
    /\ KeyFits(r) /\ WriterFree(Procs, r) /\ seq < MaxWrites
    /\ Publish(IF put THEN {r} ELSE {}, IF put THEN {} ELSE {r})
    /\ UNCHANGED <<backend, txn, view, prov, verified>>

Begin(p) ==
    /\ backend # "leveldb" /\ ~txn[p].open
    /\ backend = "lmdb" => \A o \in Procs : ~txn[o].open
    /\ txn' = [txn EXCEPT ![p].open = TRUE]
    /\ UNCHANGED <<backend, data, records, seq, view, prov, verified>>

TxnWrite(p, r, put) ==
    /\ txn[p].open /\ KeyFits(r) /\ WriterFree(Procs \ {p}, r)
    /\ Cardinality(txn[p].puts \cup txn[p].dels \cup {r}) <= MaxTxnWrites
    /\ txn' = [txn EXCEPT ![p].puts = {w \in @ : KeysOf(w) # KeysOf(r)} \cup (IF put THEN {r} ELSE {}),
                          ![p].dels = {w \in @ : KeysOf(w) # KeysOf(r)} \cup (IF put THEN {} ELSE {r})]
    /\ UNCHANGED <<backend, data, records, seq, view, prov, verified>>

Commit(p) ==
    /\ txn[p].open /\ seq < MaxWrites
    /\ Publish(txn[p].puts, txn[p].dels)
    /\ txn' = [txn EXCEPT ![p] = NoTxn]
    /\ UNCHANGED <<backend, view, prov, verified>>

Rollback(p) ==
    /\ txn[p].open
    /\ txn' = [txn EXCEPT ![p] = NoTxn]
    /\ UNCHANGED <<backend, data, records, seq, view, prov, verified>>

(* current_read_view pins a snapshot and takes its provenance from it: the  *)
(* sequence and a digest of all that is visible there.                      *)
OpenView(p) ==
    /\ backend # "leveldb" /\ ~view[p].open
    /\ view' = [view EXCEPT ![p] = [open |-> TRUE, seq |-> seq, data |-> data]]
    /\ UNCHANGED <<backend, data, records, seq, txn, prov, verified>>

Capture(p) ==
    /\ view[p].open
    /\ prov' = [prov EXCEPT ![p] = [captured |-> TRUE, seq |-> view[p].seq, data |-> view[p].data]]
    /\ UNCHANGED <<backend, data, records, seq, txn, view, verified>>

CloseView(p) ==
    /\ view[p].open
    /\ view' = [view EXCEPT ![p] = NoView]
    /\ UNCHANGED <<backend, data, records, seq, txn, prov, verified>>

BadCached(p, c) == c \in verified[p]

(* CurrentReadProvenance.verify_source answers from the handle's cache      *)
(* while the sequence is that of the capture, else from a view of now.      *)
Cached(p, c) == seq = c.seq /\ c \in verified[p]
Verifies(p, c) == Cached(p, c) \/ (seq = c.seq /\ data = c.data)

(* A process verifies what it captured, or what another one handed to it.   *)
VerifySource(p, o) ==
    /\ prov[o].captured
    /\ Verifies(p, prov[o])
    /\ verified' = [verified EXCEPT ![p] = @ \cup {prov[o]}]
    /\ UNCHANGED <<backend, data, records, seq, txn, view, prov>>

StoreStep(p, written) ==
    \/ \E r \in written, put \in BOOLEAN : Write(p, r, put) \/ TxnWrite(p, r, put)
    \/ Begin(p) \/ Commit(p) \/ Rollback(p)
    \/ OpenView(p) \/ Capture(p) \/ CloseView(p)
    \/ \E o \in Procs : VerifySource(p, o)

-----------------------------------------------------------------------------
(* Identity and manifest.                                                   *)

VARIABLES
    root,           \* the manifest file: absent, torn while it is written, or an identity
    storeId,        \* the identity in the store
    backendId,      \* the identity in the store's copy of the manifest
    handle,         \* each process's step of create, open and save_manifest
    known,          \* the identity each handle holds
    idLock          \* who holds the identity lock

lifeVars == <<root, storeId, backendId, handle, known, idLock>>

NoId == "none"
Nobody == "nobody"

(* A new identity is neither of the marks that stand for none.              *)
ASSUME IdAssumption == Nobody \notin Procs /\ \A p \in Procs : NewId(p) \notin {NoId, "absent", "torn"}

(* A fresh directory, or one that was written before databases had          *)
(* identities.                                                              *)
InitLife ==
    /\ root \in {"absent", NoId} /\ storeId = NoId /\ backendId = NoId
    /\ handle = [p \in Procs |-> "closed"] /\ known = [p \in Procs |-> NoId]
    /\ idLock = Nobody

(* Only LMDB opens a directory that another process has open.               *)
DirectoryFree == backend = "lmdb" \/ \A o \in Procs : handle[o] = "closed"

(* create needs an empty directory; open needs a readable manifest.         *)
Create(p) ==
    /\ handle[p] = "closed" /\ DirectoryFree /\ root = "absent" /\ storeId = NoId
    /\ handle' = [handle EXCEPT ![p] = "identify"]
    /\ UNCHANGED <<root, storeId, backendId, known, idLock>>
Open(p) ==
    /\ handle[p] = "closed" /\ DirectoryFree /\ root \notin {"absent", "torn"}
    /\ handle' = [handle EXCEPT ![p] = "identify"]
    /\ known' = [known EXCEPT ![p] = root]
    /\ UNCHANGED <<root, storeId, backendId, idLock>>

BadIdLockFree(p) == TRUE

IdLockFree(p) == idLock = Nobody

(* initialize_database_id: under the lock, the persisted identity is read   *)
(* and, if there is none, the expected or a new one is put and read back.   *)
ReadId(p) ==
    /\ handle[p] = "identify" /\ IdLockFree(p)
    /\ idLock' = p
    /\ handle' = [handle EXCEPT ![p] = IF storeId = NoId THEN "assign" ELSE "adopt"]
    /\ UNCHANGED <<root, storeId, backendId, known>>
AssignId(p) ==
    /\ handle[p] = "assign"
    /\ storeId' = IF known[p] = NoId THEN NewId(p) ELSE known[p]
    /\ handle' = [handle EXCEPT ![p] = "adopt"]
    /\ UNCHANGED <<root, backendId, known, idLock>>

(* The identity read must be the expected one; the handle is then checked   *)
(* against the backend's manifest, and the manifests are written where one  *)
(* has no identity.                                                         *)
AdoptId(p) ==
    LET agrees == known[p] \in {NoId, storeId} /\ backendId \in {NoId, storeId}
    IN  /\ handle[p] = "adopt"
        /\ idLock' = Nobody
        /\ known' = [known EXCEPT ![p] = IF agrees THEN storeId ELSE NoId]
        /\ handle' = [handle EXCEPT ![p] =
               CASE ~agrees -> "closed"
                 [] agrees /\ (known[p] = NoId \/ backendId = NoId) -> "truncate"
                 [] OTHER -> "open"]
        /\ UNCHANGED <<root, storeId, backendId>>

(* save_manifest truncates the file, writes it, then stores its copy.       *)
TruncateRoot(p) ==
    /\ handle[p] = "truncate"
    /\ root' = "torn" /\ handle' = [handle EXCEPT ![p] = "write"]
    /\ UNCHANGED <<storeId, backendId, known, idLock>>
WriteRoot(p) ==
    /\ handle[p] = "write"
    /\ root' = known[p] /\ handle' = [handle EXCEPT ![p] = "copy"]
    /\ UNCHANGED <<storeId, backendId, known, idLock>>
CopyManifest(p) ==
    /\ handle[p] = "copy"
    /\ backendId' = known[p] /\ handle' = [handle EXCEPT ![p] = "open"]
    /\ UNCHANGED <<root, storeId, known, idLock>>

(* close, or the process dies; its transaction and its locks go with it.    *)
Leave(p) ==
    /\ handle[p] # "closed"
    /\ handle' = [handle EXCEPT ![p] = "closed"] /\ known' = [known EXCEPT ![p] = NoId]
    /\ idLock' = IF idLock = p THEN Nobody ELSE idLock
    /\ UNCHANGED <<root, storeId, backendId>>
Dropped(p) ==
    /\ txn' = [txn EXCEPT ![p] = NoTxn] /\ view' = [view EXCEPT ![p] = NoView]
    /\ verified' = [verified EXCEPT ![p] = {}]
    /\ UNCHANGED <<backend, data, records, seq, prov>>

LifeStep(p) ==
    \/ Create(p) \/ Open(p) \/ ReadId(p) \/ AssignId(p) \/ AdoptId(p)
    \/ TruncateRoot(p) \/ WriteRoot(p) \/ CopyManifest(p)

(* A database in use: handles come and go, and open ones read and write.    *)
(* What has records has a manifest.                                         *)
DatabaseInit == InitStore /\ InitLife /\ (root = "absent" => records = {})
DatabaseStep(p) ==
    \/ LifeStep(p) /\ UNCHANGED storeVars
    \/ Leave(p) /\ Dropped(p)
    \/ handle[p] = "open" /\ StoreStep(p, Records) /\ UNCHANGED lifeVars
DatabaseNext == \E p \in Procs : DatabaseStep(p)
DatabaseSpec == DatabaseInit /\ [][DatabaseNext]_<<storeVars, lifeVars>>

-----------------------------------------------------------------------------
(* Properties.                                                              *)

Before(a, b) == Less(a.range, b.range) \/ (a.range = b.range /\ Less(IndexPart(a.id), IndexPart(b.id)))
Of(kind) == {r \in records : r.kind = kind}

InRange(parts, q) ==
    LET hits == {r \in Of("range") : r.parts = parts /\ ~Below(q, r.range) /\ ~Above(q, r.range)}
        up == Sorted(hits, Before)
        walked == Capped(IF q.reverse THEN Reverse(up) ELSE up, q.limit)
    IN  [i \in DOMAIN walked |-> walked[i].id]

NodesFrom(offset) == {r \in Of("node") : Reached(offset, r.id)}

(* Whatever was put and deleted, in whatever order, each backend's scans    *)
(* return what the records say: the node keys from an offset that is not    *)
(* past the last, page by page; an index prefix its identifiers; a node and *)
(* type their edges in both directions; a range its identifiers in order,   *)
(* in reverse, with open and closed bounds and up to the limit.             *)
ScansExact ==
    LET walk == InKeyOrder(data)
    IN  /\ \A r \in Records, limit \in {1, 9} : r.kind = "node" /\ NodesFrom(r.id) # {} =>
               NodeKeys(backend, walk, r.id, limit) = Capped(Sorted({s.id : s \in NodesFrom(r.id)}, Less), limit)
        /\ \A r \in Of("node") : <<NodeKey(r.id), r.value>> \in data
        /\ \A r \in Records : r.kind = "index" =>
               LET hits == {s \in Of("index") : IsPrefix(r.parts, s.parts)}
                   found == IterIndexPrefix(walk, r.parts)
               IN  ToSet(found) = {s.id : s \in hits} /\ Len(found) = Cardinality(hits)
        /\ \A r \in Records : r.kind = "typed" =>
               /\ ToSet(IterTypedAdjacency(walk, "out", r.source, r.type)) =
                      {<<s.id, s.target>> : s \in {e \in Of("typed") : e.source = r.source /\ e.type = r.type}}
               /\ ToSet(IterTypedAdjacency(walk, "in", r.target, r.type)) =
                      {<<s.id, s.source>> : s \in {e \in Of("typed") : e.target = r.target /\ e.type = r.type}}
        /\ \A parts \in {r.parts : r \in {s \in Records : s.kind = "range"}}, q \in Queries :
               IterRangeIndex(backend, walk, parts, q) = InRange(parts, q)

(* Every open handle holds the identity that is in the store, and so do the *)
(* manifest and its copy, whoever created, opened and upgraded the database *)
(* at the same time and wherever a process died.                            *)
IdentityAgrees ==
    /\ \A p \in Procs : handle[p] \in {"truncate", "write", "copy", "open"} => known[p] = storeId
    /\ root \in {"absent", "torn", NoId, storeId}
    /\ backendId \in {NoId, storeId}

(* Provenance verifies only while the database is still in the state it was *)
(* captured from, also from the cache of a handle and after the state       *)
(* changed and changed back to it.                                          *)
VerifiedUnchanged ==
    \A p \in Procs, o \in Procs :
        handle[p] = "open" /\ prov[o].captured /\ Verifies(p, prov[o]) => data = prov[o].data
=============================================================================
