---------------------------- MODULE DatabaseProofs ----------------------------
(***************************************************************************)
(* Proofs about a database directory and its writers.  Storage, for any    *)
(* number of processes: all of them agree on the identity of a database,   *)
(* and provenance that verifies is that of the state the database is in.   *)
(* WriterLock, for any number of processes, threads and lock objects, any  *)
(* depth of nesting and any number of faults: writers exclude each other.  *)
(***************************************************************************)
EXTENDS Storage, WriterLock, TLAPS

-----------------------------------------------------------------------------
(* Identity.                                                                *)

(* The steps of a handle from the read of the persisted identity on, from   *)
(* when there is one, and from when the handle has adopted it.              *)
Locked == {"assign", "adopt"}
Adopted == {"truncate", "write", "copy", "open"}
Identified == {"adopt"} \cup Adopted
Closed == {"closed", "identify"}

(* The identity lock is held by whoever reads and assigns the identity.     *)
LockHeld ==
    /\ \A p \in Procs : handle[p] \in Locked => idLock = p
    /\ \A p \in Procs : handle[p] = "assign" => storeId = NoId

(* An identity that was assigned stays, so that nothing else is known of it. *)
OneIdentity ==
    /\ \A p \in Procs : handle[p] \in Identified => storeId # NoId
    /\ \A p \in Procs : known[p] \in {NoId, storeId} /\ (handle[p] \in Adopted => known[p] = storeId)
    /\ root \in {"absent", "torn", NoId, storeId} /\ backendId \in {NoId, storeId}
    /\ storeId \notin {"absent", "torn"}

IdentityInv ==
    /\ handle \in [Procs -> Closed \cup Locked \cup Adopted] /\ known = [p \in Procs |-> known[p]]
    /\ LockHeld /\ OneIdentity

(* A new directory, or one without an identity.                             *)
LEMMA IdentityInit == InitLife => IdentityInv
BY DEF InitLife, IdentityInv, LockHeld, OneIdentity, Closed, Locked, Adopted, Identified, NoId

(* The steps that leave the identity in the store alone.                    *)
LEMMA HandleStep ==
    ASSUME IdentityInv, NEW p \in Procs, Create(p) \/ Open(p) \/ ReadId(p) \/ AdoptId(p)
                                         \/ TruncateRoot(p) \/ WriteRoot(p) \/ CopyManifest(p) \/ Leave(p)
    PROVE  IdentityInv'
<1> USE IdAssumption DEF IdentityInv, LockHeld, OneIdentity, Closed, Locked, Adopted, Identified
<1>1. CASE Create(p)
  BY <1>1 DEF Create
<1>2. CASE Open(p)
  BY <1>2 DEF Open
<1>3. CASE ReadId(p)
  BY <1>3 DEF ReadId, IdLockFree
<1>4. CASE AdoptId(p)
  BY <1>4 DEF AdoptId
<1>5. CASE TruncateRoot(p)
  BY <1>5 DEF TruncateRoot
<1>6. CASE WriteRoot(p)
  BY <1>6 DEF WriteRoot
<1>7. CASE CopyManifest(p)
  BY <1>7 DEF CopyManifest
<1>8. CASE Leave(p)
  BY <1>8 DEF Leave
<1> QED
  BY <1>1, <1>2, <1>3, <1>4, <1>5, <1>6, <1>7, <1>8

(* Whoever assigns it is alone, and nobody has adopted another.             *)
LEMMA AssignStep == ASSUME IdentityInv, NEW p \in Procs, AssignId(p) PROVE IdentityInv'
BY IdAssumption DEF AssignId, IdentityInv, LockHeld, OneIdentity, Closed, Locked, Adopted, Identified, NoId

(* Every step keeps the identity.                                           *)
LEMMA IdentityStep == IdentityInv /\ [DatabaseNext]_<<storeVars, lifeVars>> => IdentityInv'
<1> SUFFICES ASSUME IdentityInv, [DatabaseNext]_<<storeVars, lifeVars>> PROVE IdentityInv'
  OBVIOUS
<1>1. ASSUME NEW p \in Procs, DatabaseStep(p) PROVE IdentityInv'
  <2>1. CASE LifeStep(p) \/ Leave(p)
    BY <2>1, HandleStep, AssignStep DEF LifeStep
  <2>2. CASE UNCHANGED lifeVars
    BY <2>2 DEF lifeVars, IdentityInv, LockHeld, OneIdentity
  <2> QED
    BY <1>1, <2>1, <2>2 DEF DatabaseStep
<1>2. CASE UNCHANGED lifeVars
  BY <1>2 DEF lifeVars, IdentityInv, LockHeld, OneIdentity
<1> QED
  BY <1>1, <1>2 DEF DatabaseNext

(* IdentityAgrees: every open handle, the manifest and its copy have the    *)
(* identity that is in the store, whoever creates, opens and upgrades the   *)
(* database at the same time and wherever a process dies.                   *)
THEOREM OneDatabase == DatabaseSpec => []IdentityAgrees
<1>1. DatabaseInit => IdentityInv
  BY IdentityInit DEF DatabaseInit
<1>2. IdentityInv => IdentityAgrees
  BY DEF IdentityInv, OneIdentity, Adopted, IdentityAgrees
<1> QED
  BY <1>1, <1>2, IdentityStep, PTL DEF DatabaseSpec

-----------------------------------------------------------------------------
(* Provenance.                                                              *)

(* A state of the database, by its sequence number: an earlier one, or the  *)
(* present one.                                                             *)
Past(c) == c.seq \in Nat /\ c.seq <= seq /\ (c.seq = seq => c.data = data)

(* Views, provenance and what handles have verified are such states.        *)
PastInv ==
    /\ seq \in Nat /\ view = [p \in Procs |-> view[p]] /\ prov = [p \in Procs |-> prov[p]]
    /\ verified = [p \in Procs |-> verified[p]]
    /\ \A p \in Procs : /\ view[p].open => Past(view[p])
                        /\ prov[p].captured => Past(prov[p])
                        /\ \A c \in verified[p] : Past(c)

(* A new database has none of them.                                         *)
LEMMA PastInit == InitStore => PastInv
BY DEF InitStore, PastInv, NoView, NoProv

(* What is written moves the database on, unless nothing is.                *)
LEMMA Published ==
    ASSUME seq \in Nat, NEW puts, NEW dels, Publish(puts, dels)
    PROVE  seq' \in Nat /\ \A c : Past(c) => Past(c)'
<1>1. CASE puts \cup dels = {}
  <2>1. seq' = seq /\ puts = {} /\ dels = {}
    BY <1>1 DEF Publish
  <2>2. data' = data
    BY <2>1 DEF Publish, Applied
  <2> QED
    BY <2>1, <2>2 DEF Past
<1>2. CASE puts \cup dels # {}
  BY <1>2 DEF Publish, Past
<1> QED
  BY <1>1, <1>2

(* Every step keeps them.                                                   *)
LEMMA PastStep == PastInv /\ [DatabaseNext]_<<storeVars, lifeVars>> => PastInv'
<1> SUFFICES ASSUME PastInv, [DatabaseNext]_<<storeVars, lifeVars>> PROVE PastInv'
  OBVIOUS
<1>1. ASSUME UNCHANGED <<seq, data, view, prov, verified>> PROVE PastInv'
  BY <1>1 DEF PastInv, Past
<1>2. ASSUME NEW puts, NEW dels, Publish(puts, dels), UNCHANGED <<view, prov, verified>> PROVE PastInv'
  BY <1>2, Published DEF PastInv
<1>3. ASSUME NEW p \in Procs, Leave(p), Dropped(p) PROVE PastInv'
  BY <1>3 DEF Dropped, NoView, PastInv, Past
<1>4. ASSUME NEW p \in Procs, StoreStep(p, Records) PROVE PastInv'
  <2>1. ASSUME NEW r, NEW put, Write(p, r, put) PROVE PastInv'
    BY <1>2, <2>1 DEF Write
  <2>2. ASSUME NEW r, NEW put, TxnWrite(p, r, put) PROVE PastInv'
    BY <1>1, <2>2 DEF TxnWrite
  <2>3. CASE Begin(p) \/ Rollback(p)
    BY <1>1, <2>3 DEF Begin, Rollback
  <2>4. CASE Commit(p)
    BY <1>2, <2>4 DEF Commit
  <2>5. CASE OpenView(p)
    <3>1. PICK n, d, c : n = seq /\ d = data /\ c = [open |-> TRUE, seq |-> n, data |-> d]
      OBVIOUS
    <3>2. view' = [view EXCEPT ![p] = c] /\ seq' = seq /\ data' = data /\ prov' = prov /\ verified' = verified
      BY <2>5, <3>1 DEF OpenView
    <3>3. Past(c)
      BY <3>1 DEF PastInv, Past
    <3> QED
      BY <3>2, <3>3 DEF PastInv, Past
  <2>6. CASE Capture(p)
    <3>1. PICK n, d, c : n = view[p].seq /\ d = view[p].data /\ c = [captured |-> TRUE, seq |-> n, data |-> d]
      OBVIOUS
    <3>2. prov' = [prov EXCEPT ![p] = c] /\ seq' = seq /\ data' = data /\ view' = view /\ verified' = verified
      BY <2>6, <3>1 DEF Capture
    <3>3. n \in Nat /\ n <= seq /\ (n = seq => d = data)
      BY <2>6, <3>1 DEF Capture, PastInv, Past
    <3>4. Past(c)
      BY <3>1, <3>3 DEF Past
    <3> QED
      BY <3>2, <3>4 DEF PastInv, Past
  <2>7. CASE CloseView(p)
    BY <2>7 DEF CloseView, NoView, PastInv, Past
  <2>8. ASSUME NEW o \in Procs, VerifySource(p, o) PROVE PastInv'
    BY <2>8 DEF VerifySource, PastInv, Past
  <2> QED
    BY <1>4, <2>1, <2>2, <2>3, <2>4, <2>5, <2>6, <2>7, <2>8 DEF StoreStep
<1>5. CASE UNCHANGED storeVars
  BY <1>1, <1>5 DEF storeVars
<1>6. CASE DatabaseNext
  BY <1>3, <1>4, <1>5, <1>6 DEF DatabaseNext, DatabaseStep
<1> QED
  BY <1>5, <1>6

(* VerifiedUnchanged: provenance verifies, from the handle's cache or from  *)
(* a view, only while the database is in the state it was captured from.    *)
THEOREM ProvenanceSound == DatabaseSpec => []VerifiedUnchanged
<1>1. DatabaseInit => PastInv
  BY PastInit DEF DatabaseInit
<1>2. PastInv => VerifiedUnchanged
  BY DEF PastInv, Past, VerifiedUnchanged, Verifies, Cached
<1> QED
  BY <1>1, <1>2, PastStep, PTL DEF DatabaseSpec

-----------------------------------------------------------------------------
(* The guard of writers.                                                    *)

PcSteps == {"out", "rlock", "open", "flock", "in", "unlock", "release"}

(* Levels of the RLock that thread t holds.                                 *)
Held(t) == IF pc[t] = "rlock" THEN Len(refs[t]) - 1 ELSE Len(refs[t])

TypeInv ==
    /\ registry \in [Processes -> Locks \cup {None}]
    /\ refs \in [Threads -> Seq(Locks)]
    /\ pc \in [Threads -> PcSteps]
    /\ rlock \in [Locks -> [owner : Threads \cup {None}, count : Nat]]
    /\ depth \in [Locks -> Nat]
    /\ fileHandle \in [Locks -> BOOLEAN]
    /\ flocked \in Locks \cup {None}
    /\ faults \in Nat

(* All live references of a process are to the object its registry names.   *)
OneObject ==
    /\ \A p \in Processes : registry[p] # None => Home[registry[p]] = p
    /\ \A t \in Threads : \A i \in DOMAIN refs[t] : refs[t][i] = registry[Home[t]]

(* Where a thread stands inside its with statements.                        *)
Nesting ==
    \A t \in Threads :
        /\ pc[t] = "out" <=> refs[t] = <<>>
        /\ pc[t] \in {"open", "flock", "unlock"} => Len(refs[t]) = 1

(* The RLock has one owner, and counts the levels that the owner holds; the *)
(* depth counts the levels that the owner is inside of.                     *)
Owned ==
    /\ \A t \in Threads : Held(t) > 0 => rlock[registry[Home[t]]].owner = t
    /\ \A l \in Locks : \A t \in Threads :
          rlock[l].owner = t => /\ Held(t) > 0 /\ l = registry[Home[t]]
                                /\ rlock[l].count = Held(t) /\ depth[l] = Level(t)
    /\ \A l \in Locks : rlock[l].owner = None => rlock[l].count = 0 /\ depth[l] = 0

(* Who is inside, or about to unlock, holds the file lock.                  *)
FileHeld ==
    \A t \in Threads : (Level(t) > 0 \/ pc[t] = "unlock") => flocked = registry[Home[t]]

LockInv == TypeInv /\ OneObject /\ Nesting /\ Owned /\ FileHeld

-----------------------------------------------------------------------------
(* The innermost of n levels is the only one, or others are around it.      *)
LEMMA InnerLevel == \A n \in Nat : n >= 1 => (n = 1 <=> ~(n - 1 > 0))
OBVIOUS

(* One level less.                                                          *)
LEMMA OuterLevels ==
    \A n \in Nat : n >= 1 => n - 1 \in Nat /\ (n # 1 => n - 1 > 0) /\ (n = 1 => n - 1 = 0) /\ n > 0
OBVIOUS

(* Only the empty sequence has length 0.                                    *)
LEMMA NoLevels == ASSUME NEW S, NEW s \in Seq(S) PROVE s = <<>> <=> Len(s) = 0
OBVIOUS

(* A thread outside "out" has an innermost object, the one of its process.  *)
LEMMA CurrentObject ==
    ASSUME LockInv, NEW t \in Threads, pc[t] # "out"
    PROVE  /\ Len(refs[t]) \in Nat /\ Len(refs[t]) >= 1
           /\ Current(t) = registry[Home[t]] /\ Current(t) \in Locks
           /\ Home[t] \in Processes
BY ConstantAssumptions DEF LockInv, TypeInv, OneObject, Nesting, Current, Last

(* A thread that holds a level has an object.                               *)
LEMMA HolderObject ==
    ASSUME LockInv, NEW t \in Threads, Held(t) > 0 \/ Level(t) > 0
    PROVE  pc[t] # "out" /\ registry[Home[t]] \in Locks
<1>1. refs[t] \in Seq(Locks) /\ Len(refs[t]) \in Nat
  BY DEF LockInv, TypeInv
<1>2. refs[t] # <<>>
  BY <1>1 DEF Held, Level
<1> QED
  BY <1>2, CurrentObject DEF LockInv, Nesting

(* Two threads of one process never hold levels of the RLock together.      *)
LEMMA OneHolder ==
    ASSUME LockInv, NEW t \in Threads, NEW u \in Threads,
           registry[Home[t]] = registry[Home[u]], Held(t) > 0, Held(u) > 0
    PROVE  t = u
BY DEF LockInv, Owned

(* It holds at first.                                                       *)
LEMMA InitLock == Init => LockInv
BY ConstantAssumptions DEF Init, LockInv, TypeInv, OneObject, Nesting, Owned, FileHeld, Held, Level, PcSteps, Free

(* A new reference is to the registered object, or nobody had one (for_path).*)
LEMMA ForPathStep == ASSUME LockInv, NEW t \in Threads, ForPath(t) PROVE LockInv'
<1>1. PICK l \in Locks : /\ Canonical(Home[t], l)
                         /\ refs' = [refs EXCEPT ![t] = Append(@, l)]
                         /\ registry' = [registry EXCEPT ![Home[t]] = l]
  BY DEF ForPath
<1>2. Home[t] \in Processes /\ Home[l] \in Processes /\ l # None
  BY ConstantAssumptions
<1>3. Home[l] = Home[t] /\ \A u \in Threads : Home[u] = Home[t] => \A i \in DOMAIN refs[u] : refs[u][i] = l
  <2>1. CASE registry[Home[t]] # None /\ Live(registry[Home[t]])
    BY <1>1, <1>2, <2>1 DEF Canonical, LockInv, OneObject
  <2>2. CASE ~(registry[Home[t]] # None /\ Live(registry[Home[t]]))
    <3>1. \A u \in Threads : Home[u] = Home[t] => DOMAIN refs[u] = {}
      <4> SUFFICES ASSUME NEW u \in Threads, Home[u] = Home[t], NEW i \in DOMAIN refs[u] PROVE FALSE
        OBVIOUS
      <4>1. refs[u][i] = registry[Home[t]] /\ refs[u] \in Seq(Locks)
        BY DEF LockInv, OneObject, TypeInv
      <4>2. refs[u][i] \in Locks /\ refs[u][i] \in Range(refs[u])
        BY <4>1 DEF Range
      <4> QED
        BY <2>2, <4>1, <4>2, ConstantAssumptions DEF Live
    <3> QED
      BY <1>1, <2>2, <3>1 DEF Canonical
  <2> QED
    BY <2>1, <2>2
<1>4. /\ refs[t] \in Seq(Locks) /\ refs'[t] \in Seq(Locks) /\ Len(refs'[t]) = Len(refs[t]) + 1
      /\ Len(refs[t]) \in Nat /\ DOMAIN refs'[t] = 1..(Len(refs[t]) + 1)
      /\ \A i \in DOMAIN refs'[t] : refs'[t][i] = l
      /\ \A u \in Threads \ {t} : refs'[u] = refs[u] /\ pc'[u] = pc[u]
      /\ pc[t] \in {"out", "in"} /\ pc'[t] = "rlock"
      /\ pc' \in [Threads -> PcSteps] /\ refs' \in [Threads -> Seq(Locks)]
  BY <1>1, <1>3 DEF ForPath, LockInv, TypeInv, PcSteps
<1>5. /\ registry'[Home[t]] = l /\ \A p \in Processes \ {Home[t]} : registry'[p] = registry[p]
      /\ registry' \in [Processes -> Locks \cup {None}]
  BY <1>1, <1>2 DEF LockInv, TypeInv
<1>6. \A u \in Threads : Held(u)' = Held(u) /\ Level(u)' = Level(u)
  <2>1. Held(t) = Len(refs[t]) /\ Level(t) = Len(refs[t])
    BY <1>4 DEF Held, Level
  <2>2. Held(t)' = Len(refs[t]) /\ Level(t)' = Len(refs[t])
    BY <1>4 DEF Held, Level
  <2>3. \A u \in Threads \ {t} : Held(u)' = Held(u) /\ Level(u)' = Level(u)
    BY <1>4 DEF Held, Level
  <2> QED
    BY <2>1, <2>2, <2>3
<1>7. \A u \in Threads : Held(u) > 0 \/ Level(u) > 0 => registry'[Home[u]] = registry[Home[u]]
  <2> SUFFICES ASSUME NEW u \in Threads, Held(u) > 0 \/ Level(u) > 0
               PROVE  registry'[Home[u]] = registry[Home[u]]
    OBVIOUS
  <2>1. refs[u] \in Seq(Locks) /\ Len(refs[u]) \in Nat /\ Len(refs[u]) > 0 /\ Home[u] \in Processes
    BY ConstantAssumptions DEF LockInv, TypeInv, Held, Level
  <2>2. 1 \in DOMAIN refs[u] /\ refs[u][1] = registry[Home[u]]
    BY <2>1 DEF LockInv, OneObject
  <2> QED
    BY <1>3, <1>5, <2>1, <2>2
<1>8. \A u \in Threads : pc'[u] = "unlock" => pc[u] = "unlock" /\ Held(u) > 0
  <2> SUFFICES ASSUME NEW u \in Threads, pc'[u] = "unlock" PROVE pc[u] = "unlock" /\ Held(u) > 0
    OBVIOUS
  <2>1. u # t /\ pc[u] = "unlock"
    BY <1>4
  <2> QED
    BY <2>1 DEF LockInv, Nesting, Held
<1>9. UNCHANGED <<rlock, depth, fileHandle, flocked, faults>>
  BY DEF ForPath
<1>10. TypeInv'
  BY <1>4, <1>5, <1>9 DEF LockInv, TypeInv
<1>11. OneObject'
  <2>1. \A p \in Processes : registry'[p] # None => Home[registry'[p]] = p
    BY <1>3, <1>5 DEF LockInv, OneObject
  <2>2. ASSUME NEW u \in Threads, NEW i \in DOMAIN refs'[u] PROVE refs'[u][i] = registry'[Home[u]]
    <3>1. CASE u = t
      BY <1>4, <1>5, <3>1
    <3>2. CASE u # t
      <4>1. Home[u] \in Processes /\ refs'[u] = refs[u]
        BY <1>4, <3>2, ConstantAssumptions
      <4>2. refs[u][i] = registry[Home[u]]
        BY <2>2, <4>1 DEF LockInv, OneObject
      <4>3. Home[u] = Home[t] => refs[u][i] = l
        BY <1>3, <2>2, <4>1
      <4> QED
        BY <1>5, <4>1, <4>2, <4>3
    <3> QED
      BY <3>1, <3>2
  <2> QED
    BY <2>1, <2>2 DEF OneObject
<1>12. Nesting'
  BY <1>4, SMTT(30) DEF LockInv, Nesting
<1>13. Owned'
  BY <1>6, <1>7, <1>9 DEF LockInv, Owned
<1>14. FileHeld'
  BY <1>6, <1>7, <1>8, <1>9 DEF LockInv, FileHeld
<1> QED
  BY <1>10, <1>11, <1>12, <1>13, <1>14 DEF LockInv

(* What a step of __enter__ or __exit__ that keeps references leaves alone. *)
LEMMA KeepsReferences ==
    ASSUME LockInv, NEW t \in Threads, NEW to \in PcSteps \ {"out"}, UNCHANGED <<registry, refs>>,
           pc[t] # "out", pc' = [pc EXCEPT ![t] = to],
           to \in {"open", "flock", "unlock"} => Len(refs[t]) = 1
    PROVE  /\ OneObject' /\ Nesting' /\ pc' \in [Threads -> PcSteps] /\ pc'[t] = to
           /\ \A u \in Threads \ {t} : Held(u)' = Held(u) /\ Level(u)' = Level(u) /\ pc'[u] = pc[u]
<1>1. pc' \in [Threads -> PcSteps] /\ pc'[t] = to /\ \A u \in Threads \ {t} : pc'[u] = pc[u]
  BY DEF LockInv, TypeInv
<1>2. OneObject'
  BY DEF LockInv, OneObject
<1>3. Nesting'
  BY <1>1 DEF LockInv, Nesting
<1> QED
  BY <1>1, <1>2, <1>3 DEF Held, Level

(* The RLock is free or the thread's own (__enter__).                       *)
LEMMA AcquireRLockStep == ASSUME LockInv, NEW t \in Threads, AcquireRLock(t) PROVE LockInv'
<1> DEFINE l == Current(t)
           to == IF depth[l] = 0 THEN "open" ELSE "in"
<1>1. /\ pc[t] = "rlock" /\ pc' = [pc EXCEPT ![t] = to] /\ rlock[l].owner \in {None, t}
      /\ rlock' = [rlock EXCEPT ![l] = [owner |-> t, count |-> @.count + 1]]
      /\ depth' = [depth EXCEPT ![l] = IF @ = 0 THEN 0 ELSE @ + 1]
      /\ UNCHANGED <<registry, refs, fileHandle, flocked, faults>>
  BY DEF AcquireRLock, Step
<1>2. /\ Len(refs[t]) \in Nat /\ Len(refs[t]) >= 1 /\ l = registry[Home[t]] /\ l \in Locks
  BY <1>1, CurrentObject
<1> HIDE DEF l
<1>3. /\ rlock \in [Locks -> [owner : Threads \cup {None}, count : Nat]] /\ depth \in [Locks -> Nat]
  BY DEF LockInv, TypeInv
<1>4. rlock[l].count = Len(refs[t]) - 1 /\ depth[l] = Len(refs[t]) - 1
  <2>0. Held(t) = Len(refs[t]) - 1 /\ Level(t) = Len(refs[t]) - 1
    BY <1>1, <1>2 DEF Held, Level
  <2>1. CASE rlock[l].owner = t
    BY <1>2, <2>0, <2>1 DEF LockInv, Owned
  <2>2. CASE rlock[l].owner = None
    <3>1. ~(Held(t) > 0)
      BY <1>2, <2>2, ConstantAssumptions DEF LockInv, Owned
    <3>2. rlock[l].count = 0 /\ depth[l] = 0
      BY <1>2, <2>2 DEF LockInv, Owned
    <3>3. ~(Len(refs[t]) - 1 > 0)
      BY <2>0, <3>1, Zenon
    <3>4. Len(refs[t]) \in Nat /\ Len(refs[t]) >= 1
      BY <1>2
    <3>5. Len(refs[t]) = 1
      BY <3>3, <3>4, InnerLevel, Zenon
    <3> QED
      BY <3>2, <3>5
  <2> QED
    BY <1>1, <2>1, <2>2
<1>5. to \in PcSteps \ {"out"} /\ (to \in {"open", "flock", "unlock"} => Len(refs[t]) = 1)
  BY <1>2, <1>3, <1>4 DEF PcSteps
<1>6. /\ OneObject' /\ Nesting' /\ pc' \in [Threads -> PcSteps] /\ pc'[t] = to
      /\ \A u \in Threads \ {t} : Held(u)' = Held(u) /\ Level(u)' = Level(u) /\ pc'[u] = pc[u]
  <2>1. pc[t] # "out" /\ UNCHANGED <<registry, refs>>
    BY <1>1
  <2> HIDE DEF to
  <2> QED
    BY <1>1, <1>5, <2>1, KeepsReferences
<1>7. /\ rlock'[l] = [owner |-> t, count |-> Len(refs[t])] /\ depth'[l] = (IF Len(refs[t]) = 1 THEN 0 ELSE Len(refs[t]))
      /\ \A k \in Locks \ {l} : rlock'[k] = rlock[k] /\ depth'[k] = depth[k]
      /\ rlock' \in [Locks -> [owner : Threads \cup {None}, count : Nat]] /\ depth' \in [Locks -> Nat]
  BY <1>1, <1>2, <1>3, <1>4
<1>8. Held(t)' = Len(refs[t]) /\ Level(t)' = (IF Len(refs[t]) = 1 THEN 0 ELSE Len(refs[t]))
  <2>1. refs' = refs /\ (Len(refs[t]) = 1 => pc'[t] = "open") /\ (Len(refs[t]) # 1 => pc'[t] = "in")
    BY <1>1, <1>2, <1>4, <1>6
  <2>2. CASE Len(refs[t]) = 1
    BY <2>1, <2>2 DEF Held, Level
  <2>3. CASE Len(refs[t]) # 1
    BY <2>1, <2>3 DEF Held, Level
  <2> QED
    BY <2>2, <2>3
<1>9. TypeInv'
  BY <1>1, <1>6, <1>7 DEF LockInv, TypeInv
<1>10. \A u \in Threads \ {t} : Held(u) > 0 => registry[Home[u]] # l
  BY <1>1, <1>2, ConstantAssumptions DEF LockInv, Owned
<1>11. Owned'
  <2>1. ASSUME NEW u \in Threads, Held(u)' > 0 PROVE rlock'[registry'[Home[u]]].owner = u
    <3>1. CASE u = t
      BY <1>1, <1>2, <1>7, <3>1
    <3>2. CASE u # t
      <4>1. Held(u) > 0 /\ rlock[registry[Home[u]]].owner = u /\ registry[Home[u]] # l
        BY <1>6, <1>10, <2>1, <3>2 DEF LockInv, Owned
      <4>2. registry[Home[u]] \in Locks
        BY <4>1, HolderObject
      <4> QED
        BY <1>1, <1>7, <4>1, <4>2
    <3> QED
      BY <3>1, <3>2
  <2>2. ASSUME NEW k \in Locks, NEW u \in Threads, rlock'[k].owner = u
        PROVE  /\ Held(u)' > 0 /\ k = registry'[Home[u]] /\ rlock'[k].count = Held(u)' /\ depth'[k] = Level(u)'
    <3>1. CASE k = l
      BY <1>1, <1>2, <1>7, <1>8, <2>2, <3>1
    <3>2. CASE k # l
      <4>1. rlock[k].owner = u /\ u # t
        BY <1>2, <1>7, <2>2, <3>2 DEF LockInv, Owned
      <4> QED
        BY <1>1, <1>6, <1>7, <3>2, <4>1 DEF LockInv, Owned
    <3> QED
      BY <3>1, <3>2
  <2>3. \A k \in Locks : rlock'[k].owner = None => rlock'[k].count = 0 /\ depth'[k] = 0
    BY <1>7, ConstantAssumptions, SMTT(30) DEF LockInv, Owned
  <2> QED
    BY <2>1, <2>2, <2>3 DEF Owned
<1>12. FileHeld'
  <2>1. ASSUME NEW u \in Threads, Level(u)' > 0 \/ pc'[u] = "unlock" PROVE flocked' = registry'[Home[u]]
    <3>1. CASE u = t
      <4>1. pc'[t] # "unlock"
        BY <1>6
      <4>2. Len(refs[t]) # 1
        BY <1>8, <2>1, <3>1, <4>1
      <4>3. Level(t) = Len(refs[t]) - 1
        BY <1>1 DEF Level
      <4>5. Len(refs[t]) \in Nat /\ Len(refs[t]) >= 1
        BY <1>2
      <4>4. Level(t) > 0
        BY <4>2, <4>3, <4>5, InnerLevel, Zenon
      <4> QED
        BY <1>1, <3>1, <4>4 DEF LockInv, FileHeld
    <3>2. CASE u # t
      BY <1>1, <1>6, <2>1, <3>2 DEF LockInv, FileHeld
    <3> QED
      BY <3>1, <3>2
  <2> QED
    BY <2>1 DEF FileHeld
<1> QED
  BY <1>6, <1>9, <1>11, <1>12 DEF LockInv

(* Who is inside the guard, or about to unlock, holds the RLock.            *)
LEMMA InsideHolds ==
    ASSUME LockInv, NEW u \in Threads, Level(u) > 0 \/ pc[u] = "unlock"
    PROVE  Held(u) > 0
<1>1. refs[u] \in Seq(Locks) /\ Len(refs[u]) \in Nat
  BY DEF LockInv, TypeInv
<1>2. CASE pc[u] = "unlock"
  BY <1>1, <1>2 DEF LockInv, Nesting, Held
<1>3. CASE pc[u] = "rlock"
  BY <1>3 DEF Held, Level
<1>4. CASE pc[u] \notin {"rlock", "unlock"}
  <2>1. Level(u) = Len(refs[u]) \/ Level(u) = Len(refs[u]) - 1
    BY DEF Level
  <2>2. Len(refs[u]) > 0 \/ Len(refs[u]) - 1 > 0
    BY <1>4, <2>1
  <2>3. \A n \in Nat : (n > 0 \/ n - 1 > 0) => n > 0
    OBVIOUS
  <2>4. Len(refs[u]) > 0
    BY <1>1, <2>2, <2>3, Zenon
  <2> QED
    BY <1>4, <2>4 DEF Held
<1> QED
  BY <1>2, <1>3, <1>4

(* A step of the owner that changes nothing of other threads and objects.   *)
LEMMA OwnerStep ==
    ASSUME LockInv, NEW t \in Threads, NEW to \in PcSteps \ {"out", "rlock"},
           pc[t] \notin {"out", "rlock"}, pc' = [pc EXCEPT ![t] = to],
           to \in {"open", "flock", "unlock"} => Len(refs[t]) = 1,
           UNCHANGED <<registry, refs, rlock>>,
           depth' \in [Locks -> Nat], fileHandle' \in [Locks -> BOOLEAN],
           flocked' \in Locks \cup {None}, faults' \in Nat,
           \A k \in Locks \ {Current(t)} : depth'[k] = depth[k],
           depth'[Current(t)] = Level(t)',
           \A u \in Threads : (Level(u)' > 0 \/ pc'[u] = "unlock") => flocked' = registry[Home[u]]
    PROVE  LockInv'
<1>1. /\ OneObject' /\ Nesting' /\ pc' \in [Threads -> PcSteps] /\ pc'[t] = to
      /\ \A u \in Threads \ {t} : Held(u)' = Held(u) /\ Level(u)' = Level(u) /\ pc'[u] = pc[u]
  BY KeepsReferences
<1>2. Held(t)' = Held(t)
  BY <1>1 DEF Held
<1>3. /\ Current(t) = registry[Home[t]] /\ Current(t) \in Locks
  BY CurrentObject
<1>4. TypeInv'
  BY <1>1 DEF LockInv, TypeInv
<1>5. Owned'
  <2>1. \A u \in Threads : Held(u)' = Held(u)
    BY <1>1, <1>2
  <2>2. \A u \in Threads : Held(u)' > 0 => rlock'[registry'[Home[u]]].owner = u
    BY <2>1 DEF LockInv, Owned
  <2>3. ASSUME NEW k \in Locks, NEW u \in Threads, rlock'[k].owner = u
        PROVE  /\ Held(u)' > 0 /\ k = registry'[Home[u]] /\ rlock'[k].count = Held(u)' /\ depth'[k] = Level(u)'
    <3>1. Held(u) > 0 /\ k = registry[Home[u]] /\ rlock[k].count = Held(u) /\ depth[k] = Level(u)
      BY <2>3 DEF LockInv, Owned
    <3>2. CASE k = Current(t)
      <4>1. Held(t) > 0
        <5>1. Len(refs[t]) \in Nat /\ Len(refs[t]) >= 1
          BY CurrentObject
        <5>2. \A n \in Nat : n >= 1 => n > 0
          OBVIOUS
        <5>3. Held(t) = Len(refs[t])
          BY DEF Held
        <5> QED
          BY <5>1, <5>2, <5>3, Zenon
      <4>2. u = t
        BY <1>3, <3>1, <3>2, <4>1, OneHolder
      <4> QED
        BY <1>2, <2>1, <3>1, <3>2, <4>2
    <3>3. CASE k # Current(t)
      <4>1. u # t
        BY <1>3, <3>1, <3>3
      <4> QED
        BY <1>1, <3>1, <3>3, <4>1
    <3> QED
      BY <3>2, <3>3
  <2>4. ASSUME NEW k \in Locks, rlock'[k].owner = None PROVE rlock'[k].count = 0 /\ depth'[k] = 0
    <3>1. k # Current(t)
      <4>1. Held(t) > 0
        <5>1. Len(refs[t]) \in Nat /\ Len(refs[t]) >= 1
          BY CurrentObject
        <5>2. \A n \in Nat : n >= 1 => n > 0
          OBVIOUS
        <5>3. Held(t) = Len(refs[t])
          BY DEF Held
        <5> QED
          BY <5>1, <5>2, <5>3, Zenon
      <4> QED
        BY <1>3, <2>4, <4>1, ConstantAssumptions DEF LockInv, Owned
    <3> QED
      BY <2>4, <3>1 DEF LockInv, Owned
  <2> QED
    BY <2>2, <2>3, <2>4 DEF Owned
<1>6. FileHeld'
  BY DEF FileHeld
<1> QED
  BY <1>1, <1>4, <1>5, <1>6 DEF LockInv

(* A thread past the RLock owns it, and the depth is its own.               *)
LEMMA OwnerDepth ==
    ASSUME LockInv, NEW t \in Threads, pc[t] \notin {"out", "rlock"}
    PROVE  /\ Held(t) > 0 /\ depth[Current(t)] = Level(t)
           /\ rlock[Current(t)] = [owner |-> t, count |-> Len(refs[t])]
<1>1. /\ Len(refs[t]) \in Nat /\ Len(refs[t]) >= 1 /\ Current(t) = registry[Home[t]] /\ Current(t) \in Locks
  BY CurrentObject
<1>2. \A n \in Nat : n >= 1 => n > 0
  OBVIOUS
<1>3. Held(t) = Len(refs[t])
  BY DEF Held
<1>4. Held(t) > 0
  BY <1>1, <1>2, <1>3, Zenon
<1>5. rlock[Current(t)].owner = t
  BY <1>1, <1>4 DEF LockInv, Owned
<1>6. rlock[Current(t)].count = Len(refs[t]) /\ depth[Current(t)] = Level(t)
  BY <1>1, <1>3, <1>5 DEF LockInv, Owned
<1>7. rlock[Current(t)] \in [owner : Threads \cup {None}, count : Nat]
  BY <1>1 DEF LockInv, TypeInv
<1> QED
  BY <1>4, <1>5, <1>6, <1>7

(* Opening the file changes no lock.                                        *)
LEMMA OpenFileStep == ASSUME LockInv, NEW t \in Threads, OpenFile(t) PROVE LockInv'
<1>1. pc[t] = "open" /\ pc' = [pc EXCEPT ![t] = "flock"] /\ UNCHANGED <<registry, refs, rlock, depth, fileHandle, flocked, faults>>
  BY DEF OpenFile, Step
<1>2. Len(refs[t]) = 1 /\ "flock" \in PcSteps \ {"out", "rlock"}
  BY <1>1 DEF LockInv, Nesting, PcSteps
<1>3. pc'[t] = "flock" /\ \A u \in Threads \ {t} : pc'[u] = pc[u]
  BY <1>1 DEF LockInv, TypeInv
<1>4. \A u \in Threads : Level(u)' = Level(u) /\ (pc'[u] = "unlock" => pc[u] = "unlock")
  BY <1>1, <1>3 DEF Level
<1>5. depth[Current(t)] = Level(t)
  BY <1>1, OwnerDepth
<1>6. /\ depth' \in [Locks -> Nat] /\ fileHandle' \in [Locks -> BOOLEAN]
      /\ flocked' \in Locks \cup {None} /\ faults' \in Nat
  BY <1>1 DEF LockInv, TypeInv
<1>7. \A u \in Threads : (Level(u)' > 0 \/ pc'[u] = "unlock") => flocked' = registry[Home[u]]
  BY <1>1, <1>4 DEF LockInv, FileHeld
<1> QED
  BY <1>1, <1>2, <1>4, <1>5, <1>6, <1>7, OwnerStep

(* The file lock is granted while nobody has it, hence nobody is inside.    *)
LEMMA AcquireFileLockStep == ASSUME LockInv, NEW t \in Threads, AcquireFileLock(t) PROVE LockInv'
<1>1. /\ pc[t] = "flock" /\ pc' = [pc EXCEPT ![t] = "in"] /\ flocked = None /\ flocked' = Current(t)
      /\ fileHandle' = [fileHandle EXCEPT ![Current(t)] = TRUE]
      /\ depth' = [depth EXCEPT ![Current(t)] = @ + 1]
      /\ UNCHANGED <<registry, refs, rlock, faults>>
  BY DEF AcquireFileLock, Step
<1>2. Len(refs[t]) = 1 /\ "in" \in PcSteps \ {"out", "rlock"}
  BY <1>1 DEF LockInv, Nesting, PcSteps
<1>3. pc'[t] = "in" /\ \A u \in Threads \ {t} : pc'[u] = pc[u]
  BY <1>1 DEF LockInv, TypeInv
<1>4. Current(t) = registry[Home[t]] /\ Current(t) \in Locks
  BY <1>1, CurrentObject
<1>5. depth[Current(t)] = 0 /\ Level(t)' = 1
  <2>1. Level(t) = Len(refs[t]) - 1 /\ Level(t)' = Len(refs[t])
    BY <1>1, <1>3 DEF Level
  <2>2. depth[Current(t)] = Level(t)
    BY <1>1, OwnerDepth
  <2> QED
    BY <1>2, <2>1, <2>2
<1>6. /\ depth' \in [Locks -> Nat] /\ fileHandle' \in [Locks -> BOOLEAN] /\ depth'[Current(t)] = 1
      /\ \A k \in Locks \ {Current(t)} : depth'[k] = depth[k]
      /\ flocked' \in Locks \cup {None} /\ faults' \in Nat
  BY <1>1, <1>4, <1>5 DEF LockInv, TypeInv
<1>7. ASSUME NEW u \in Threads, Level(u)' > 0 \/ pc'[u] = "unlock" PROVE flocked' = registry[Home[u]]
  <2>1. CASE u = t
    BY <1>1, <1>4, <2>1
  <2>2. CASE u # t
    <3>1. Level(u) > 0 \/ pc[u] = "unlock"
      BY <1>1, <1>3, <1>7, <2>2 DEF Level
    <3>2. flocked = registry[Home[u]]
      BY <3>1 DEF LockInv, FileHeld
    <3>3. registry[Home[u]] \in Locks
      BY <3>1, InsideHolds, HolderObject
    <3> QED
      BY <1>1, <3>2, <3>3, ConstantAssumptions
  <2> QED
    BY <2>1, <2>2
<1> QED
  BY <1>1, <1>2, <1>5, <1>6, <1>7, OwnerStep

(* A failed __enter__ leaves only the RLock to give back.                   *)
LEMMA EnterRaisesStep == ASSUME LockInv, NEW t \in Threads, EnterRaises(t) PROVE LockInv'
<1>1. /\ pc[t] \in {"open", "flock"} /\ pc' = [pc EXCEPT ![t] = "release"] /\ faults' = faults + 1
      /\ UNCHANGED <<registry, refs, rlock, depth, fileHandle, flocked>>
  BY DEF EnterRaises
<1>2. "release" \in PcSteps \ {"out", "rlock"}
  BY DEF PcSteps
<1>3. pc'[t] = "release" /\ \A u \in Threads \ {t} : pc'[u] = pc[u]
  BY <1>1 DEF LockInv, TypeInv
<1>4. \A u \in Threads : Level(u)' = Level(u) /\ (pc'[u] = "unlock" => pc[u] = "unlock")
  BY <1>1, <1>3 DEF Level
<1>5. depth[Current(t)] = Level(t)
  BY <1>1, OwnerDepth
<1>6. /\ depth' \in [Locks -> Nat] /\ fileHandle' \in [Locks -> BOOLEAN]
      /\ flocked' \in Locks \cup {None} /\ faults' \in Nat
  BY <1>1 DEF LockInv, TypeInv
<1>7. \A u \in Threads : (Level(u)' > 0 \/ pc'[u] = "unlock") => flocked' = registry[Home[u]]
  BY <1>1, <1>4 DEF LockInv, FileHeld
<1> QED
  BY <1>1, <1>2, <1>4, <1>5, <1>6, <1>7, OwnerStep

(* __exit__ finds the depth of its own level: 1 exactly when it is alone.   *)
LEMMA ExitGuardStep == ASSUME LockInv, NEW t \in Threads, ExitGuard(t) PROVE LockInv'
<1> DEFINE to == IF Outermost(Current(t)) THEN "unlock" ELSE "release"
<1>1. /\ pc[t] = "in" /\ pc' = [pc EXCEPT ![t] = to]
      /\ depth' = [depth EXCEPT ![Current(t)] = @ - 1]
      /\ fileHandle' = [fileHandle EXCEPT ![Current(t)] = @ /\ ~Outermost(Current(t))]
      /\ UNCHANGED <<registry, refs, rlock, flocked, faults>>
  BY DEF ExitGuard, Step
<1>2. Len(refs[t]) \in Nat /\ Len(refs[t]) >= 1 /\ Current(t) \in Locks /\ Current(t) = registry[Home[t]]
  BY <1>1, CurrentObject
<1>3. Level(t) = Len(refs[t]) /\ depth[Current(t)] = Len(refs[t])
  BY <1>1, OwnerDepth DEF Level
<1>4. to \in PcSteps \ {"out", "rlock"} /\ (to \in {"open", "flock", "unlock"} => Len(refs[t]) = 1)
  BY <1>3 DEF PcSteps, Outermost
<1>5. pc'[t] = to /\ pc'[t] \notin {"out", "in"} /\ \A u \in Threads \ {t} : pc'[u] = pc[u]
  BY <1>1, <1>4 DEF LockInv, TypeInv
<1>6. Level(t)' = Len(refs[t]) - 1
  BY <1>1, <1>5 DEF Level
<1>7. /\ depth' \in [Locks -> Nat] /\ fileHandle' \in [Locks -> BOOLEAN] /\ depth'[Current(t)] = Len(refs[t]) - 1
      /\ \A k \in Locks \ {Current(t)} : depth'[k] = depth[k]
  BY <1>1, <1>2, <1>3 DEF LockInv, TypeInv
<1>8. flocked' \in Locks \cup {None} /\ faults' \in Nat
  BY <1>1 DEF LockInv, TypeInv
<1>9. ASSUME NEW u \in Threads, Level(u)' > 0 \/ pc'[u] = "unlock" PROVE flocked' = registry[Home[u]]
  <2>1. CASE u = t
    <3>1. \A n \in Nat : n >= 1 => n > 0
      OBVIOUS
    <3>2. Level(t) > 0
      BY <1>2, <1>3, <3>1, Zenon
    <3> QED
      BY <1>1, <2>1, <3>2 DEF LockInv, FileHeld
  <2>2. CASE u # t
    BY <1>1, <1>5, <1>9, <2>2 DEF LockInv, FileHeld, Level
  <2> QED
    BY <2>1, <2>2
<1> HIDE DEF to
<1>10. pc[t] \notin {"out", "rlock"} /\ UNCHANGED <<registry, refs, rlock>>
  BY <1>1
<1> QED
  BY <1>1, <1>4, <1>6, <1>7, <1>8, <1>9, <1>10, OwnerStep

(* Only the thread that was inside gives the file lock back.                *)
LEMMA ReleaseFileLockStep == ASSUME LockInv, NEW t \in Threads, ReleaseFileLock(t) PROVE LockInv'
<1>1. /\ pc[t] = "unlock" /\ pc' = [pc EXCEPT ![t] = "release"]
      /\ flocked' = (IF flocked = Current(t) THEN None ELSE flocked)
      /\ UNCHANGED <<registry, refs, rlock, depth, fileHandle, faults>>
  BY DEF ReleaseFileLock, Step
<1>2. "release" \in PcSteps \ {"out", "rlock"} /\ Len(refs[t]) = 1
  BY <1>1 DEF PcSteps, LockInv, Nesting
<1>3. pc'[t] = "release" /\ \A u \in Threads \ {t} : pc'[u] = pc[u]
  BY <1>1 DEF LockInv, TypeInv
<1>4. \A u \in Threads : Level(u)' = Level(u)
  BY <1>1, <1>3 DEF Level
<1>5. depth[Current(t)] = Level(t) /\ Held(t) > 0 /\ Current(t) = registry[Home[t]]
  BY <1>1, OwnerDepth, CurrentObject
<1>6. /\ depth' \in [Locks -> Nat] /\ fileHandle' \in [Locks -> BOOLEAN]
      /\ flocked' \in Locks \cup {None} /\ faults' \in Nat
  BY <1>1 DEF LockInv, TypeInv
<1>7. flocked = Current(t)
  BY <1>1, <1>5 DEF LockInv, FileHeld
<1>8. ASSUME NEW u \in Threads, Level(u)' > 0 \/ pc'[u] = "unlock" PROVE FALSE
  <2>1. CASE u = t
    <3>1. Level(t) = 0
      BY <1>1, <1>2 DEF Level
    <3> QED
      BY <1>3, <1>4, <1>8, <2>1, <3>1
  <2>2. CASE u # t
    <3>1. Level(u) > 0 \/ pc[u] = "unlock"
      BY <1>3, <1>4, <1>8, <2>2
    <3>2. Held(u) > 0 /\ registry[Home[u]] = registry[Home[t]]
      BY <1>5, <1>7, <3>1, InsideHolds DEF LockInv, FileHeld
    <3> QED
      BY <1>5, <2>2, <3>2, OneHolder
  <2> QED
    BY <2>1, <2>2
<1> QED
  BY <1>1, <1>2, <1>4, <1>5, <1>6, <1>8, OwnerStep

(* A level of the RLock goes with the reference to its object.              *)
LEMMA ReleaseRLockStep == ASSUME LockInv, NEW t \in Threads, ReleaseRLock(t) PROVE LockInv'
<1> DEFINE l == Current(t)
           n == Len(refs[t])
<1>1. /\ pc[t] = "release" /\ pc' = [pc EXCEPT ![t] = IF n = 1 THEN "out" ELSE "in"]
      /\ rlock' = [rlock EXCEPT ![l] = Released(rlock[l])]
      /\ refs' = [refs EXCEPT ![t] = SubSeq(refs[t], 1, n - 1)]
      /\ UNCHANGED <<registry, depth, fileHandle, flocked, faults>>
  BY DEF ReleaseRLock, Step, Enclosing, Front
<1>2. n \in Nat /\ n >= 1 /\ l = registry[Home[t]] /\ l \in Locks
  BY <1>1, CurrentObject
<1>3. rlock[l] = [owner |-> t, count |-> n] /\ depth[l] = n - 1
  BY <1>1, OwnerDepth DEF Level
<1>4. refs[t] \in Seq(Locks)
  BY DEF LockInv, TypeInv
<1> HIDE DEF l
<1>5. /\ refs'[t] = SubSeq(refs[t], 1, n - 1) /\ refs'[t] \in Seq(Locks) /\ Len(refs'[t]) = n - 1
      /\ DOMAIN refs'[t] \subseteq DOMAIN refs[t] /\ \A i \in DOMAIN refs'[t] : refs'[t][i] = refs[t][i]
      /\ refs' \in [Threads -> Seq(Locks)] /\ \A u \in Threads \ {t} : refs'[u] = refs[u]
  <2>1. refs'[t] = SubSeq(refs[t], 1, n - 1) /\ \A u \in Threads \ {t} : refs'[u] = refs[u]
    BY <1>1 DEF LockInv, TypeInv
  <2>2. /\ SubSeq(refs[t], 1, n - 1) \in Seq(Locks) /\ Len(SubSeq(refs[t], 1, n - 1)) = n - 1
        /\ DOMAIN SubSeq(refs[t], 1, n - 1) \subseteq DOMAIN refs[t]
        /\ \A i \in DOMAIN SubSeq(refs[t], 1, n - 1) : SubSeq(refs[t], 1, n - 1)[i] = refs[t][i]
    BY <1>2, <1>4
  <2>3. refs' \in [Threads -> Seq(Locks)]
    BY <1>1, <2>2 DEF LockInv, TypeInv
  <2> QED
    BY <2>1, <2>2, <2>3
<1>5a. n - 1 \in Nat /\ (n # 1 => n - 1 > 0) /\ (n = 1 => n - 1 = 0) /\ n > 0
  <2> HIDE DEF n
  <2> QED
    BY <1>2, OuterLevels, Zenon
<1>6. /\ n = 1 => refs'[t] = <<>> /\ pc'[t] = "out"
      /\ n # 1 => refs'[t] # <<>> /\ pc'[t] = "in"
      /\ pc' \in [Threads -> PcSteps] /\ \A u \in Threads \ {t} : pc'[u] = pc[u]
  <2>1. refs'[t] = <<>> <=> n = 1
    <3>1. refs'[t] = <<>> <=> Len(refs'[t]) = 0
      BY <1>5, NoLevels, Zenon
    <3> HIDE DEF n
    <3> QED
      BY <1>5, <1>5a, <3>1
  <2>2. /\ pc'[t] = (IF n = 1 THEN "out" ELSE "in") /\ pc' \in [Threads -> PcSteps]
        /\ \A u \in Threads \ {t} : pc'[u] = pc[u]
    BY <1>1 DEF LockInv, TypeInv, PcSteps
  <2> HIDE DEF n
  <2> QED
    BY <2>1, <2>2
<1>7. /\ n = 1 => rlock'[l] = Free
      /\ n # 1 => rlock'[l] = [owner |-> t, count |-> n - 1]
      /\ \A k \in Locks \ {l} : rlock'[k] = rlock[k]
      /\ rlock' \in [Locks -> [owner : Threads \cup {None}, count : Nat]]
  <2>1. rlock \in [Locks -> [owner : Threads \cup {None}, count : Nat]]
    BY DEF LockInv, TypeInv
  <2> HIDE DEF n
  <2>2. CASE n = 1
    BY <1>1, <1>2, <1>3, <2>1, <2>2 DEF Free, Released
  <2>3. CASE n # 1
    <3>1. Released(rlock[l]) = [owner |-> t, count |-> n - 1]
      BY <1>3, <2>3 DEF Released
    <3> QED
      BY <1>1, <1>2, <1>5a, <2>1, <2>3, <3>1
  <2> QED
    BY <2>2, <2>3
<1>8. /\ Held(t)' = n - 1 /\ Level(t)' = n - 1 /\ Held(t) = n
      /\ \A u \in Threads \ {t} : Held(u)' = Held(u) /\ Level(u)' = Level(u)
  <2>1. Held(t)' = n - 1 /\ Level(t)' = n - 1 /\ Held(t) = n
    BY <1>1, <1>5, <1>6 DEF Held, Level
  <2> QED
    BY <1>5, <1>6, <2>1 DEF Held, Level
<1>9. TypeInv'
  BY <1>1, <1>5, <1>6, <1>7 DEF LockInv, TypeInv
<1>10. OneObject'
  BY <1>1, <1>5 DEF LockInv, OneObject
<1>11. Nesting'
  BY <1>5, <1>6 DEF LockInv, Nesting
<1> HIDE DEF n
<1>13. \A u \in Threads \ {t} : Held(u) > 0 => registry[Home[u]] # l
  BY <1>2, <1>8, <1>5a, OneHolder
<1>14. Owned'
  <2>1. ASSUME NEW u \in Threads, Held(u)' > 0 PROVE rlock'[registry'[Home[u]]].owner = u
    <3>1. CASE u = t
      BY <1>1, <1>2, <1>7, <1>8, <1>5a, <2>1, <3>1
    <3>2. CASE u # t
      <4>1. Held(u) > 0 /\ rlock[registry[Home[u]]].owner = u /\ registry[Home[u]] # l
        BY <1>8, <1>13, <2>1, <3>2 DEF LockInv, Owned
      <4>2. registry[Home[u]] \in Locks
        BY <4>1, HolderObject
      <4> QED
        BY <1>1, <1>7, <4>1, <4>2
    <3> QED
      BY <3>1, <3>2
  <2>2. ASSUME NEW k \in Locks, NEW u \in Threads, rlock'[k].owner = u
        PROVE  /\ Held(u)' > 0 /\ k = registry'[Home[u]] /\ rlock'[k].count = Held(u)' /\ depth'[k] = Level(u)'
    <3>1. CASE k = l
      BY <1>1, <1>2, <1>3, <1>7, <1>8, <1>5a, <2>2, <3>1, ConstantAssumptions DEF Free
    <3>2. CASE k # l
      <4>1. rlock[k].owner = u /\ k = registry[Home[u]]
        BY <1>7, <2>2, <3>2 DEF LockInv, Owned
      <4>2. u # t
        BY <1>2, <3>2, <4>1
      <4> QED
        BY <1>1, <1>7, <1>8, <3>2, <4>1, <4>2 DEF LockInv, Owned
    <3> QED
      BY <3>1, <3>2
  <2>3. ASSUME NEW k \in Locks, rlock'[k].owner = None PROVE rlock'[k].count = 0 /\ depth'[k] = 0
    <3>1. CASE k = l
      BY <1>1, <1>2, <1>3, <1>7, <1>5a, <2>3, <3>1, ConstantAssumptions DEF Free
    <3>2. CASE k # l
      BY <1>1, <1>7, <2>3, <3>2 DEF LockInv, Owned
    <3> QED
      BY <3>1, <3>2
  <2> QED
    BY <2>1, <2>2, <2>3 DEF Owned
<1>15. FileHeld'
  <2>1. ASSUME NEW u \in Threads, Level(u)' > 0 \/ pc'[u] = "unlock" PROVE flocked' = registry'[Home[u]]
    <3>1. CASE u = t
      <4>1. Level(t) = n - 1
        BY <1>1 DEF Level, n
      <4>2. Level(t) > 0
        BY <1>6, <1>8, <2>1, <3>1, <4>1
      <4> QED
        BY <1>1, <3>1, <4>2 DEF LockInv, FileHeld
    <3>2. CASE u # t
      BY <1>1, <1>6, <1>8, <2>1, <3>2 DEF LockInv, FileHeld
    <3> QED
      BY <3>1, <3>2
  <2> QED
    BY <2>1 DEF FileHeld
<1> QED
  BY <1>9, <1>10, <1>11, <1>14, <1>15 DEF LockInv

(* A process that dies takes its threads and objects with it, and the file  *)
(* lock if one of its objects had it.  Nobody else refers to them.          *)
LEMMA CrashStep == ASSUME LockInv, NEW p \in Processes, Crash(p) PROVE LockInv'
<1>1. /\ faults' = faults + 1
      /\ registry' = [registry EXCEPT ![p] = None]
      /\ refs' = [t \in Threads |-> IF Home[t] = p THEN <<>> ELSE refs[t]]
      /\ pc' = [t \in Threads |-> IF Home[t] = p THEN "out" ELSE pc[t]]
      /\ rlock' = [l \in Locks |-> IF Home[l] = p THEN Free ELSE rlock[l]]
      /\ depth' = [l \in Locks |-> IF Home[l] = p THEN 0 ELSE depth[l]]
      /\ fileHandle' = [l \in Locks |-> fileHandle[l] /\ Home[l] # p]
      /\ flocked' = (IF flocked # None /\ Home[flocked] = p THEN None ELSE flocked)
  BY DEF Crash
<1>2. TypeInv'
  <2>1. fileHandle' \in [Locks -> BOOLEAN]
    BY <1>1, Zenon
  <2>2. Free \in [owner : Threads \cup {None}, count : Nat]
    BY DEF Free
  <2>3. <<>> \in Seq(Locks) /\ "out" \in PcSteps
    BY DEF PcSteps
  <2> QED
    BY <1>1, <2>1, <2>2, <2>3 DEF LockInv, TypeInv
<1>3. ASSUME NEW u \in Threads PROVE
      IF Home[u] = p
      THEN pc'[u] = "out" /\ refs'[u] = <<>> /\ Held(u)' = 0 /\ Level(u)' = 0
      ELSE /\ pc'[u] = pc[u] /\ refs'[u] = refs[u] /\ Held(u)' = Held(u) /\ Level(u)' = Level(u)
           /\ registry'[Home[u]] = registry[Home[u]]
           /\ Held(u) > 0 \/ Level(u) > 0 => registry[Home[u]] \in Locks /\ Home[registry[Home[u]]] # p
  <2>1. CASE Home[u] = p
    BY <1>1, <2>1 DEF Held, Level
  <2>2. CASE Home[u] # p
    <3>1. Home[u] \in Processes
      BY ConstantAssumptions
    <3>2. /\ pc'[u] = pc[u] /\ refs'[u] = refs[u] /\ registry'[Home[u]] = registry[Home[u]]
      BY <1>1, <2>2, <3>1 DEF LockInv, TypeInv
    <3>3. Held(u)' = Held(u) /\ Level(u)' = Level(u)
      BY <3>2 DEF Held, Level
    <3>4. Held(u) > 0 \/ Level(u) > 0 => registry[Home[u]] \in Locks
      BY HolderObject
    <3>5. registry[Home[u]] \in Locks => Home[registry[Home[u]]] # p
      BY <2>2, <3>1, ConstantAssumptions DEF LockInv, OneObject
    <3> QED
      BY <2>2, <3>2, <3>3, <3>4, <3>5
  <2> QED
    BY <2>1, <2>2
<1>4. OneObject'
  <2>1. \A q \in Processes : registry'[q] # None => Home[registry'[q]] = q
    BY <1>1 DEF LockInv, TypeInv, OneObject
  <2>2. ASSUME NEW u \in Threads, NEW i \in DOMAIN refs'[u] PROVE refs'[u][i] = registry'[Home[u]]
    BY <1>3, <2>2 DEF LockInv, OneObject
  <2> QED
    BY <2>1, <2>2 DEF OneObject
<1>5. Nesting'
  <2> SUFFICES ASSUME NEW u \in Threads
               PROVE  /\ pc'[u] = "out" <=> refs'[u] = <<>>
                      /\ pc'[u] \in {"open", "flock", "unlock"} => Len(refs'[u]) = 1
    BY DEF Nesting
  <2> QED
    BY <1>3 DEF LockInv, Nesting
<1>6. Owned'
  <2>1. ASSUME NEW u \in Threads, Held(u)' > 0 PROVE rlock'[registry'[Home[u]]].owner = u
    <3>1. Home[u] # p
      BY <1>3, <2>1
    <3> QED
      BY <1>1, <1>3, <2>1, <3>1 DEF LockInv, Owned
  <2>2. ASSUME NEW k \in Locks, NEW u \in Threads, rlock'[k].owner = u
        PROVE  /\ Held(u)' > 0 /\ k = registry'[Home[u]] /\ rlock'[k].count = Held(u)' /\ depth'[k] = Level(u)'
    <3>1. Home[k] # p
      BY <1>1, <2>2, ConstantAssumptions DEF Free
    <3>2. rlock[k].owner = u /\ rlock'[k] = rlock[k] /\ depth'[k] = depth[k]
      BY <1>1, <2>2, <3>1
    <3>3. Held(u) > 0 /\ k = registry[Home[u]] /\ rlock[k].count = Held(u) /\ depth[k] = Level(u)
      BY <3>2 DEF LockInv, Owned
    <3>4. Home[u] # p
      BY <3>1, <3>3, ConstantAssumptions DEF LockInv, OneObject
    <3> QED
      BY <1>3, <3>2, <3>3, <3>4
  <2>3. \A k \in Locks : rlock'[k].owner = None => rlock'[k].count = 0 /\ depth'[k] = 0
    BY <1>1 DEF LockInv, Owned, Free
  <2> QED
    BY <2>1, <2>2, <2>3 DEF Owned
<1>7. FileHeld'
  <2>1. ASSUME NEW u \in Threads, Level(u)' > 0 \/ pc'[u] = "unlock" PROVE flocked' = registry'[Home[u]]
    <3>1. Home[u] # p
      BY <1>3, <2>1
    <3>2. Level(u) > 0 \/ pc[u] = "unlock"
      BY <1>3, <2>1, <3>1
    <3>3. flocked = registry[Home[u]] /\ Held(u) > 0
      BY <3>2, InsideHolds DEF LockInv, FileHeld
    <3> QED
      BY <1>1, <1>3, <3>1, <3>3
  <2> QED
    BY <2>1 DEF FileHeld
<1> QED
  BY <1>2, <1>4, <1>5, <1>6, <1>7 DEF LockInv

-----------------------------------------------------------------------------
(* The invariant is inductive.                                              *)
LEMMA LockStep == LockInv /\ [Next]_vars => LockInv'
<1> SUFFICES ASSUME LockInv, [Next]_vars PROVE LockInv'
  OBVIOUS
<1>1. ASSUME NEW t \in Threads, ForPath(t) \/ Enter(t) \/ EnterRaises(t) \/ LeaveGuard(t) PROVE LockInv'
  BY <1>1, ForPathStep, AcquireRLockStep, OpenFileStep, AcquireFileLockStep, EnterRaisesStep, ExitGuardStep,
     ReleaseFileLockStep, ReleaseRLockStep DEF Enter, LeaveGuard
<1>2. CASE UNCHANGED vars
  BY <1>2 DEF vars, LockInv, TypeInv, OneObject, Nesting, Owned, FileHeld, Held, Level
<1> QED
  BY <1>1, <1>2, CrashStep DEF Next

(* Whoever is inside has the file lock through the object of its process,   *)
(* and holds that object's RLock, which has one owner.                      *)
LEMMA InsideAlone == LockInv => MutualExclusion
<1> SUFFICES ASSUME LockInv, NEW t \in Threads, NEW u \in Threads, Level(t) > 0, Level(u) > 0 PROVE t = u
  BY DEF MutualExclusion
<1>1. Held(t) > 0 /\ Held(u) > 0
  BY InsideHolds
<1>2. registry[Home[t]] = registry[Home[u]]
  BY DEF LockInv, FileHeld
<1> QED
  BY <1>1, <1>2, OneHolder

(* One writer at a time: at most one thread of all the processes that share *)
(* the lock file is inside the guard, through reentry, failed acquisitions, *)
(* vanished and replaced lock objects and dead processes                    *)
(* (ReentrantFileLock, LockManager).                                        *)
THEOREM Exclusion == Spec => []MutualExclusion
BY InitLock, LockStep, InsideAlone, PTL DEF Spec
=============================================================================
