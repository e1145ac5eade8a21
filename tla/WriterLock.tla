------------------------------ MODULE WriterLock ------------------------------
(***************************************************************************)
(* The database-wide writer guard: LockManager and ReentrantFileLock, used *)
(* by write_guard around every temporal operation and every transaction    *)
(* scope.  Threads of several processes share one lock file.  A process    *)
(* keeps its lock object in a weak registry, so that an object nobody uses *)
(* disappears and a later caller makes a new one.                          *)
(***************************************************************************)
EXTENDS Naturals, Sequences, SequencesExt

CONSTANTS
    Processes,
    Threads,
    Locks,          \* identities of ReentrantFileLock objects
    Home,           \* the process of each thread and of each lock object
    MaxNesting,     \* bound on nested guards of one thread
    MaxFaults,      \* bound on process crashes and failed acquisitions
    None

ASSUME ConstantAssumptions ==
    /\ Home \in [Threads \cup Locks -> Processes]
    /\ None \notin Threads \cup Locks
    /\ MaxNesting \in Nat /\ MaxFaults \in Nat

VARIABLES
    registry,   \* per process, the object its manager's weak dictionary names
    refs,       \* per thread, the objects of its open with statements
    pc,         \* per thread, the step of its innermost __enter__ or __exit__
    rlock,      \* per object, the owner and the count of its threading.RLock
    depth,      \* per object, _depth
    fileHandle, \* per object, whether _handle is an open file
    flocked,    \* the object whose handle holds the file lock
    faults

vars == <<registry, refs, pc, rlock, depth, fileHandle, flocked, faults>>

Free == [owner |-> None, count |-> 0]

Init ==
    /\ registry = [p \in Processes |-> None]
    /\ refs = [t \in Threads |-> <<>>]
    /\ pc = [t \in Threads |-> "out"]
    /\ rlock = [l \in Locks |-> Free]
    /\ depth = [l \in Locks |-> 0]
    /\ fileHandle = [l \in Locks |-> FALSE]
    /\ flocked = None
    /\ faults = 0

Live(l) == \E t \in Threads : l \in Range(refs[t])

(* The object of thread t's innermost with statement.                       *)
Current(t) == Last(refs[t])

Step(t, from, to) == pc[t] = from /\ pc' = [pc EXCEPT ![t] = to]

-----------------------------------------------------------------------------
BadFreshObject(p, l) == Home[l] = p /\ ~Live(l)

(* What LockManager.for_path may return: the live registered object, else a *)
(* new one.                                                                 *)
Canonical(p, l) ==
    IF registry[p] # None /\ Live(registry[p])
    THEN l = registry[p]
    ELSE Home[l] = p /\ ~Live(l)

(* for_path, under the manager's own mutex.                                 *)
ForPath(t) ==
    /\ pc[t] \in {"out", "in"} /\ Len(refs[t]) < MaxNesting
    /\ pc' = [pc EXCEPT ![t] = "rlock"]
    /\ \E l \in Locks :
          /\ Canonical(Home[t], l)
          /\ refs' = [refs EXCEPT ![t] = Append(@, l)]
          /\ registry' = [registry EXCEPT ![Home[t]] = l]
    /\ UNCHANGED <<rlock, depth, fileHandle, flocked, faults>>

(* __enter__: the RLock first.  An owner only counts the nesting.           *)
AcquireRLock(t) ==
    LET l == Current(t) IN
    /\ Step(t, "rlock", IF depth[l] = 0 THEN "open" ELSE "in")
    /\ rlock[l].owner \in {None, t}
    /\ rlock' = [rlock EXCEPT ![l] = [owner |-> t, count |-> @.count + 1]]
    /\ depth' = [depth EXCEPT ![l] = IF @ = 0 THEN 0 ELSE @ + 1]
    /\ UNCHANGED <<registry, refs, fileHandle, flocked, faults>>

OpenFile(t) ==
    /\ Step(t, "open", "flock")
    /\ UNCHANGED <<registry, refs, rlock, depth, fileHandle, flocked, faults>>

(* The operating system grants the exclusive lock on the file.              *)
AcquireFileLock(t) ==
    LET l == Current(t) IN
    /\ Step(t, "flock", "in")
    /\ flocked = None /\ flocked' = l
    /\ fileHandle' = [fileHandle EXCEPT ![l] = TRUE]
    /\ depth' = [depth EXCEPT ![l] = @ + 1]
    /\ UNCHANGED <<registry, refs, rlock, faults>>

(* Opening or locking the file raises: the handle is closed and the RLock   *)
(* is given back.                                                           *)
EnterRaises(t) ==
    /\ pc[t] \in {"open", "flock"} /\ faults < MaxFaults
    /\ pc' = [pc EXCEPT ![t] = "release"]
    /\ faults' = faults + 1
    /\ UNCHANGED <<registry, refs, rlock, depth, fileHandle, flocked>>

BadEveryExit(l) == TRUE

Outermost(l) == depth[l] = 1

(* __exit__: the depth, then the file lock when it is the outermost exit.   *)
ExitGuard(t) ==
    LET l == Current(t) IN
    /\ Step(t, "in", IF Outermost(l) THEN "unlock" ELSE "release")
    /\ depth' = [depth EXCEPT ![l] = @ - 1]
    /\ fileHandle' = [fileHandle EXCEPT ![l] = @ /\ ~Outermost(l)]
    /\ UNCHANGED <<registry, refs, rlock, flocked, faults>>

(* The file is unlocked and closed.                                         *)
ReleaseFileLock(t) ==
    /\ Step(t, "unlock", "release")
    /\ flocked' = IF flocked = Current(t) THEN None ELSE flocked
    /\ UNCHANGED <<registry, refs, rlock, depth, fileHandle, faults>>

(* One level of the RLock is released.                                      *)
Released(r) == IF r.count = 1 THEN Free ELSE [r EXCEPT !.count = @ - 1]

(* Where the with statement leaves the thread: inside the enclosing one.    *)
Enclosing(t) == IF Len(refs[t]) = 1 THEN "out" ELSE "in"

ReleaseRLock(t) ==
    LET l == Current(t) IN
    /\ Step(t, "release", Enclosing(t))
    /\ rlock' = [rlock EXCEPT ![l] = Released(@)]
    /\ refs' = [refs EXCEPT ![t] = Front(@)]
    /\ UNCHANGED <<registry, depth, fileHandle, flocked, faults>>

(* A process dies: its memory is gone and its files are closed.             *)
Crash(p) ==
    /\ faults < MaxFaults /\ faults' = faults + 1
    /\ \E t \in Threads : Home[t] = p /\ pc[t] # "out"
    /\ registry' = [registry EXCEPT ![p] = None]
    /\ refs' = [t \in Threads |-> IF Home[t] = p THEN <<>> ELSE refs[t]]
    /\ pc' = [t \in Threads |-> IF Home[t] = p THEN "out" ELSE pc[t]]
    /\ rlock' = [l \in Locks |-> IF Home[l] = p THEN Free ELSE rlock[l]]
    /\ depth' = [l \in Locks |-> IF Home[l] = p THEN 0 ELSE depth[l]]
    /\ fileHandle' = [l \in Locks |-> fileHandle[l] /\ Home[l] # p]
    /\ flocked' = IF flocked # None /\ Home[flocked] = p THEN None ELSE flocked

-----------------------------------------------------------------------------
Enter(t) == AcquireRLock(t) \/ OpenFile(t) \/ AcquireFileLock(t)
LeaveGuard(t) == ExitGuard(t) \/ ReleaseFileLock(t) \/ ReleaseRLock(t)

Next ==
    \/ \E t \in Threads : ForPath(t) \/ Enter(t) \/ EnterRaises(t) \/ LeaveGuard(t)
    \/ \E p \in Processes : Crash(p)

Spec == Init /\ [][Next]_vars

(* A thread that can take the next step of __enter__ or __exit__ takes it,  *)
(* and no writer keeps the guard for ever.  Nothing makes either lock fair. *)
Fairness == WF_vars(\E t \in Threads : Enter(t)) /\ \A t \in Threads : WF_vars(LeaveGuard(t))

-----------------------------------------------------------------------------
(* Properties.                                                              *)

(* The levels of the guard that thread t is inside of.                      *)
Level(t) == IF pc[t] \in {"out", "in"} THEN Len(refs[t]) ELSE Len(refs[t]) - 1

(* At most one thread of all processes is inside the guard, nested or not,  *)
(* also while a thread enters or leaves an inner level.                     *)
MutualExclusion == \A t, u \in Threads : Level(t) > 0 /\ Level(u) > 0 => t = u

(* Threads that wait for the guard get somewhere: nobody waits for ever     *)
(* while nobody is inside, and reentry never makes a thread wait for itself.*)
Waiting == \E t \in Threads : pc[t] \in {"rlock", "open", "flock"}
GuardMovesOn == Waiting ~> (\E t \in Threads : pc[t] = "in") \/ ~Waiting
=============================================================================
