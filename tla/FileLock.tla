------------------------------ MODULE FileLock ------------------------------
(***************************************************************************)
(* The named cross-process lock of src/distill-lock.ts and src/flock.ts,   *)
(* one system call per step: open-or-create the lock file, a non-blocking  *)
(* flock on the descriptor, the check that the path still names the locked *)
(* inode, the check for a holder of a pre-flock version, and the release   *)
(* that unlinks the file before it drops the flock.                        *)
(*                                                                         *)
(* A call is one withLock(key, ...) in flight.  Several calls share a      *)
(* process (the MCP server's event loop): they share its heldLocks map,    *)
(* and the synchronous body of acquireLock and of releaseLock runs without *)
(* another call of the same process in between.  Calls of different        *)
(* processes interleave between any two system calls, and a process may be *)
(* killed between any two.                                                 *)
(*                                                                         *)
(* Inode numbers are reused as a file system reuses them: as soon as       *)
(* nothing names the inode and no descriptor is open on it.                *)
(***************************************************************************)
EXTENDS Naturals

CONSTANTS
    Calls,          \* withLock calls on one key, of every process
    Procs,          \* operating-system processes
    Host,           \* the process of each call
    Inodes,         \* inode numbers
    MaxAttempts,    \* attempts of one acquireLock (5 in the code)
    MaxCrashes,     \* bound: kills in a behaviour
    NoCall,
    NoInode

ASSUME HostAssumption == Host \in [Calls -> Procs]
ASSUME AttemptsAssumption == MaxAttempts \in Nat \ {0}
ASSUME CrashesAssumption == MaxCrashes \in Nat
ASSUME NullAssumption == NoCall \notin Calls /\ NoInode \notin Inodes

VARIABLES
    path,           \* the inode the lock path names, NoInode when there is no file
    body,           \* what the file of an inode holds
    flocked,        \* the call whose descriptor has the kernel lock on an inode
    legacyAlive,    \* the pid named by a pre-flock body is a live process
    heldLocks,      \* per process: the inode recorded in its heldLocks map
    fd,             \* per call: the inode its descriptor is open on
    pc,             \* per call: the system call it is about to make
    attempt,        \* per call: attempts used by the current acquireLock
    onBusy,         \* per call: what to do when the lock is busy
    crashes

vars == <<path, body, flocked, legacyAlive, heldLocks, fd, pc, attempt, onBusy, crashes>>

\* A call is parked at an await in these places; anywhere else it is inside
\* the synchronous body of acquireLock or releaseLock.
Parked == {"idle", "waiting", "held"}
Acquiring == {"open", "flock", "stat", "readBody", "truncate", "write"}
Releasing == {"statOwn", "unlink", "close"}

\* Places where the call's descriptor has the kernel lock.
Locked == {"stat", "readBody", "truncate", "write", "held"} \cup Releasing
\* ... and the path was seen to name the locked inode, and still does.
Verified == {"readBody", "truncate", "write", "held", "statOwn", "unlink"}

EventLoopFree(c) ==
    \A d \in Calls : Host[d] = Host[c] /\ d # c => pc[d] \in Parked

FreeInodes == {i \in Inodes : i # path /\ \A c \in Calls : fd[c] # i}

Goto(c, place) == pc' = [pc EXCEPT ![c] = place]

\* Closing the descriptor drops its kernel lock.
CloseDescriptor(c) ==
    /\ fd' = [fd EXCEPT ![c] = NoInode]
    /\ flocked' = [i \in Inodes |-> IF flocked[i] = c THEN NoCall ELSE flocked[i]]

WhenBusy(c) == IF onBusy[c] = "wait" THEN "waiting" ELSE "idle"

-----------------------------------------------------------------------------
\* The lock file a behaviour starts from: none, one left by a killed holder
\* (a whole body, or an empty one), or one of a pre-flock version whose pid
\* is alive or gone.
Init ==
    /\ path \in Inodes \cup {NoInode}
    /\ body \in [Inodes -> {"empty", "flock", "legacy"}]
    /\ \A i \in Inodes : i # path => body[i] = "empty"
    /\ legacyAlive \in BOOLEAN
    /\ legacyAlive => path # NoInode /\ body[path] = "legacy"
    /\ flocked = [i \in Inodes |-> NoCall]
    /\ heldLocks = [p \in Procs |-> NoInode]
    /\ fd = [c \in Calls |-> NoInode]
    /\ pc = [c \in Calls |-> "idle"]
    /\ attempt = [c \in Calls |-> 0]
    /\ onBusy = [c \in Calls |-> "skip"]
    /\ crashes = 0

\* acquireLock's entry: an entry in heldLocks means busy without a system call.
EnterAcquire(c) ==
    /\ attempt' = [attempt EXCEPT ![c] = 0]
    /\ IF heldLocks[Host[c]] # NoInode
       THEN pc' = [pc EXCEPT ![c] = IF onBusy'[c] = "wait" THEN "waiting" ELSE "idle"]
       ELSE Goto(c, "open")
    /\ UNCHANGED <<path, body, flocked, legacyAlive, heldLocks, fd, crashes>>

\* withLock is called.
Start(c, mode) ==
    /\ pc[c] = "idle"
    /\ EventLoopFree(c)
    /\ onBusy' = [onBusy EXCEPT ![c] = mode]
    /\ EnterAcquire(c)

\* The wait loop's sleep is over and its deadline is not.
Poll(c) ==
    /\ pc[c] = "waiting"
    /\ EventLoopFree(c)
    /\ UNCHANGED onBusy
    /\ EnterAcquire(c)

\* The wait budget is used up: LockTimeoutError.
GiveUp(c) ==
    /\ pc[c] = "waiting"
    /\ EventLoopFree(c)
    /\ Goto(c, "idle")
    /\ UNCHANGED <<path, body, flocked, legacyAlive, heldLocks, fd, attempt, onBusy, crashes>>

-----------------------------------------------------------------------------
\* open(path, O_RDWR | O_CREAT)
OpenLockFile(c) ==
    /\ pc[c] = "open"
    /\ \/ /\ path # NoInode
          /\ fd' = [fd EXCEPT ![c] = path]
          /\ UNCHANGED <<path, body>>
       \/ /\ path = NoInode
          /\ \E i \in FreeInodes :
                /\ path' = i
                /\ body' = [body EXCEPT ![i] = "empty"]
                /\ fd' = [fd EXCEPT ![c] = i]
    /\ Goto(c, "flock")
    /\ UNCHANGED <<flocked, legacyAlive, heldLocks, attempt, onBusy, crashes>>

\* flock(fd, LOCK_EX | LOCK_NB)
TryLockExclusive(c) ==
    /\ pc[c] = "flock"
    /\ \/ /\ flocked[fd[c]] = NoCall
          /\ flocked' = [flocked EXCEPT ![fd[c]] = c]
          /\ Goto(c, "stat")
          /\ UNCHANGED fd
       \/ /\ flocked[fd[c]] # NoCall
          /\ CloseDescriptor(c)
          /\ Goto(c, WhenBusy(c))
    /\ UNCHANGED <<path, body, legacyAlive, heldLocks, attempt, onBusy, crashes>>

\* Fault: the inode check is left out.
CheckInodeMissing(c) ==
    /\ pc[c] = "stat"
    /\ Goto(c, "readBody")
    /\ UNCHANGED <<path, body, flocked, legacyAlive, heldLocks, fd, attempt, onBusy, crashes>>

\* stat(path): is it still the inode we locked?  If not, start over.
CheckInode(c) ==
    /\ pc[c] = "stat"
    /\ \/ /\ path = fd[c]
          /\ Goto(c, "readBody")
          /\ UNCHANGED <<fd, flocked, attempt>>
       \/ /\ path # fd[c]
          /\ CloseDescriptor(c)
          /\ attempt' = [attempt EXCEPT ![c] = @ + 1]
          /\ Goto(c, IF attempt[c] + 1 < MaxAttempts THEN "open" ELSE WhenBusy(c))
    /\ UNCHANGED <<path, body, legacyAlive, heldLocks, onBusy, crashes>>

\* Fault: whoever has the kernel lock takes the file over.
CheckLegacyHolderIgnored(c) ==
    /\ pc[c] = "readBody"
    /\ Goto(c, "truncate")
    /\ UNCHANGED <<path, body, flocked, legacyAlive, heldLocks, fd, attempt, onBusy, crashes>>

\* Fault: the descriptor of a refused acquire stays open.
CheckLegacyHolderLeaks(c) ==
    /\ pc[c] = "readBody"
    /\ Goto(c, IF body[fd[c]] = "legacy" THEN WhenBusy(c) ELSE "truncate")
    /\ UNCHANGED <<path, body, flocked, legacyAlive, heldLocks, fd, attempt, onBusy, crashes>>

\* heldByLegacyProcess: a pre-flock body that names a live pid is a holder.
CheckLegacyHolder(c) ==
    /\ pc[c] = "readBody"
    /\ \/ /\ body[fd[c]] = "legacy" /\ legacyAlive
          /\ CloseDescriptor(c)
          /\ Goto(c, WhenBusy(c))
       \/ /\ ~(body[fd[c]] = "legacy" /\ legacyAlive)
          /\ Goto(c, "truncate")
          /\ UNCHANGED <<fd, flocked>>
    /\ UNCHANGED <<path, body, legacyAlive, heldLocks, attempt, onBusy, crashes>>

\* ftruncate(fd, 0)
TruncateBody(c) ==
    /\ pc[c] = "truncate"
    /\ body' = [body EXCEPT ![fd[c]] = "empty"]
    /\ Goto(c, "write")
    /\ UNCHANGED <<path, flocked, legacyAlive, heldLocks, fd, attempt, onBusy, crashes>>

\* write(fd, body), and the entry in heldLocks: the caller's fn starts.
WriteBody(c) ==
    /\ pc[c] = "write"
    /\ body' = [body EXCEPT ![fd[c]] = "flock"]
    /\ heldLocks' = [heldLocks EXCEPT ![Host[c]] = fd[c]]
    /\ Goto(c, "held")
    /\ UNCHANGED <<path, flocked, legacyAlive, fd, attempt, onBusy, crashes>>

AcquireStep(c) ==
    \/ OpenLockFile(c)
    \/ TryLockExclusive(c)
    \/ CheckInode(c)
    \/ CheckLegacyHolder(c)
    \/ TruncateBody(c)
    \/ WriteBody(c)

-----------------------------------------------------------------------------
\* fn returned or threw: releaseLock.  A holder past its max hold is warned
\* about and its signal aborted, and nothing of this state changes.
Finish(c) ==
    /\ pc[c] = "held"
    /\ EventLoopFree(c)
    /\ Goto(c, "statOwn")
    /\ UNCHANGED <<path, body, flocked, legacyAlive, heldLocks, fd, attempt, onBusy, crashes>>

\* heldLocks.delete(path), then stat(path) against the recorded inode.
StatOwn(c) ==
    /\ pc[c] = "statOwn"
    /\ heldLocks' = [heldLocks EXCEPT ![Host[c]] = NoInode]
    /\ Goto(c, IF path = heldLocks[Host[c]] THEN "unlink" ELSE "close")
    /\ UNCHANGED <<path, body, flocked, legacyAlive, fd, attempt, onBusy, crashes>>

\* unlink(path), still under the kernel lock.
UnlinkOwn(c) ==
    /\ pc[c] = "unlink"
    /\ path' = NoInode
    /\ Goto(c, "close")
    /\ UNCHANGED <<body, flocked, legacyAlive, heldLocks, fd, attempt, onBusy, crashes>>

\* flock(LOCK_UN) and close.
CloseOwn(c) ==
    /\ pc[c] = "close"
    /\ CloseDescriptor(c)
    /\ Goto(c, "idle")
    /\ UNCHANGED <<path, body, legacyAlive, heldLocks, attempt, onBusy, crashes>>

ReleaseStep(c) == StatOwn(c) \/ UnlinkOwn(c) \/ CloseOwn(c)

-----------------------------------------------------------------------------
\* SIGKILL: the kernel closes every descriptor of the process.
Crash(p) ==
    /\ crashes < MaxCrashes
    /\ crashes' = crashes + 1
    /\ pc' = [c \in Calls |-> IF Host[c] = p THEN "idle" ELSE pc[c]]
    /\ fd' = [c \in Calls |-> IF Host[c] = p THEN NoInode ELSE fd[c]]
    /\ attempt' = [c \in Calls |-> IF Host[c] = p THEN 0 ELSE attempt[c]]
    /\ flocked' = [i \in Inodes |->
                     IF flocked[i] \in Calls /\ Host[flocked[i]] = p
                     THEN NoCall ELSE flocked[i]]
    /\ heldLocks' = [heldLocks EXCEPT ![p] = NoInode]
    /\ UNCHANGED <<path, body, legacyAlive, onBusy>>

\* The pre-flock process is killed and leaves its file behind.
LegacyExit ==
    /\ legacyAlive
    /\ legacyAlive' = FALSE
    /\ UNCHANGED <<path, body, flocked, heldLocks, fd, pc, attempt, onBusy, crashes>>

Next ==
    \/ \E c \in Calls :
          \/ \E mode \in {"skip", "wait"} : Start(c, mode)
          \/ Poll(c)
          \/ GiveUp(c)
          \/ AcquireStep(c)
          \/ Finish(c)
          \/ ReleaseStep(c)
    \/ \E p \in Procs : Crash(p)
    \/ LegacyExit

Spec == Init /\ [][Next]_vars

\* A process that is not killed keeps running: a sleep ends and a system call
\* returns.  Nothing says that fn ends, that a call is ever made, or that a
\* waiter gives up.
FairSpec ==
    /\ Spec
    /\ \A c \in Calls : WF_vars(Poll(c)) /\ WF_vars(AcquireStep(c)) /\ WF_vars(ReleaseStep(c))

-----------------------------------------------------------------------------
TypeOK ==
    /\ path \in Inodes \cup {NoInode}
    /\ body \in [Inodes -> {"empty", "flock", "legacy"}]
    /\ flocked \in [Inodes -> Calls \cup {NoCall}]
    /\ legacyAlive \in BOOLEAN
    /\ heldLocks \in [Procs -> Inodes \cup {NoInode}]
    /\ fd \in [Calls -> Inodes \cup {NoInode}]
    /\ pc \in [Calls -> Parked \cup Acquiring \cup Releasing]
    /\ attempt \in [Calls -> 0..MaxAttempts]
    /\ onBusy \in [Calls -> {"skip", "wait"}]
    /\ crashes \in 0..MaxCrashes

Inside(c) == pc[c] = "held"

\* Two calls never run their fn under the same lock at once, whatever is
\* killed and however often the file is unlinked and created again.
MutualExclusion == \A c, d \in Calls : Inside(c) /\ Inside(d) => c = d

\* While a call is inside, the path names the very inode it has locked, so
\* every later arrival meets that kernel lock and not a fresh file.
HolderOwnsPath == \A c \in Calls : Inside(c) => path = fd[c] /\ flocked[path] = c

\* A lock file of a live pre-flock process is never taken over.
LegacyHolderExcludes == legacyAlive => \A c \in Calls : ~Inside(c)

\* releaseLock removes only its own file: the call that unlinks has the kernel
\* lock on exactly the file that disappears.
UnlinksOnlyItsOwn ==
    [][path # NoInode /\ path' # path =>
         \E c \in Calls : pc[c] = "unlink" /\ flocked[path] = c]_vars

\* A killed holder, a file left behind or a lost race never wedges the lock:
\* whenever calls wait and no live pre-flock process is in the way, some call
\* gets in, or nobody waits any more.
SomeoneGetsIn ==
    (~legacyAlive /\ \E c \in Calls : pc[c] = "waiting")
        ~> ((\E c \in Calls : Inside(c)) \/ \A c \in Calls : pc[c] # "waiting")

-----------------------------------------------------------------------------
\* The abstract lock: its holder is the call whose fn is running.
InsideCalls == {c \in Calls : Inside(c)}
HolderOf(S) == IF S = {} THEN NoCall ELSE CHOOSE c \in S : TRUE
holderBar == HolderOf(InsideCalls)

Lock == INSTANCE Mutex WITH holder <- holderBar

\* The lock file protocol implements the abstract lock.
ImplementsMutex == Lock!Spec
=============================================================================
