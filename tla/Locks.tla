------------------------------- MODULE Locks -------------------------------
(***************************************************************************)
(* redgear/locks.py: the run lock and the task leases, as lock files that  *)
(* several processes create, read and unlink.  Between the creation of a   *)
(* lock file and its text, between a read and the unlink decided on it, and *)
(* inside a held block, every other process may run and any may be killed. *)
(*                                                                         *)
(* A lock file is the token of the record it is for; a record that is not  *)
(* in the file yet cannot be read (read_lock_file returns None).  Clocks   *)
(* are reduced to the set of tokens whose expires_at has passed.           *)
(***************************************************************************)
EXTENDS Naturals

CONSTANTS
    Task, Run,      \* the leases, and the run lock
    Process,        \* the processes that take locks
    Reaper,         \* the processes that call reap_expired_leases
    Slow,           \* may a lease expire while its process is alive?
    MaxGrants, MaxKills   \* bounds on the exploration

ASSUME LocksAssumption ==
    /\ Run \notin Task
    /\ Process \cap Reaper = {}
    /\ Slow \in BOOLEAN
    /\ {MaxGrants, MaxKills} \subseteq Nat

Lock == Task \cup {Run}

Absent == 0     \* no lock file

VARIABLES
    file,       \* the token of each lock file, or Absent
    written,    \* tokens whose record is in the file
    expired,    \* tokens whose expires_at has passed
    granted,    \* tokens handed out so far
    pc, wants, token,       \* each process: where it is, its lock, its token
    rpc, now, left, found,  \* each reaper: where it is, the tokens expired at
                            \* its `now`, the files left, the lease it found
    logged,     \* tokens with a lease_expired event
    dead,       \* tokens of killed processes
    kills

processVars == <<pc, wants, token>>
reaperVars == <<rpc, now, left, found>>
vars == <<file, written, expired, granted, processVars, reaperVars, logged, dead, kills>>

Token == 1 .. MaxGrants

TypeOK ==
    /\ file \in [Lock -> Token \cup {Absent}]
    /\ granted \in 0 .. MaxGrants
    /\ {written, expired, logged, dead} \subseteq SUBSET (1 .. granted)
    /\ pc \in [Process -> {"idle", "created", "held", "leaving", "unlinking"}]
    /\ wants \in [Process -> Lock]
    /\ token \in [Process -> Token \cup {Absent}]
    /\ rpc \in [Reaper -> {"idle", "reading", "logging", "unlinking"}]
    /\ now \in [Reaper -> SUBSET Token]
    /\ left \in [Reaper -> SUBSET Task]
    /\ found \in [Reaper -> [task : Task, token : Token \cup {Absent}]]
    /\ kills \in 0 .. MaxKills

Init ==
    /\ file = [l \in Lock |-> Absent]
    /\ written = {} /\ expired = {} /\ granted = 0
    /\ pc = [p \in Process |-> "idle"]
    /\ wants = [p \in Process |-> Run]
    /\ token = [p \in Process |-> Absent]
    /\ rpc = [r \in Reaper |-> "idle"]
    /\ now = [r \in Reaper |-> {}]
    /\ left = [r \in Reaper |-> {}]
    /\ \E t \in Task : found = [r \in Reaper |-> [task |-> t, token |-> Absent]]
    /\ logged = {} /\ dead = {} /\ kills = 0

Goto(p, place) == pc' = [pc EXCEPT ![p] = place]

ReaperGoes(r, place) == rpc' = [rpc EXCEPT ![r] = place]

Unlink(l) == file' = [file EXCEPT ![l] = Absent]

(* read_lock_file: the token, or None for no file or no record in it. *)
ReadLock(l) == IF file[l] \in written THEN file[l] ELSE Absent

-----------------------------------------------------------------------------
(* _acquire, the block, release_task_lease and the finally of run_lock *)

(* Mutant: the lock file is opened without O_EXCL. *)
BrokenCreate(p, l) ==
    /\ pc[p] = "idle"
    /\ granted < MaxGrants
    /\ granted' = granted + 1
    /\ file' = [file EXCEPT ![l] = granted']
    /\ wants' = [wants EXCEPT ![p] = l]
    /\ token' = [token EXCEPT ![p] = granted']
    /\ Goto(p, "created")
    /\ UNCHANGED <<written, expired, reaperVars, logged, dead, kills>>

(* O_CREAT | O_EXCL; a file that is there means RunLockedError and no change. *)
Create(p, l) ==
    /\ pc[p] = "idle"
    /\ file[l] = Absent
    /\ granted < MaxGrants
    /\ granted' = granted + 1
    /\ file' = [file EXCEPT ![l] = granted']
    /\ wants' = [wants EXCEPT ![p] = l]
    /\ token' = [token EXCEPT ![p] = granted']
    /\ Goto(p, "created")
    /\ UNCHANGED <<written, expired, reaperVars, logged, dead, kills>>

(* The record is written and synced; the block begins. *)
WriteRecord(p) ==
    /\ pc[p] = "created"
    /\ written' = written \cup {token[p]}
    /\ Goto(p, "held")
    /\ UNCHANGED <<file, expired, granted, wants, token, reaperVars, logged, dead, kills>>

(* Mutant: a failed write leaves the lock file. *)
BrokenWriteFails(p) ==
    /\ pc[p] = "created"
    /\ Goto(p, "idle")
    /\ UNCHANGED <<file, written, expired, granted, wants, token, reaperVars, logged,
                   dead, kills>>

(* The write fails: whatever is at the path is unlinked. *)
WriteFails(p) ==
    /\ pc[p] = "created"
    /\ Unlink(wants[p])
    /\ Goto(p, "idle")
    /\ UNCHANGED <<written, expired, granted, wants, token, reaperVars, logged, dead, kills>>

(* The block ends, normally or with an exception. *)
LeaveBlock(p) ==
    /\ pc[p] = "held"
    /\ Goto(p, "leaving")
    /\ UNCHANGED <<file, written, expired, granted, wants, token, reaperVars, logged,
                   dead, kills>>

(* Mutant: the release does not compare the token it reads. *)
BrokenReadBack(p) ==
    /\ pc[p] = "leaving"
    /\ Goto(p, IF ReadLock(wants[p]) # Absent THEN "unlinking" ELSE "idle")
    /\ UNCHANGED <<file, written, expired, granted, wants, token, reaperVars, logged,
                   dead, kills>>

(* The record is read: only its own token lets the process go on to unlink.  *)
ReadBack(p) ==
    /\ pc[p] = "leaving"
    /\ Goto(p, IF ReadLock(wants[p]) = token[p] THEN "unlinking" ELSE "idle")
    /\ UNCHANGED <<file, written, expired, granted, wants, token, reaperVars, logged,
                   dead, kills>>

(* path.unlink(missing_ok=True), whatever the path holds by now. *)
ReleaseUnlinks(p) ==
    /\ pc[p] = "unlinking"
    /\ Unlink(wants[p])
    /\ Goto(p, "idle")
    /\ UNCHANGED <<written, expired, granted, wants, token, reaperVars, logged, dead, kills>>

-----------------------------------------------------------------------------
(* reap_expired_leases *)

(* `now` is given, and the lock files are listed. *)
ReapStarts(r) ==
    /\ rpc[r] = "idle"
    /\ now' = [now EXCEPT ![r] = expired]
    /\ left' = [left EXCEPT ![r] = {t \in Task : file[t] # Absent}]
    /\ left'[r] # {}
    /\ ReaperGoes(r, "reading")
    /\ UNCHANGED <<file, written, expired, granted, processVars, found, logged, dead, kills>>

(* Mutant: every readable lease is reaped, whatever its expiry. *)
BrokenReapReads(r) ==
    /\ rpc[r] = "reading"
    /\ \E t \in left[r] :
          /\ left' = [left EXCEPT ![r] = @ \ {t}]
          /\ \/ /\ ReadLock(t) # Absent
                /\ found' = [found EXCEPT ![r] = [task |-> t, token |-> ReadLock(t)]]
                /\ ReaperGoes(r, "logging")
             \/ /\ ReadLock(t) = Absent
                /\ ReaperGoes(r, IF left'[r] = {} THEN "idle" ELSE "reading")
                /\ UNCHANGED found
    /\ UNCHANGED <<file, written, expired, granted, processVars, now, logged, dead, kills>>

(* Mutant: a lease that cannot be read counts as expired. *)
CarelessReapReads(r) ==
    /\ rpc[r] = "reading"
    /\ \E t \in left[r] :
          /\ left' = [left EXCEPT ![r] = @ \ {t}]
          /\ ReadLock(t) \in now[r] \cup {Absent}
          /\ found' = [found EXCEPT ![r] = [task |-> t, token |-> ReadLock(t)]]
          /\ ReaperGoes(r, "logging")
    /\ UNCHANGED <<file, written, expired, granted, processVars, now, logged, dead, kills>>

(* The next file (the run lock is passed over): skipped when it cannot be  *)
(* read or was not expired at `now`.                                       *)
ReapReads(r) ==
    /\ rpc[r] = "reading"
    /\ \E t \in left[r] :
          /\ left' = [left EXCEPT ![r] = @ \ {t}]
          /\ \/ /\ ReadLock(t) \in now[r]
                /\ found' = [found EXCEPT ![r] = [task |-> t, token |-> ReadLock(t)]]
                /\ ReaperGoes(r, "logging")
             \/ /\ ReadLock(t) \notin now[r]
                /\ ReaperGoes(r, IF left'[r] = {} THEN "idle" ELSE "reading")
                /\ UNCHANGED found
    /\ UNCHANGED <<file, written, expired, granted, processVars, now, logged, dead, kills>>

(* lease_expired is appended. *)
ReapLogs(r) ==
    /\ rpc[r] = "logging"
    /\ logged' = logged \cup {found[r].token}
    /\ ReaperGoes(r, "unlinking")
    /\ UNCHANGED <<file, written, expired, granted, processVars, now, left, found, dead, kills>>

(* The append raises (its own lock, a corrupt log), and the call with it.  *)
ReapLogFails(r) ==
    /\ rpc[r] = "logging"
    /\ ReaperGoes(r, "idle")
    /\ UNCHANGED <<file, written, expired, granted, processVars, now, left, found, logged,
                   dead, kills>>

(* path.unlink(missing_ok=True), whatever the path holds by now. *)
ReapUnlinks(r) ==
    /\ rpc[r] = "unlinking"
    /\ Unlink(found[r].task)
    /\ ReaperGoes(r, IF left[r] = {} THEN "idle" ELSE "reading")
    /\ UNCHANGED <<written, expired, granted, processVars, now, left, found, logged, dead, kills>>

-----------------------------------------------------------------------------
(* Time and death (external) *)

Alive(t) == \E p \in Process : pc[p] # "idle" /\ token[p] = t

Expire(t) ==
    /\ t \in (1 .. granted) \ expired
    /\ Slow \/ ~Alive(t)
    /\ expired' = expired \cup {t}
    /\ UNCHANGED <<file, written, granted, processVars, reaperVars, logged, dead, kills>>

Kill(p) ==
    /\ pc[p] # "idle"
    /\ kills < MaxKills
    /\ kills' = kills + 1
    /\ dead' = dead \cup {token[p]}
    /\ Goto(p, "idle")
    /\ UNCHANGED <<file, written, expired, granted, wants, token, reaperVars, logged>>

KillReaper(r) ==
    /\ rpc[r] # "idle"
    /\ kills < MaxKills
    /\ kills' = kills + 1
    /\ ReaperGoes(r, "idle")
    /\ UNCHANGED <<file, written, expired, granted, processVars, now, left, found, logged, dead>>

-----------------------------------------------------------------------------

ProcessStep(p) ==
    \/ WriteRecord(p) \/ WriteFails(p)
    \/ LeaveBlock(p) \/ ReadBack(p) \/ ReleaseUnlinks(p)

ReaperStep(r) ==
    \/ ReapStarts(r) \/ ReapReads(r) \/ ReapLogs(r) \/ ReapLogFails(r) \/ ReapUnlinks(r)

Next ==
    \/ \E p \in Process : (\E l \in Lock : Create(p, l)) \/ ProcessStep(p) \/ Kill(p)
    \/ \E r \in Reaper : ReaperStep(r) \/ KillReaper(r)
    \/ \E t \in Token : Expire(t)

Spec == Init /\ [][Next]_vars

(* Processes keep running, clocks advance, and a reaper is called again and  *)
(* again: the most a deployment could do for a stranded lock.              *)
FairSpec ==
    /\ Spec
    /\ \A p \in Process : WF_vars(ProcessStep(p))
    /\ \A r \in Reaper : WF_vars(ReaperStep(r)) /\ SF_vars(ReapLogs(r))
    /\ \A t \in Token : WF_vars(Expire(t))

-----------------------------------------------------------------------------
(* Properties *)

Inside(p) == pc[p] \in {"held", "leaving", "unlinking"}

(* "Two loops dispatching into one working tree": never, whatever is killed, *)
(* reaped or late; the run lock is not taken from the process that holds it. *)
RunLockExclusive ==
    \A p, q \in Process :
        Inside(p) /\ Inside(q) /\ wants[p] = Run /\ wants[q] = Run => p = q

(* A lock file belongs to a process that is still at work or that was      *)
(* killed: one that fails or unwinds never strands its lock.               *)
UnwoundIsReleased ==
    \A l \in Lock :
        \/ file[l] = Absent
        \/ file[l] \in dead
        \/ Alive(file[l])

(* A holder whose file has gone to another leaves the block and its release *)
(* with every lock file as it was: the token check of release_task_lease.   *)
StaleLeaves(p) ==
    pc[p] \in {"held", "leaving"} /\ file[wants[p]] # token[p] /\ pc'[p] # pc[p]
        => pc'[p] \in {"leaving", "idle"} /\ UNCHANGED file

(* p is at work on one lock in both states, its lease in force. *)
Holds(p) ==
    /\ pc[p] # "idle" /\ pc'[p] # "idle"
    /\ token'[p] = token[p] /\ wants'[p] = wants[p]
    /\ token[p] \notin expired

(* q is about to unlink the file of p's lock, which held q's older token when *)
(* q created it or checked it.                                              *)
LateHolder(q, p) ==
    /\ pc[q] \in {"created", "unlinking"} /\ pc'[q] = "idle"
    /\ wants[q] = wants[p] /\ token[q] < token[p]

(* r is about to unlink the file of p's lease, which held an older, expired *)
(* token when r read it.                                                    *)
LateReaper(r, p) ==
    /\ rpc[r] = "unlinking" /\ rpc'[r] # "unlinking"
    /\ found[r].task = wants[p] /\ found[r].token < token[p]
    /\ found[r].token \in expired

(* A lease in force loses its file to nobody but one who was late: who had  *)
(* already decided to unlink when the file was its own, or an expired lease. *)
LostToTheLate(p) ==
    Holds(p) /\ file[wants[p]] = token[p] /\ file'[wants[p]] # token[p]
        => \/ \E q \in Process \ {p} : LateHolder(q, p)
           \/ \E r \in Reaper : LateReaper(r, p)

(* The expiry check and the token check leave one window open, between the *)
(* check and the unlink; nothing else takes a lock file from its holder.   *)
LeasesAreLostToRacesOnly ==
    [][\A p \in Process : StaleLeaves(p) /\ LostToTheLate(p)]_vars

-----------------------------------------------------------------------------
(* What the repository says and the code does not keep.                    *)

(* A lease in force keeps its file, so that nobody else can be granted the *)
(* task: a late holder (Slow = TRUE) or a second reaper, between its check *)
(* and its unlink, refutes it.                                             *)
LiveLeaseStands ==
    \A p \in Process :
        pc[p] \in {"created", "held", "leaving"} /\ token[p] \notin expired
            => file[wants[p]] = token[p]

(* A process that goes on to unlink finds its own file or none: the token  *)
(* check keeps a stale holder from deleting its successor's lock.  A late  *)
(* holder (Slow = TRUE) refutes it.                                        *)
ReleasesItsOwn ==
    \A p \in Process :
        pc[p] = "unlinking" => file[wants[p]] \in {token[p], Absent}

(* A lease whose process died is reaped in the end, and the task can be    *)
(* claimed again: a process that dies before it writes the record refutes  *)
(* it (FairSpec, one process, one kill).                                   *)
DeadLeaseIsReaped ==
    \A t \in Task : \A k \in Token : (file[t] = k /\ k \in dead) ~> (file[t] # k)

(* The run lock of a process that was killed is reaped in the end: the     *)
(* reaper passes over it, which refutes it (FairSpec, one process, one kill). *)
DeadRunLockIsReaped ==
    \A k \in Token : (file[Run] = k /\ k \in dead) ~> (file[Run] # k)
=============================================================================
