---------------------------- MODULE LocksProofs ----------------------------
(***************************************************************************)
(* The run lock is exclusive, an unwinding process leaves no lock file and *)
(* a lease in force is lost to a late unlink only, for any processes,      *)
(* reapers, leases, clocks and kills.                                      *)
(***************************************************************************)
EXTENDS Locks, TLAPS

Busy(p) == pc[p] # "idle"

(* Tokens are granted once. *)
TokensAreUnique ==
    /\ \A p \in Process : token[p] <= granted
    /\ \A l \in Lock : file[l] <= granted
    /\ \A p \in Process : Busy(p) => token[p] # Absent
    /\ \A p, q \in Process : Busy(p) /\ Busy(q) /\ token[p] = token[q] => p = q

(* A live process' token is in no file but the one it asked for. *)
OwnFileOnly ==
    \A p \in Process : \A l \in Lock : Busy(p) /\ file[l] = token[p] => l = wants[p]

RecordIsWritten == \A p \in Process : Inside(p) => token[p] \in written

(* Nobody takes the run lock's file from the process that made it. *)
RunFileStands == \A p \in Process : Busy(p) /\ wants[p] = Run => file[Run] = token[p]

(* A reaper logs a token it read from a file. *)
FoundIsGranted == \A r \in Reaper : rpc[r] = "logging" => found[r].token \in 1 .. granted

LockInv ==
    /\ TypeOK
    /\ FoundIsGranted
    /\ TokensAreUnique
    /\ OwnFileOnly
    /\ RecordIsWritten
    /\ RunFileStands
    /\ UnwoundIsReleased

LEMMA LockInit == Init => LockInv
<1> SUFFICES ASSUME Init PROVE LockInv
  OBVIOUS
<1>1. TypeOK
  BY LocksAssumption DEF Init, TypeOK, Lock, Token, Absent
<1> QED
  BY <1>1 DEF Init, LockInv, FoundIsGranted, TokensAreUnique, OwnFileOnly, RecordIsWritten, RunFileStands,
              UnwoundIsReleased, Busy, Inside, Absent, Lock

(* Steps that only end with p idle, its file gone. *)
LEMMA UnlinkStep ==
    ASSUME LockInv, NEW p \in Process, WriteFails(p) \/ ReleaseUnlinks(p)
    PROVE  LockInv'
<1>typ. TypeOK /\ wants[p] \in Lock
  BY DEF LockInv, TypeOK
<1>1. /\ file' = [file EXCEPT ![wants[p]] = Absent]
      /\ pc' = [pc EXCEPT ![p] = "idle"]
      /\ UNCHANGED <<written, expired, granted, wants, token, reaperVars, logged, dead, kills>>
      /\ Busy(p)
  BY DEF WriteFails, ReleaseUnlinks, Unlink, Goto, Busy
<1>2. TypeOK'
  BY <1>typ, <1>1 DEF TypeOK, reaperVars, Token, Absent
<1>3. TokensAreUnique' /\ OwnFileOnly' /\ RecordIsWritten' /\ FoundIsGranted'
  BY <1>typ, <1>1 DEF LockInv, FoundIsGranted, reaperVars, TypeOK, TokensAreUnique, OwnFileOnly, RecordIsWritten, Busy,
                      Inside, Absent, Token
<1>4. RunFileStands'
  <2> SUFFICES ASSUME NEW q \in Process, Busy(q)', wants'[q] = Run PROVE file'[Run] = token'[q]
    BY DEF RunFileStands
  <2>1. q # p /\ Busy(q) /\ wants[q] = Run
    BY <1>typ, <1>1 DEF Busy, TypeOK
  <2>2. wants[p] # Run
    BY <1>1, <2>1 DEF LockInv, RunFileStands, TokensAreUnique
  <2> QED BY <1>typ, <1>1, <2>1, <2>2 DEF LockInv, RunFileStands, TypeOK, Lock
<1>5. UnwoundIsReleased'
  <2> SUFFICES ASSUME NEW l \in Lock, file'[l] # Absent, file'[l] \notin dead'
               PROVE  \E q \in Process : pc'[q] # "idle" /\ token'[q] = file'[l]
    BY DEF UnwoundIsReleased, Alive
  <2>1. file'[l] = file[l] /\ l # wants[p]
    BY <1>typ, <1>1 DEF TypeOK
  <2>2. PICK q \in Process : Busy(q) /\ token[q] = file[l]
    BY <1>1, <2>1 DEF LockInv, UnwoundIsReleased, Alive, Busy
  <2>3. q # p
    BY <1>1, <2>1, <2>2 DEF LockInv, OwnFileOnly
  <2> QED BY <1>typ, <1>1, <2>1, <2>2, <2>3 DEF Busy, TypeOK
<1> QED BY <1>2, <1>3, <1>4, <1>5 DEF LockInv

(* Steps of p that touch no file and keep it busy, or let it go for a reason. *)
LEMMA MoveStep ==
    ASSUME LockInv, NEW p \in Process, Busy(p),
           UNCHANGED <<file, granted, wants, token, reaperVars>>,
           TypeOK',
           written \subseteq written', dead \subseteq dead',
           \A q \in Process \ {p} : pc'[q] = pc[q],
           Inside(p)' => token[p] \in written',
           \/ Busy(p)'
           \/ token[p] \in dead'
           \/ file[wants[p]] # token[p]
    PROVE  LockInv'
<1>1. TokensAreUnique' /\ OwnFileOnly' /\ RunFileStands'
  BY DEF LockInv, TokensAreUnique, OwnFileOnly, RunFileStands, Busy
<1>2. FoundIsGranted'
  BY DEF LockInv, FoundIsGranted, reaperVars
<1>3. RecordIsWritten'
  BY DEF LockInv, RecordIsWritten, Inside
<1>4. UnwoundIsReleased'
  <2> SUFFICES ASSUME NEW l \in Lock, file[l] # Absent, file[l] \notin dead'
               PROVE  \E q \in Process : pc'[q] # "idle" /\ token'[q] = file'[l]
    BY DEF UnwoundIsReleased, Alive
  <2>1. PICK q \in Process : Busy(q) /\ token[q] = file[l]
    BY DEF LockInv, UnwoundIsReleased, Alive, Busy
  <2>2. Busy(q)'
    BY <2>1 DEF LockInv, OwnFileOnly, Busy
  <2> QED BY <2>1, <2>2 DEF Busy
<1> QED BY <1>1, <1>2, <1>3, <1>4 DEF LockInv

(* Steps of the reapers: they may unlink a lease's file, never the run lock's. *)
LEMMA ReaperFileStep ==
    ASSUME LockInv, TypeOK', FoundIsGranted', UNCHANGED <<written, granted, pc, wants, token, dead>>,
           \/ file' = file
           \/ \E t \in Task : file' = [file EXCEPT ![t] = Absent]
    PROVE  LockInv'
<1>typ. TypeOK
  BY DEF LockInv
<1>1. \A l \in Lock : file'[l] = file[l] \/ file'[l] = Absent
  BY <1>typ DEF TypeOK
<1>2. file'[Run] = file[Run]
  BY <1>typ, LocksAssumption DEF TypeOK, Lock
<1>3. TokensAreUnique' /\ OwnFileOnly' /\ RecordIsWritten' /\ RunFileStands'
  BY <1>1, <1>2, <1>typ DEF LockInv, TypeOK, TokensAreUnique, OwnFileOnly, RecordIsWritten,
                            RunFileStands, Busy, Inside, Absent
<1>4. UnwoundIsReleased'
  BY <1>1 DEF LockInv, UnwoundIsReleased, Alive
<1> QED BY <1>3, <1>4 DEF LockInv

LEMMA LockStep == LockInv /\ [Next]_vars => LockInv'
<1> SUFFICES ASSUME LockInv, [Next]_vars PROVE LockInv'
  OBVIOUS
<1>typ. TypeOK /\ granted \in Nat /\ MaxGrants \in Nat /\ MaxKills \in Nat
  BY LocksAssumption DEF LockInv, TypeOK
<1>0. CASE UNCHANGED vars
  BY <1>0 DEF vars, processVars, reaperVars, LockInv, TypeOK, TokensAreUnique, OwnFileOnly,
              RecordIsWritten, RunFileStands, UnwoundIsReleased, FoundIsGranted, Alive,
              Busy, Inside
<1>1. ASSUME NEW p \in Process, NEW l \in Lock, Create(p, l) PROVE LockInv'
  <2>1. /\ granted' = granted + 1 /\ granted' \in Token /\ file[l] = Absent
        /\ file' = [file EXCEPT ![l] = granted']
        /\ wants' = [wants EXCEPT ![p] = l] /\ token' = [token EXCEPT ![p] = granted']
        /\ pc' = [pc EXCEPT ![p] = "created"] /\ ~Busy(p)
        /\ UNCHANGED <<written, expired, reaperVars, logged, dead, kills>>
    BY <1>1, <1>typ DEF Create, Goto, Token, Busy
  <2>2. TypeOK'
    BY <1>typ, <2>1 DEF TypeOK, reaperVars, Token
  <2>3. /\ \A q \in Process : token[q] # granted'
        /\ \A k \in Lock : file[k] # granted'
        /\ granted' # Absent
    BY <1>typ, <2>1 DEF LockInv, TokensAreUnique, TypeOK, Token, Absent
  <2>4. TokensAreUnique'
    BY <1>typ, <2>1, <2>3 DEF LockInv, TokensAreUnique, TypeOK, Busy, Token, Absent
  <2>5. OwnFileOnly' /\ RecordIsWritten'
    BY <1>typ, <2>1, <2>3 DEF LockInv, OwnFileOnly, RecordIsWritten, TypeOK, Busy, Inside
  <2>6. RunFileStands'
    BY <1>typ, <2>1 DEF LockInv, RunFileStands, TokensAreUnique, TypeOK, Busy, Lock
  <2>7. UnwoundIsReleased'
    BY <1>typ, <2>1 DEF LockInv, UnwoundIsReleased, Alive, TypeOK, Busy
  <2>8. FoundIsGranted'
    BY <1>typ, <2>1 DEF LockInv, FoundIsGranted, reaperVars
  <2> QED BY <2>2, <2>4, <2>5, <2>6, <2>7, <2>8 DEF LockInv
<1>2. ASSUME NEW p \in Process, WriteRecord(p) PROVE LockInv'
  <2>1. TypeOK' /\ pc'[p] = "held" /\ pc[p] = "created"
    BY <1>2, <1>typ DEF WriteRecord, Goto, TypeOK, LockInv, TokensAreUnique, Busy, reaperVars,
                        Token, Absent
  <2> QED BY <1>2, <1>typ, <2>1, MoveStep DEF WriteRecord, Goto, TypeOK, Busy, Inside
<1>3. ASSUME NEW p \in Process, LeaveBlock(p) PROVE LockInv'
  <2>1. TypeOK' /\ pc'[p] = "leaving" /\ pc[p] = "held"
    BY <1>3, <1>typ DEF LeaveBlock, Goto, TypeOK, reaperVars
  <2> QED BY <1>3, <1>typ, <2>1, MoveStep
          DEF LeaveBlock, Goto, TypeOK, Busy, Inside, LockInv, RecordIsWritten
<1>4. ASSUME NEW p \in Process, ReadBack(p) PROVE LockInv'
  <2>1. TypeOK' /\ pc'[p] \in {"unlinking", "idle"} /\ pc[p] = "leaving"
    BY <1>4, <1>typ DEF ReadBack, Goto, TypeOK, reaperVars
  <2>2. token[p] \in written
    BY <2>1 DEF LockInv, RecordIsWritten, Inside
  <2>3. pc'[p] = "idle" => file[wants[p]] # token[p]
    BY <1>4, <1>typ, <2>2 DEF ReadBack, ReadLock, Goto, TypeOK
  <2> QED BY <1>4, <1>typ, <2>1, <2>2, <2>3, MoveStep
          DEF ReadBack, Goto, TypeOK, Busy, Inside
<1>5. ASSUME NEW p \in Process, Kill(p) PROVE LockInv'
  <2>1. /\ TypeOK' /\ pc'[p] = "idle" /\ Busy(p) /\ token[p] \in dead'
        /\ dead \subseteq dead'
    BY <1>5, <1>typ DEF Kill, Goto, TypeOK, LockInv, TokensAreUnique, Busy, reaperVars,
                        Token, Absent
  <2> QED BY <1>5, <1>typ, <2>1, MoveStep DEF Kill, Goto, TypeOK, Busy, Inside
<1>6. ASSUME NEW p \in Process, WriteFails(p) \/ ReleaseUnlinks(p) PROVE LockInv'
  BY <1>6, UnlinkStep
<1>7. ASSUME NEW r \in Reaper, ReaperStep(r) \/ KillReaper(r) PROVE LockInv'
  <2>1. CASE ReapStarts(r)
    <3>1. TypeOK'
      BY <2>1, <1>typ DEF ReapStarts, ReaperGoes, TypeOK, processVars, Token
    <3>2. FoundIsGranted'
      BY <2>1, <1>typ DEF ReapStarts, ReaperGoes, TypeOK, LockInv, FoundIsGranted
    <3> QED BY <2>1, <3>1, <3>2, ReaperFileStep DEF ReapStarts, processVars
  <2>2. CASE ReapReads(r)
    <3>a. PICK t \in left[r] :
             /\ left' = [left EXCEPT ![r] = left[r] \ {t}]
             /\ \/ /\ found' = [found EXCEPT ![r] = [task |-> t, token |-> ReadLock(t)]]
                   /\ rpc' = [rpc EXCEPT ![r] = "logging"]
                \/ /\ found' = found
                   /\ rpc' = [rpc EXCEPT ![r] = IF left'[r] = {} THEN "idle" ELSE "reading"]
      BY <2>2 DEF ReapReads, ReaperGoes
    <3>b. t \in Task /\ ReadLock(t) \in Token \cup {Absent}
      BY <1>typ DEF TypeOK, ReadLock, Lock, Token, Absent
    <3>c. left' \in [Reaper -> SUBSET Task]
      BY <3>a, <1>typ DEF TypeOK
    <3>d. found' \in [Reaper -> [task : Task, token : Token \cup {Absent}]]
      BY <3>a, <3>b, <1>typ DEF TypeOK
    <3>e. rpc' \in [Reaper -> {"idle", "reading", "logging", "unlinking"}]
      BY <3>a, <1>typ DEF TypeOK
    <3>1. TypeOK'
      BY <2>2, <1>typ, <3>c, <3>d, <3>e DEF ReapReads, TypeOK, processVars
    <3>2. \A u \in Task : ReadLock(u) \in now[r] => ReadLock(u) \in 1 .. granted
      BY <1>typ DEF ReadLock, TypeOK, LockInv, TokensAreUnique, Token, Absent, Lock
    <3>3. FoundIsGranted'
      BY <2>2, <3>2, <1>typ DEF ReapReads, ReaperGoes, TypeOK, LockInv, FoundIsGranted
    <3> QED BY <2>2, <3>1, <3>3, ReaperFileStep DEF ReapReads, processVars
  <2>3. CASE ReapLogs(r)
    <3>1. TypeOK'
      BY <2>3, <1>typ DEF ReapLogs, ReaperGoes, TypeOK, processVars, LockInv, FoundIsGranted
    <3>2. FoundIsGranted'
      BY <2>3, <1>typ DEF ReapLogs, ReaperGoes, TypeOK, LockInv, FoundIsGranted
    <3> QED BY <2>3, <3>1, <3>2, ReaperFileStep DEF ReapLogs, processVars
  <2>4. CASE ReapLogFails(r) \/ KillReaper(r)
    <3>1. /\ rpc' = [rpc EXCEPT ![r] = "idle"] /\ kills' \in 0 .. MaxKills
          /\ UNCHANGED <<file, written, expired, granted, processVars, now, left, found,
                        logged, dead>>
      BY <2>4, <1>typ DEF ReapLogFails, KillReaper, ReaperGoes, TypeOK
    <3>2. rpc' \in [Reaper -> {"idle", "reading", "logging", "unlinking"}]
      BY <3>1, <1>typ DEF TypeOK
    <3>3. TypeOK'
      BY <3>1, <3>2, <1>typ DEF TypeOK, processVars
    <3>4. FoundIsGranted'
      BY <3>1, <1>typ DEF TypeOK, LockInv, FoundIsGranted
    <3> QED BY <3>1, <3>3, <3>4, ReaperFileStep DEF processVars
  <2>5. CASE ReapUnlinks(r)
    <3>1. found[r].task \in Task
      BY <1>typ DEF TypeOK
    <3>2. TypeOK'
      BY <2>5, <3>1, <1>typ DEF ReapUnlinks, Unlink, ReaperGoes, TypeOK, processVars, Absent
    <3>3. FoundIsGranted'
      BY <2>5, <1>typ DEF ReapUnlinks, ReaperGoes, TypeOK, LockInv, FoundIsGranted
    <3> QED BY <2>5, <3>1, <3>2, <3>3, ReaperFileStep DEF ReapUnlinks, Unlink, processVars
  <2> QED BY <1>7, <2>1, <2>2, <2>3, <2>4, <2>5 DEF ReaperStep
<1>8. ASSUME NEW t \in Token, Expire(t) PROVE LockInv'
  <2>1. TypeOK'
    BY <1>8, <1>typ DEF Expire, TypeOK, processVars, reaperVars
  <2>2. FoundIsGranted'
    BY <1>8 DEF Expire, LockInv, FoundIsGranted, reaperVars
  <2> QED BY <1>8, <2>1, <2>2, ReaperFileStep DEF Expire, processVars
<1> QED
  BY <1>0, <1>1, <1>2, <1>3, <1>4, <1>5, <1>6, <1>7, <1>8 DEF Next, ProcessStep

LEMMA LockInvariant == Spec => []LockInv
BY LockInit, LockStep, PTL DEF Spec

(* At most one process is inside the run lock's block. *)
THEOREM RunLockIsExclusive == Spec => []RunLockExclusive
<1>1. LockInv => RunLockExclusive
  BY DEF LockInv, RunFileStands, TokensAreUnique, RunLockExclusive, Inside, Busy
<1> QED BY <1>1, LockInvariant, PTL

(* Only a killed process leaves its lock file behind. *)
THEOREM UnwindingReleases == Spec => []UnwoundIsReleased
<1>1. LockInv => UnwoundIsReleased
  BY DEF LockInv
<1> QED BY <1>1, LockInvariant, PTL

(* Every variable keeps its type. *)
THEOREM LocksTypeCorrect == Spec => []TypeOK
<1>1. LockInv => TypeOK
  BY DEF LockInv
<1> QED BY <1>1, LockInvariant, PTL

-----------------------------------------------------------------------------
(* Leases, whatever the clocks and the reapers do.                         *)

(* What a reaper is about to unlink. *)
Reaping(r) == rpc[r] \in {"logging", "unlinking"}

(* A lock file never goes back to an older token: whoever has decided on   *)
(* its fate did so for the token that is in it or an older one.            *)
NewestInv ==
    /\ \A p \in Process : Busy(p) => file[wants[p]] = Absent \/ token[p] <= file[wants[p]]
    /\ \A r \in Reaper : now[r] \subseteq expired
    /\ \A r \in Reaper :
          Reaping(r) =>
             /\ found[r].token \in expired
             /\ file[found[r].task] = Absent \/ found[r].token <= file[found[r].task]

LEMMA NewestInit == Init => NewestInv
BY DEF Init, NewestInv, Busy, Reaping

(* Steps that unlink a file, or none, and give no reaper a new lease.      *)
LEMMA NewestUnlinks ==
    ASSUME LockInv, NewestInv, NEW l \in Lock,
           file' = file \/ file' = [file EXCEPT ![l] = Absent],
           UNCHANGED <<wants, token, found>>, expired \subseteq expired',
           \A p \in Process : Busy(p)' => Busy(p),
           \A r \in Reaper : now'[r] = now[r] \/ now'[r] = expired,
           \A r \in Reaper : Reaping(r)' => Reaping(r)
    PROVE  NewestInv'
<1>1. \A k \in Lock : file'[k] = file[k] \/ file'[k] = Absent
  BY DEF LockInv, TypeOK
<1>2. /\ \A p \in Process : wants[p] \in Lock
      /\ \A r \in Reaper : found[r].task \in Lock
  BY DEF LockInv, TypeOK, Lock
<1>3. \A p \in Process : Busy(p)' => file'[wants'[p]] = Absent \/ token'[p] <= file'[wants'[p]]
  BY <1>1, <1>2 DEF NewestInv
<1>4. \A r \in Reaper :
         Reaping(r)' =>
            /\ found'[r].token \in expired'
            /\ file'[found'[r].task] = Absent \/ found'[r].token <= file'[found'[r].task]
  BY <1>1, <1>2 DEF NewestInv
<1>5. \A r \in Reaper : now'[r] \subseteq expired'
  BY DEF NewestInv
<1> QED
  BY <1>3, <1>4, <1>5 DEF NewestInv

LEMMA NewestStep == LockInv /\ NewestInv /\ [Next]_vars => NewestInv'
<1> SUFFICES ASSUME LockInv, NewestInv, [Next]_vars PROVE NewestInv'
  OBVIOUS
<1>typ. TypeOK /\ granted \in Nat
  BY DEF LockInv, TypeOK
<1>lck. /\ \A p \in Process : wants[p] \in Lock
        /\ \A r \in Reaper : found[r].task \in Task /\ found[r].task \in Lock
        /\ \A t \in Task : t \in Lock
        /\ Run \in Lock
  BY <1>typ DEF TypeOK, Lock
<1>0. CASE UNCHANGED vars
  BY <1>0 DEF vars, processVars, reaperVars, NewestInv, Busy, Reaping
<1>1. ASSUME NEW p \in Process, NEW l \in Lock, Create(p, l) PROVE NewestInv'
  <2>1. /\ granted' = granted + 1
        /\ file' = [file EXCEPT ![l] = granted']
        /\ wants' = [wants EXCEPT ![p] = l] /\ token' = [token EXCEPT ![p] = granted']
        /\ pc' = [pc EXCEPT ![p] = "created"]
        /\ UNCHANGED <<expired, rpc, now, found>>
    BY <1>1 DEF Create, Goto, reaperVars
  <2>2. /\ \A q \in Process : token[q] \in Nat /\ token[q] < granted'
        /\ \A k \in expired : k \in Nat /\ k < granted'
    BY <1>typ, <2>1 DEF LockInv, TokensAreUnique, TypeOK, Token, Absent
  <2>3. \A k \in Lock : file'[k] = file[k] \/ file'[k] = granted'
    BY <1>typ, <2>1 DEF TypeOK
  <2>4. ASSUME NEW q \in Process, Busy(q)'
        PROVE  file'[wants'[q]] = Absent \/ token'[q] <= file'[wants'[q]]
    <3>1. CASE q = p
      <4>1. wants'[p] = l /\ token'[p] = granted' /\ file'[l] = granted'
        BY <1>typ, <2>1 DEF TypeOK
      <4> QED BY <1>typ, <2>1, <3>1, <4>1
    <3>2. CASE q # p
      <4>1. Busy(q) /\ wants'[q] = wants[q] /\ token'[q] = token[q]
        BY <1>typ, <2>1, <2>4, <3>2 DEF TypeOK, Busy
      <4>2. token[q] \in Nat /\ granted' \in Nat /\ token[q] < granted'
        BY <1>typ, <2>1, <2>2
      <4> QED BY <1>lck, <2>3, <4>1, <4>2 DEF NewestInv
    <3> QED BY <3>1, <3>2
  <2>5. ASSUME NEW r \in Reaper, Reaping(r)'
        PROVE  /\ found'[r].token \in expired'
               /\ file'[found'[r].task] = Absent \/ found'[r].token <= file'[found'[r].task]
    <3>1. Reaping(r) /\ found[r].token \in expired
      BY <2>1, <2>5 DEF Reaping, NewestInv
    <3>2. found[r].token \in Nat /\ granted' \in Nat /\ found[r].token < granted'
      BY <1>typ, <2>1, <2>2, <3>1
    <3> QED BY <1>lck, <2>1, <2>3, <3>1, <3>2 DEF NewestInv
  <2> QED
    BY <2>1, <2>4, <2>5 DEF NewestInv
<1>2. ASSUME NEW p \in Process, ProcessStep(p) \/ Kill(p) PROVE NewestInv'
  <2>1. /\ file' = file \/ file' = [file EXCEPT ![wants[p]] = Absent]
        /\ UNCHANGED <<wants, token, expired, reaperVars>>
        /\ Busy(p) /\ \A q \in Process \ {p} : pc'[q] = pc[q]
    BY <1>2, <1>typ DEF ProcessStep, WriteRecord, WriteFails, LeaveBlock, ReadBack,
                        ReleaseUnlinks, Kill, Goto, Unlink, Busy, TypeOK
  <2> QED
    BY <1>lck, <2>1, NewestUnlinks DEF Busy, Reaping, reaperVars
<1>3. ASSUME NEW r \in Reaper, ReaperStep(r) \/ KillReaper(r) PROVE NewestInv'
  <2>1. CASE ReapReads(r)
    <3>1. PICK t \in left[r] :
             \/ /\ ReadLock(t) \in now[r]
                /\ found' = [found EXCEPT ![r] = [task |-> t, token |-> ReadLock(t)]]
             \/ found' = found /\ rpc'[r] \in {"idle", "reading"}
      BY <2>1, <1>typ DEF ReapReads, ReaperGoes, TypeOK
    <3>2. /\ UNCHANGED <<file, expired, processVars, now>>
          /\ \A s \in Reaper \ {r} : rpc'[s] = rpc[s]
      BY <2>1, <1>typ DEF ReapReads, ReaperGoes, TypeOK
    <3>3. CASE /\ ReadLock(t) \in now[r]
               /\ found' = [found EXCEPT ![r] = [task |-> t, token |-> ReadLock(t)]]
      <4>1. ReadLock(t) \in expired /\ ReadLock(t) # Absent
        BY <3>3, <1>typ DEF NewestInv, TypeOK, Absent
      <4>2. ReadLock(t) = file[t]
        BY <4>1 DEF ReadLock
      <4>3. /\ found'[r].task = t /\ found'[r].token = file[t]
            /\ \A s \in Reaper \ {r} : found'[s] = found[s]
        BY <3>3, <4>2, <1>typ DEF TypeOK
      <4>4. file[t] \in Nat /\ file[t] \in expired
        BY <4>1, <4>2, <1>typ DEF TypeOK
      <4>5. ASSUME NEW s \in Reaper, Reaping(s)'
            PROVE  /\ found'[s].token \in expired'
                   /\ file'[found'[s].task] = Absent \/ found'[s].token <= file'[found'[s].task]
        <5>1. CASE s = r
          BY <3>2, <4>3, <4>4, <5>1
        <5>2. CASE s # r
          BY <3>2, <4>3, <4>5, <5>2 DEF NewestInv, Reaping
        <5> QED BY <5>1, <5>2
      <4> QED BY <3>2, <4>5 DEF NewestInv, Busy, processVars
    <3>4. CASE found' = found /\ rpc'[r] \in {"idle", "reading"}
      BY <3>2, <3>4 DEF NewestInv, Busy, Reaping, processVars
    <3> QED
      BY <3>1, <3>3, <3>4
  <2>2. CASE ReapStarts(r)
    <3>1. /\ UNCHANGED <<file, wants, token, pc, found, expired>>
          /\ \A s \in Reaper : now'[s] = now[s] \/ now'[s] = expired
          /\ \A s \in Reaper : Reaping(s)' => Reaping(s)
      BY <2>2, <1>typ DEF ReapStarts, ReaperGoes, TypeOK, Reaping, processVars
    <3> QED
      BY <1>lck, <3>1, NewestUnlinks DEF Busy
  <2>3. CASE ReapLogs(r) \/ ReapLogFails(r) \/ ReapUnlinks(r) \/ KillReaper(r)
    <3>1. /\ file' = file \/ file' = [file EXCEPT ![found[r].task] = Absent]
          /\ UNCHANGED <<wants, token, pc, found, now, expired>>
      BY <2>3 DEF ReapLogs, ReapLogFails, ReapUnlinks, KillReaper, Unlink, processVars
    <3>2. \A s \in Reaper : Reaping(s)' => Reaping(s)
      BY <2>3, <1>typ DEF ReapLogs, ReapLogFails, ReapUnlinks, KillReaper, ReaperGoes,
                          TypeOK, Reaping
    <3> QED
      BY <1>lck, <3>1, <3>2, NewestUnlinks DEF Busy
  <2> QED
    BY <1>3, <2>1, <2>2, <2>3 DEF ReaperStep
<1>4. ASSUME NEW t \in Token, Expire(t) PROVE NewestInv'
  BY <1>4, <1>lck, NewestUnlinks DEF Expire, processVars, reaperVars, Busy, Reaping
<1> QED
  BY <1>0, <1>1, <1>2, <1>3, <1>4 DEF Next

LEMMA NewestInvariant == Spec => [](LockInv /\ NewestInv)
<1>1. LockInv /\ NewestInv /\ [Next]_vars => (LockInv /\ NewestInv)'
  BY LockStep, NewestStep
<1> QED
  BY <1>1, LockInit, NewestInit, PTL DEF Spec

(* A displaced holder is turned away by the token check.                   *)
LEMMA StaleStep ==
    ASSUME LockInv, Next, NEW p \in Process
    PROVE  StaleLeaves(p)
<1> SUFFICES ASSUME pc[p] \in {"held", "leaving"}, file[wants[p]] # token[p], pc'[p] # pc[p]
             PROVE  pc'[p] \in {"leaving", "idle"} /\ UNCHANGED file
  BY DEF StaleLeaves
<1>typ. TypeOK /\ token[p] # Absent
  BY DEF LockInv, TypeOK, TokensAreUnique, Busy
<1>1. LeaveBlock(p) \/ ReadBack(p) \/ Kill(p)
  BY <1>typ DEF Next, ProcessStep, ReaperStep, Create, WriteRecord, WriteFails, ReleaseUnlinks,
                LeaveBlock, ReadBack, Kill, ReapStarts, ReapReads, ReapLogs, ReapLogFails,
                ReapUnlinks, KillReaper, Expire, processVars, Goto, TypeOK
<1>2. ReadLock(wants[p]) # token[p]
  BY <1>typ DEF ReadLock
<1> QED
  BY <1>typ, <1>1, <1>2 DEF LeaveBlock, ReadBack, Kill, Goto, TypeOK

(* Whoever takes the file of a lease in force decided to when it was older. *)
LEMMA LateStep ==
    ASSUME LockInv, NewestInv, Next, NEW p \in Process
    PROVE  LostToTheLate(p)
<1> SUFFICES ASSUME Holds(p), file[wants[p]] = token[p], file'[wants[p]] # token[p]
             PROVE  \/ \E q \in Process \ {p} : LateHolder(q, p)
                    \/ \E r \in Reaper : LateReaper(r, p)
  BY DEF LostToTheLate
<1>typ. TypeOK /\ Busy(p) /\ token[p] # Absent /\ token[p] \in Nat /\ wants[p] \in Lock
  BY DEF LockInv, TypeOK, TokensAreUnique, Holds, Busy, Token, Absent
<1>1. ASSUME NEW q \in Process, NEW l \in Lock, Create(q, l) PROVE FALSE
  BY <1>1, <1>typ DEF Create, TypeOK
<1>2. ASSUME NEW q \in Process, WriteFails(q) \/ ReleaseUnlinks(q)
      PROVE  q # p /\ LateHolder(q, p)
  <2>1. /\ pc[q] \in {"created", "unlinking"} /\ pc'[q] = "idle" /\ Busy(q)
        /\ file' = [file EXCEPT ![wants[q]] = Absent]
    BY <1>2, <1>typ DEF WriteFails, ReleaseUnlinks, Goto, Unlink, TypeOK, Busy
  <2>2. q # p /\ wants[q] = wants[p]
    BY <2>1, <1>typ DEF Holds, TypeOK
  <2>3. token[q] # token[p] /\ token[q] <= token[p] /\ token[q] \in Nat
    BY <2>1, <2>2, <1>typ DEF LockInv, TokensAreUnique, NewestInv, TypeOK, Token, Absent
  <2> QED
    BY <2>1, <2>2, <2>3, <1>typ DEF LateHolder
<1>3. ASSUME NEW r \in Reaper, ReapUnlinks(r) PROVE LateReaper(r, p)
  <2>1. /\ rpc[r] = "unlinking" /\ rpc'[r] # "unlinking" /\ Reaping(r)
        /\ file' = [file EXCEPT ![found[r].task] = Absent]
    BY <1>3, <1>typ DEF ReapUnlinks, ReaperGoes, Unlink, TypeOK, Reaping
  <2>2. found[r].task = wants[p]
    BY <2>1, <1>typ DEF TypeOK
  <2>3. /\ found[r].token \in expired /\ found[r].token <= token[p]
        /\ found[r].token # token[p] /\ found[r].token \in Nat
    BY <2>1, <2>2, <1>typ DEF NewestInv, Holds, TypeOK
  <2> QED
    BY <2>1, <2>2, <2>3, <1>typ DEF LateReaper
<1>4. file' # file
  BY <1>typ
<1> QED
  BY <1>1, <1>2, <1>3, <1>4
  DEF Next, ProcessStep, ReaperStep, WriteRecord, LeaveBlock, ReadBack, Kill, ReapStarts,
      ReapReads, ReapLogs, ReapLogFails, KillReaper, Expire

(* Whatever expires, dies or reaps at the same time, a displaced holder    *)
(* leaves every lock file alone and a lease in force is lost to nobody but *)
(* one who decided on the unlink when the file held an older token.        *)
THEOREM LeasesFallToRacesOnly == Spec => LeasesAreLostToRacesOnly
<1>1. LockInv /\ NewestInv /\ [Next]_vars
         => [\A p \in Process : StaleLeaves(p) /\ LostToTheLate(p)]_vars
  BY StaleStep, LateStep
<1> QED
  BY <1>1, NewestInvariant, PTL DEF Spec, LeasesAreLostToRacesOnly

-----------------------------------------------------------------------------
(* Leases in force, when clocks are well behaved and one reaper works at a *)
(* time: both are needed, since a late holder or a second reaper unlinks   *)
(* whatever is at the path by then.                                        *)

OneReaper == \A r, s \in Reaper : r = s

StandInv ==
    /\ \A p \in Process : Busy(p) => file[wants[p]] = token[p] /\ token[p] \notin expired
    /\ \A r \in Reaper : now[r] \subseteq expired
    /\ \A r \in Reaper :
          Reaping(r) => found[r].token \in expired /\ file[found[r].task] = found[r].token

LEMMA StandInit == Init => StandInv
BY DEF Init, StandInv, Busy, Reaping

(* A file that changes is nobody's in force and nobody else's to reap.     *)
LEMMA FilesOfOthers ==
    ASSUME LockInv, StandInv, NEW p \in Process, Busy(p)
    PROVE  /\ \A q \in Process : Busy(q) /\ wants[q] = wants[p] => q = p
           /\ \A r \in Reaper : Reaping(r) => found[r].task # wants[p]
BY DEF LockInv, TokensAreUnique, StandInv

LEMMA StandStep ==
    ASSUME ~Slow, OneReaper, LockInv, LockInv', StandInv, [Next]_vars
    PROVE  StandInv'
<1>typ. TypeOK /\ granted \in Nat
  BY DEF LockInv, TypeOK
<1>fnd. \A r \in Reaper : found[r].task \in Task /\ found[r].task \in Lock
  BY <1>typ DEF TypeOK, Lock
<1>0. CASE UNCHANGED vars
  BY <1>0 DEF vars, processVars, reaperVars, StandInv, Busy, Reaping
<1>1. ASSUME NEW p \in Process, NEW l \in Lock, Create(p, l) PROVE StandInv'
  <2>1. /\ granted' = granted + 1 /\ file[l] = Absent /\ ~Busy(p)
        /\ file' = [file EXCEPT ![l] = granted']
        /\ wants' = [wants EXCEPT ![p] = l] /\ token' = [token EXCEPT ![p] = granted']
        /\ pc' = [pc EXCEPT ![p] = "created"]
        /\ UNCHANGED <<expired, reaperVars>>
    BY <1>1 DEF Create, Goto, Busy
  <2>2. granted' \notin expired
    BY <1>typ, <2>1 DEF TypeOK
  <2>3. \A q \in Process : Busy(q) => wants[q] # l /\ wants[q] \in Lock
    BY <2>1, <1>typ DEF LockInv, TokensAreUnique, StandInv, TypeOK
  <2>4. \A r \in Reaper : Reaping(r) => found[r].task # l
    BY <2>1, <1>typ DEF StandInv, TypeOK, Absent
  <2>5. \A q \in Process : Busy(q)' => file'[wants'[q]] = token'[q] /\ token'[q] \notin expired'
    BY <1>typ, <2>1, <2>2, <2>3 DEF StandInv, TypeOK, Busy
  <2>6. \A r \in Reaper :
           Reaping(r)' => found'[r].token \in expired' /\ file'[found'[r].task] = found'[r].token
    BY <1>typ, <1>fnd, <2>1, <2>4 DEF StandInv, TypeOK, Reaping, reaperVars
  <2> QED
    BY <2>1, <2>5, <2>6 DEF StandInv, reaperVars
<1>2. ASSUME NEW p \in Process,
             WriteRecord(p) \/ LeaveBlock(p) \/ ReadBack(p) \/ Kill(p)
      PROVE  StandInv'
  <2>1. /\ Busy(p) /\ \A q \in Process \ {p} : pc'[q] = pc[q]
        /\ UNCHANGED <<file, expired, wants, token, reaperVars>>
    BY <1>2, <1>typ DEF WriteRecord, LeaveBlock, ReadBack, Kill, Goto, Busy, TypeOK
  <2>2. \A q \in Process : Busy(q)' => Busy(q)
    BY <2>1 DEF Busy
  <2> QED
    BY <2>1, <2>2 DEF StandInv, Reaping, reaperVars
<1>3. ASSUME NEW p \in Process, WriteFails(p) \/ ReleaseUnlinks(p) PROVE StandInv'
  <2>1. /\ Busy(p) /\ wants[p] \in Lock
        /\ file' = [file EXCEPT ![wants[p]] = Absent]
        /\ pc' = [pc EXCEPT ![p] = "idle"]
        /\ UNCHANGED <<expired, wants, token, reaperVars>>
    BY <1>3, <1>typ DEF WriteFails, ReleaseUnlinks, Unlink, Goto, Busy, TypeOK
  <2>2. \A q \in Process : Busy(q)' => Busy(q) /\ wants[q] # wants[p] /\ wants[q] \in Lock
    BY <2>1, <1>typ, FilesOfOthers DEF Busy, TypeOK
  <2>3. \A r \in Reaper : Reaping(r) => found[r].task # wants[p]
    BY <2>1, FilesOfOthers
  <2>4. \A q \in Process : Busy(q)' => file'[wants[q]] = token[q] /\ token[q] \notin expired
    BY <1>typ, <2>1, <2>2 DEF StandInv, TypeOK
  <2>5. \A r \in Reaper :
           Reaping(r) => found[r].token \in expired /\ file'[found[r].task] = found[r].token
    BY <1>typ, <1>fnd, <2>1, <2>3 DEF StandInv, TypeOK
  <2> QED
    BY <2>1, <2>4, <2>5 DEF StandInv, Reaping, reaperVars
<1>4. ASSUME NEW r \in Reaper, ReaperStep(r) \/ KillReaper(r) PROVE StandInv'
  <2>0. \A s \in Reaper : s = r
    BY DEF OneReaper
  <2>1. CASE ReapStarts(r)
    BY <2>0, <2>1, <1>typ DEF ReapStarts, ReaperGoes, TypeOK, StandInv, Busy, Reaping, processVars
  <2>2. CASE ReapReads(r)
    <3>1. PICK t \in left[r] :
             \/ /\ ReadLock(t) \in now[r]
                /\ found' = [found EXCEPT ![r] = [task |-> t, token |-> ReadLock(t)]]
             \/ found' = found /\ rpc'[r] \in {"idle", "reading"}
      BY <2>2, <1>typ DEF ReapReads, ReaperGoes, TypeOK
    <3>2. UNCHANGED <<file, expired, processVars, now>>
      BY <2>2 DEF ReapReads
    <3>3. CASE ReadLock(t) \in now[r]
               /\ found' = [found EXCEPT ![r] = [task |-> t, token |-> ReadLock(t)]]
      <4>1. ReadLock(t) \in expired /\ ReadLock(t) # Absent
        BY <3>3, <1>typ DEF StandInv, TypeOK, Absent
      <4>2. ReadLock(t) = file[t]
        BY <4>1 DEF ReadLock
      <4>3. found'[r].task = t /\ found'[r].token = ReadLock(t)
        BY <3>3, <1>typ DEF TypeOK
      <4> QED
        BY <2>0, <3>2, <4>1, <4>2, <4>3 DEF StandInv, Busy, processVars
    <3>4. CASE found' = found /\ rpc'[r] \in {"idle", "reading"}
      BY <2>0, <3>2, <3>4 DEF StandInv, Busy, Reaping, processVars
    <3> QED
      BY <3>1, <3>3, <3>4
  <2>3. CASE ReapLogs(r)
    BY <2>0, <2>3, <1>typ DEF ReapLogs, ReaperGoes, TypeOK, StandInv, Busy, Reaping, processVars
  <2>4. CASE ReapLogFails(r) \/ KillReaper(r)
    BY <2>0, <2>4, <1>typ DEF ReapLogFails, KillReaper, ReaperGoes, TypeOK, StandInv, Busy,
                              Reaping, processVars
  <2>5. CASE ReapUnlinks(r)
    <3>1. /\ file' = [file EXCEPT ![found[r].task] = Absent] /\ Reaping(r)
          /\ rpc'[r] \in {"idle", "reading"}
          /\ UNCHANGED <<expired, processVars, now, found>>
      BY <2>5, <1>typ DEF ReapUnlinks, Unlink, ReaperGoes, Reaping, TypeOK
    <3>2. \A q \in Process : Busy(q) => found[r].task # wants[q] /\ wants[q] \in Lock
      BY <3>1, <1>typ, FilesOfOthers DEF TypeOK
    <3>3. \A q \in Process : Busy(q) => file'[wants[q]] = token[q]
      BY <1>typ, <3>1, <3>2 DEF StandInv, TypeOK
    <3> QED
      BY <2>0, <3>1, <3>3 DEF StandInv, Busy, Reaping, processVars
  <2> QED
    BY <1>4, <2>1, <2>2, <2>3, <2>4, <2>5 DEF ReaperStep
<1>5. ASSUME NEW t \in Token, Expire(t) PROVE StandInv'
  <2>1. /\ ~Alive(t) /\ expired' = expired \cup {t}
        /\ UNCHANGED <<file, processVars, reaperVars>>
    BY <1>5 DEF Expire
  <2> QED
    BY <2>1 DEF StandInv, Alive, Busy, Reaping, processVars, reaperVars
<1> QED
  BY <1>0, <1>1, <1>2, <1>3, <1>4, <1>5 DEF Next, ProcessStep

LEMMA StandInvariant ==
    ASSUME ~Slow, OneReaper
    PROVE  Spec => [](LockInv /\ StandInv)
<1>1. LockInv /\ StandInv /\ [Next]_vars => (LockInv /\ StandInv)'
  BY LockStep, StandStep
<1> QED
  BY <1>1, LockInit, StandInit, PTL DEF Spec

(* While leases outlast their work and one reaper runs at a time, a lease  *)
(* in force keeps its file, so that its task is granted to nobody else.    *)
THEOREM LiveLeasesStand ==
    ASSUME ~Slow, OneReaper
    PROVE  Spec => []LiveLeaseStands
<1>1. StandInv => LiveLeaseStands
  BY DEF StandInv, LiveLeaseStands, Busy
<1> QED
  BY <1>1, StandInvariant, PTL

(* At most one process holds a lock: the exclusion that the run lock has   *)
(* whatever happens, a task lease has under these two assumptions.         *)
LockExclusive ==
    \A p, q \in Process : Inside(p) /\ Inside(q) /\ wants[p] = wants[q] => p = q

(* Two loops never work on the same task, or in the same tree.             *)
THEOREM LeasesAreExclusive ==
    ASSUME ~Slow, OneReaper
    PROVE  Spec => []LockExclusive
<1>1. LockInv /\ StandInv => LockExclusive
  BY FilesOfOthers DEF LockExclusive, Inside, Busy
<1> QED
  BY <1>1, StandInvariant, PTL
=============================================================================
