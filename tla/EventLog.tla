------------------------------ MODULE EventLog ------------------------------
(***************************************************************************)
(* redgear/events.py: the event log as a file that several processes append *)
(* to under an O_EXCL lock file, with writers that time out, are killed or *)
(* fail in the middle of a write, and machines that lose power.            *)
(*                                                                         *)
(* A line is its seq, its writer and whether it still parses.  Splitting it *)
(* into characters is left out, except that a write may be cut, and that a *)
(* line whose newline is missing is continued by the next write.           *)
(***************************************************************************)
EXTENDS Integers, Sequences

CONSTANTS
    Writer,         \* the processes and threads that append
    Free, Stale,    \* lock file absent; lock file of a dead writer
    CutAtNewline,   \* may a cut lose the newline and nothing else?
    MaxAppends, MaxKills, MaxCuts   \* bounds on the exploration

ASSUME WriterAssumption == Free \notin Writer /\ Stale \notin Writer /\ Free # Stale

ASSUME CutAssumption ==
    CutAtNewline \in BOOLEAN /\ {MaxAppends, MaxKills, MaxCuts} \subseteq Nat

VARIABLES
    file,     \* the lines of events.jsonl
    ended,    \* does its last line end in a newline (or is it empty)?
    synced,   \* lines known to be on the medium
    lock,     \* events.jsonl.lock: its creator, Stale or Free
    pc,       \* where each writer is in append()
    next,     \* the seq each writer is going to write
    acked,    \* the events whose append returned
    appends, kills, cuts   \* how much of each bound is used

fileVars == <<file, ended, synced>>
boundVars == <<appends, kills, cuts>>
vars == <<fileVars, lock, pc, next, acked, boundVars>>

-----------------------------------------------------------------------------

Line == [seq : Nat, by : Writer, whole : BOOLEAN]
Event == [seq : Nat, by : Writer]

(* In the critical section of _append_lock. *)
Inside == {"read", "write", "sync", "release"}

TypeOK ==
    /\ file \in Seq(Line)
    /\ ended \in BOOLEAN
    /\ synced \in 0 .. Len(file)
    /\ lock \in Writer \cup {Free, Stale}
    /\ pc \in [Writer -> {"idle", "want"} \cup Inside]
    /\ next \in [Writer -> Nat]
    /\ acked \in SUBSET Event
    /\ {appends, kills, cuts} \subseteq Nat

Init ==
    /\ file = <<>>
    /\ ended = TRUE
    /\ synced = 0
    /\ lock = Free
    /\ pc = [w \in Writer |-> "idle"]
    /\ next = [w \in Writer |-> 0]
    /\ acked = {}
    /\ appends = 0 /\ kills = 0 /\ cuts = 0

Goto(w, place) == pc' = [pc EXCEPT ![w] = place]

LastLine == file[Len(file)]

(* The last line gets more bytes and does not parse any more. *)
Garbled == [file EXCEPT ![Len(file)].whole = FALSE]

(* Bytes land at the end of the file (O_APPEND): a new line, or the        *)
(* continuation of one that lacks its newline.                             *)
Put(w, whole) ==
    file' = IF ended
            THEN Append(file, [seq |-> next[w], by |-> w, whole |-> whole])
            ELSE Garbled

-----------------------------------------------------------------------------
(* append(payload), step by step *)

Begin(w) ==
    /\ pc[w] = "idle"
    /\ appends < MaxAppends
    /\ appends' = appends + 1
    /\ Goto(w, "want")
    /\ UNCHANGED <<fileVars, lock, next, acked, kills, cuts>>

(* Mutant: the lock file is opened without O_EXCL. *)
BrokenAcquire(w) ==
    /\ pc[w] = "want"
    /\ lock' = w
    /\ Goto(w, "read")
    /\ UNCHANGED <<fileVars, next, acked, boundVars>>

Acquire(w) ==
    /\ pc[w] = "want"
    /\ lock = Free
    /\ lock' = w
    /\ Goto(w, "read")
    /\ UNCHANGED <<fileVars, next, acked, boundVars>>

(* Mutant: a writer whose deadline passed goes ahead without the lock. *)
BrokenTimeOut(w) ==
    /\ pc[w] = "want"
    /\ lock # Free
    /\ Goto(w, "read")
    /\ UNCHANGED <<fileVars, lock, next, acked, boundVars>>

(* Mutant: the poll loop has no deadline. *)
EndlessTimeOut(w) ==
    /\ pc[w] = "want"
    /\ lock # Free
    /\ UNCHANGED vars

(* The deadline passes while somebody's lock file is there: TimeoutError.  *)
TimeOut(w) ==
    /\ pc[w] = "want"
    /\ lock # Free
    /\ Goto(w, "idle")
    /\ UNCHANGED <<fileVars, lock, next, acked, boundVars>>

(* Mutant: an unreadable last line counts as no line. *)
BrokenReadSeq(w) ==
    /\ pc[w] = "read"
    /\ next' = [next EXCEPT ![w] = IF file = <<>> THEN 0 ELSE LastLine.seq + 1]
    /\ Goto(w, "write")
    /\ UNCHANGED <<fileVars, lock, acked, boundVars>>

(* Mutant: the first event gets last_seq() itself. *)
MinusOneReadSeq(w) ==
    /\ pc[w] = "read"
    /\ file = <<>> \/ LastLine.whole
    /\ next' = [next EXCEPT ![w] = IF file = <<>> THEN -1 ELSE LastLine.seq + 1]
    /\ Goto(w, "write")
    /\ UNCHANGED <<fileVars, lock, acked, boundVars>>

(* last_seq() + 1, or EventLogCorruptError when the last line is no record.  *)
ReadSeq(w) ==
    /\ pc[w] = "read"
    /\ \/ /\ file = <<>>
          /\ next' = [next EXCEPT ![w] = 0]
          /\ Goto(w, "write")
       \/ /\ file # <<>>
          /\ LastLine.whole
          /\ next' = [next EXCEPT ![w] = LastLine.seq + 1]
          /\ Goto(w, "write")
       \/ /\ file # <<>>
          /\ ~LastLine.whole
          /\ Goto(w, "release")
          /\ UNCHANGED next
    /\ UNCHANGED <<fileVars, lock, acked, boundVars>>

(* handle.write(line); handle.flush(). *)
WriteLine(w) ==
    /\ pc[w] = "write"
    /\ Put(w, TRUE)
    /\ ended' = TRUE
    /\ Goto(w, "sync")
    /\ UNCHANGED <<synced, lock, next, acked, boundVars>>

(* The write fails part of the way (no space left): OSError. *)
WriteIsCut(w) ==
    /\ pc[w] = "write"
    /\ cuts < MaxCuts
    /\ cuts' = cuts + 1
    /\ \E whole \in {FALSE, CutAtNewline} : Put(w, whole)
    /\ ended' = FALSE
    /\ Goto(w, "release")
    /\ UNCHANGED <<synced, lock, next, acked, appends, kills>>

(* Mutant: the caller is told before the bytes are synced. *)
BrokenSync(w) ==
    /\ pc[w] = "sync"
    /\ acked' = acked \cup {[seq |-> next[w], by |-> w]}
    /\ Goto(w, "release")
    /\ UNCHANGED <<file, ended, synced, lock, next, boundVars>>

(* os.fsync: everything written so far is durable, and append will return. *)
Sync(w) ==
    /\ pc[w] = "sync"
    /\ synced' = Len(file)
    /\ acked' = acked \cup {[seq |-> next[w], by |-> w]}
    /\ Goto(w, "release")
    /\ UNCHANGED <<file, ended, lock, next, boundVars>>

(* fsync fails: OSError, the line may or may not be durable. *)
SyncFails(w) ==
    /\ pc[w] = "sync"
    /\ cuts < MaxCuts
    /\ cuts' = cuts + 1
    /\ Goto(w, "release")
    /\ UNCHANGED <<fileVars, lock, next, acked, appends, kills>>

(* The finally: unlink(missing_ok=True), on return and on an exception.    *)
Release(w) ==
    /\ pc[w] = "release"
    /\ lock' = Free
    /\ Goto(w, "idle")
    /\ UNCHANGED <<fileVars, next, acked, boundVars>>

-----------------------------------------------------------------------------
(* What happens around it (external) *)

(* The process dies; another may take its place later. *)
Kill(w) ==
    /\ pc[w] # "idle"
    /\ kills < MaxKills
    /\ kills' = kills + 1
    /\ lock' = IF lock = w THEN Stale ELSE lock
    /\ Goto(w, "idle")
    /\ UNCHANGED <<fileVars, next, acked, appends, cuts>>

(* What a medium may hold of a file: the lines known to be on it and any   *)
(* number of the others, the last of these perhaps cut.                    *)
PowerLoss ==
    /\ kills < MaxKills
    /\ kills' = kills + 1
    /\ \E n \in synced .. Len(file) :
          \/ /\ file' = SubSeq(file, 1, n)
             /\ ended' = (IF n = Len(file) THEN ended ELSE TRUE)
          \/ /\ n > synced
             /\ \E whole \in {FALSE, CutAtNewline} :
                   file' = [SubSeq(file, 1, n) EXCEPT ![n].whole = whole /\ @]
             /\ ended' = FALSE
    /\ lock' \in {Free, Stale}
    /\ pc' = [w \in Writer |-> "idle"]
    /\ UNCHANGED <<synced, next, acked, appends, cuts>>

(* The user follows the TimeoutError's advice: no redgear process is running, *)
(* so the lock file must be removed.                                       *)
UserRemovesLock ==
    /\ lock = Stale
    /\ \A w \in Writer : pc[w] = "idle"
    /\ lock' = Free
    /\ UNCHANGED <<fileVars, pc, next, acked, boundVars>>

-----------------------------------------------------------------------------

Step(w) ==
    Acquire(w) \/ TimeOut(w) \/ ReadSeq(w) \/ WriteLine(w) \/ Sync(w) \/ Release(w)

Next ==
    \/ \E w \in Writer : Begin(w) \/ Step(w) \/ WriteIsCut(w) \/ SyncFails(w) \/ Kill(w)
    \/ PowerLoss \/ UserRemovesLock

Spec == Init /\ [][Next]_vars

(* A live process keeps running, and its poll loop has a deadline.         *)
FairSpec == Spec /\ \A w \in Writer : WF_vars(Step(w))

-----------------------------------------------------------------------------
(* Properties *)

(* replay reads the whole file, whatever writers race, die, or lose power:  *)
(* a record's seq is its zero-based position, and damage is reported and   *)
(* never buried, since nothing is appended after a line that does not parse. *)
SeqIsPosition == \A i \in 1 .. Len(file) : file[i].whole => file[i].seq = i - 1

DamageIsLast == \A i \in 1 .. Len(file) : ~file[i].whole => i = Len(file)

LogReplays == SeqIsPosition /\ DamageIsLast

(* Durable when append returns: an acknowledged event stays readable at the  *)
(* place its seq says.                                                     *)
AckedIsReadable ==
    \A e \in acked :
        /\ e.seq < Len(file)
        /\ file[e.seq + 1] = [seq |-> e.seq, by |-> e.by, whole |-> TRUE]

(* Every append returns or raises. *)
AppendEnds == \A w \in Writer : pc[w] = "want" ~> pc[w] = "idle"

-----------------------------------------------------------------------------
(* Refinement: what is durable is an atomic log. *)

DurableLog == [i \in 1 .. synced |-> [seq |-> file[i].seq, by |-> file[i].by]]

Atomic == INSTANCE AtomicLog WITH log <- DurableLog

ImplementsAtomicLog == Atomic!Spec
=============================================================================
