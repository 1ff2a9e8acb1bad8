--------------------------- MODULE EventLogProofs ---------------------------
(***************************************************************************)
(* Proofs about EventLog, for any set of writers and any number of appends, *)
(* kills, power losses and cut writes.                                     *)
(***************************************************************************)
EXTENDS EventLog, TLAPS, SequenceTheorems

-----------------------------------------------------------------------------
(* The lock file is what makes read-increment-write one step: whoever is   *)
(* inside owns it, so there is one such writer, and what it read about the *)
(* end of the file is still true when it writes.                           *)

Exclusive == \A w \in Writer : pc[w] \in Inside => lock = w

ReadIsFresh ==
    \A w \in Writer : pc[w] = "write" =>
        /\ next[w] = Len(file)
        /\ file # <<>> => LastLine.whole

LogInv ==
    /\ TypeOK
    /\ Exclusive
    /\ ReadIsFresh
    /\ SeqIsPosition
    /\ DamageIsLast
    /\ file = <<>> => ended

LEMMA LogInit == Init => LogInv
<1> SUFFICES ASSUME Init PROVE LogInv
  OBVIOUS
<1>1. file \in Seq(Line) /\ Len(file) = 0
  BY DEF Init
<1>2. ended \in BOOLEAN
  BY DEF Init
<1>3. lock \in Writer \cup {Free, Stale} /\ next \in [Writer -> Nat]
      /\ acked \in SUBSET Event /\ {appends, kills, cuts} \subseteq Nat
      /\ pc \in [Writer -> {"idle", "want"} \cup Inside]
  BY DEF Init
<1>4. synced \in 0 .. Len(file)
  BY <1>1 DEF Init
<1>5. TypeOK
  BY <1>1, <1>2, <1>3, <1>4 DEF TypeOK
<1> QED
  BY <1>1, <1>5 DEF Init, LogInv, Exclusive, ReadIsFresh, Inside, SeqIsPosition, DamageIsLast

(* What bytes at the end of the file do to it. *)
LEMMA PutProperties ==
    ASSUME LogInv, NEW w \in Writer, pc[w] = "write", NEW whole \in BOOLEAN, Put(w, whole)
    PROVE  /\ file' \in Seq(Line)
           /\ Len(file') >= Len(file)
           /\ \A i \in 1 .. Len(file) - 1 : file'[i] = file[i]
           /\ ended => /\ Len(file') = Len(file) + 1
                       /\ \A i \in 1 .. Len(file) : file'[i] = file[i]
                       /\ file'[Len(file')] = [seq |-> Len(file), by |-> w, whole |-> whole]
           /\ ~ended => /\ Len(file') = Len(file)
                        /\ file # <<>>
                        /\ ~file'[Len(file)].whole
<1>1. /\ file \in Seq(Line) /\ Len(file) \in Nat /\ next[w] = Len(file)
      /\ file = <<>> => ended
  BY LenProperties DEF LogInv, TypeOK, ReadIsFresh
<1>2. CASE ended
  <2>1. [seq |-> next[w], by |-> w, whole |-> whole] \in Line
    BY <1>1 DEF Line
  <2> QED BY <1>1, <1>2, <2>1, AppendProperties DEF Put
<1>3. CASE ~ended
  <2>1. file # <<>> /\ Len(file) \in 1 .. Len(file)
    BY <1>1, <1>3, EmptySeq
  <2>2. file[Len(file)] \in Line
    BY <1>1, <2>1, ElementOfSeq
  <2>3. file' = [file EXCEPT ![Len(file)].whole = FALSE]
    BY <1>3 DEF Put, Garbled
  <2>4. [file[Len(file)] EXCEPT !.whole = FALSE] \in Line
    BY <2>2 DEF Line
  <2>5. file' \in Seq(Line) /\ Len(file') = Len(file)
        /\ \A i \in 1 .. Len(file) - 1 : file'[i] = file[i]
    BY <1>1, <2>1, <2>3, <2>4, ExceptSeq
  <2>6. ~file'[Len(file)].whole
    BY <1>1, <2>1, <2>2, <2>3 DEF Line
  <2> QED BY <1>1, <1>3, <2>1, <2>5, <2>6
<1> QED BY <1>2, <1>3

LEMMA WriteStep ==
    ASSUME LogInv, NEW w \in Writer, pc[w] = "write", NEW whole \in BOOLEAN, Put(w, whole),
           ended' \in BOOLEAN, UNCHANGED <<synced, lock, next, acked>>,
           NEW place \in {"sync", "release"}, Goto(w, place),
           {appends, kills, cuts}' \subseteq Nat
    PROVE  LogInv'
<1> DEFINE n == Len(file)
           m == Len(file')
<1>1. /\ TypeOK /\ n \in Nat /\ synced \in 0 .. n
  BY LenProperties DEF LogInv, TypeOK
<1>2. /\ file' \in Seq(Line) /\ m >= n
      /\ \A i \in 1 .. n - 1 : file'[i] = file[i]
      /\ ended => /\ m = n + 1
                  /\ \A i \in 1 .. n : file'[i] = file[i]
                  /\ file'[m] = [seq |-> n, by |-> w, whole |-> whole]
      /\ ~ended => m = n /\ file # <<>> /\ ~file'[n].whole
  BY PutProperties
<1>3. m \in Nat /\ (file = <<>> => n = 0) /\ (m = 0 => file' = <<>>)
  BY <1>2, LenProperties, EmptySeq
<1>4. pc' \in [Writer -> {"idle", "want"} \cup Inside] /\ pc'[w] = place
      /\ \A v \in Writer \ {w} : pc'[v] = pc[v]
  BY <1>1 DEF TypeOK, Goto, Inside
<1>5. TypeOK'
  BY <1>1, <1>2, <1>3, <1>4 DEF TypeOK
<1>6. Exclusive'
  BY <1>4 DEF LogInv, Exclusive, Inside
<1>7. ReadIsFresh'
  BY <1>4 DEF LogInv, Exclusive, ReadIsFresh, Inside
<1>8. SeqIsPosition' /\ DamageIsLast'
  <2>1. CASE ended
    <3>1. file # <<>> => file[n].whole
      BY DEF LogInv, ReadIsFresh, LastLine
    <3>2. \A i \in 1 .. n : file[i].whole
      BY <1>1, <1>2, <3>1, EmptySeq DEF LogInv, DamageIsLast
    <3> QED BY <1>1, <1>2, <1>3, <2>1, <3>2 DEF LogInv, SeqIsPosition, DamageIsLast
  <2>2. CASE ~ended
    <3>1. \A i \in 1 .. n - 1 : file'[i] = file[i] /\ file'[i].whole
      BY <1>1, <1>2 DEF LogInv, DamageIsLast
    <3> QED BY <1>1, <1>2, <1>3, <2>2, <3>1 DEF LogInv, SeqIsPosition, DamageIsLast
  <2> QED BY <1>1, <2>1, <2>2 DEF TypeOK
<1>9. file' # <<>>
  BY <1>1, <1>2, <1>3, LenProperties, EmptySeq DEF TypeOK
<1> QED BY <1>5, <1>6, <1>7, <1>8, <1>9 DEF LogInv

(* The file a power loss leaves is a part of the one before. *)
LEMMA PowerLossStep ==
    ASSUME LogInv, PowerLoss
    PROVE  /\ LogInv'
           /\ Len(file') \in synced .. Len(file)
           /\ \A i \in 1 .. Len(file') :
                 /\ file'[i].seq = file[i].seq /\ file'[i].by = file[i].by
                 /\ file'[i].whole => file[i].whole
                 /\ i <= synced \/ i < Len(file') => file'[i] = file[i]
<1>1. /\ TypeOK /\ file \in Seq(Line) /\ Len(file) \in Nat /\ synced \in 0 .. Len(file)
  BY LenProperties DEF LogInv, TypeOK
<1>2. PICK n \in synced .. Len(file) :
          \/ /\ file' = SubSeq(file, 1, n)
             /\ ended' = (IF n = Len(file) THEN ended ELSE TRUE)
          \/ /\ n > synced
             /\ \E whole \in {FALSE, CutAtNewline} :
                   file' = [SubSeq(file, 1, n) EXCEPT ![n].whole = whole /\ @]
             /\ ended' = FALSE
  BY DEF PowerLoss
<1> DEFINE kept == SubSeq(file, 1, n)
<1>3. n \in Nat /\ \A i \in 1 .. n : file[i] \in Line
  BY <1>1, <1>2, ElementOfSeq
<1>4. /\ kept \in Seq(Line) /\ Len(kept) = n
      /\ \A i \in 1 .. n : kept[i] = file[i]
  BY <1>3, SubSeqProperties
<1> HIDE DEF kept
<1>5. ASSUME n > synced, NEW whole \in {FALSE, CutAtNewline},
               file' = [kept EXCEPT ![n].whole = whole /\ @]
        PROVE  /\ file' \in Seq(Line) /\ Len(file') = n
               /\ \A i \in 1 .. n : /\ file'[i].seq = file[i].seq
                                    /\ file'[i].by = file[i].by
                                    /\ file'[i].whole => file[i].whole
                                    /\ i < n => file'[i] = file[i]
  <2>1. n \in 1 .. Len(kept)
    BY <1>1, <1>3, <1>4, <1>5
  <2>2. kept[n] \in Line /\ whole \in BOOLEAN
    BY <1>3, <1>4, <2>1, CutAssumption
  <2> DEFINE e == [kept[n] EXCEPT !.whole = whole /\ @]
  <2>3. /\ e \in Line /\ e.seq = kept[n].seq /\ e.by = kept[n].by
        /\ e.whole => kept[n].whole
    BY <2>2 DEF Line
  <2>4. file' = [kept EXCEPT ![n] = e]
    BY <1>5
  <2> HIDE DEF e
  <2>5. /\ file' \in Seq(Line) /\ Len(file') = n
        /\ \A i \in 1 .. n : file'[i] = IF i = n THEN e ELSE kept[i]
    BY <1>4, <2>1, <2>3, <2>4, ExceptSeq
  <2> QED BY <1>1, <1>3, <1>4, <2>3, <2>5
<1>6. /\ file' \in Seq(Line) /\ Len(file') = n
      /\ \A i \in 1 .. n : /\ file'[i].seq = file[i].seq /\ file'[i].by = file[i].by
                           /\ file'[i].whole => file[i].whole
                           /\ i <= synced \/ i < n => file'[i] = file[i]
  <2>1. CASE file' = kept
    BY <1>4, <2>1
  <2>2. CASE n > synced /\ \E whole \in {FALSE, CutAtNewline} :
                              file' = [kept EXCEPT ![n].whole = whole /\ @]
    <3>1. PICK whole \in {FALSE, CutAtNewline} :
              file' = [kept EXCEPT ![n].whole = whole /\ @]
      BY <2>2
    <3>2. /\ file' \in Seq(Line) /\ Len(file') = n
          /\ \A i \in 1 .. n : /\ file'[i].seq = file[i].seq
                               /\ file'[i].by = file[i].by
                               /\ file'[i].whole => file[i].whole
                               /\ i < n => file'[i] = file[i]
      BY <1>5, <2>2, <3>1
    <3>3. \A i \in 1 .. n : i <= synced => i < n
      BY <1>1, <1>3, <2>2
    <3> QED BY <3>2, <3>3
  <2> QED BY <1>2, <2>1, <2>2 DEF kept
<1>7. ended' \in BOOLEAN
  BY <1>1, <1>2 DEF TypeOK
<1>8. n = 0 => ended'
  <2> SUFFICES ASSUME n = 0 PROVE ended'
    OBVIOUS
  <2>4. ~(n > synced)
    BY <1>1
  <2>1. ended' = (IF n = Len(file) THEN ended ELSE TRUE)
    BY <1>2, <2>4, Zenon
  <2>2. n = Len(file) => file = <<>>
    BY <1>1, EmptySeq
  <2>3. n = Len(file) => ended
    BY <2>2 DEF LogInv
  <2> QED BY <2>1, <2>3
<1>9. pc' = [v \in Writer |-> "idle"] /\ lock' \in {Free, Stale}
      /\ UNCHANGED <<synced, next, acked>> /\ {appends, kills, cuts}' \subseteq Nat
  BY <1>1 DEF PowerLoss, TypeOK
<1>10. TypeOK'
  BY <1>1, <1>2, <1>6, <1>9, <1>7 DEF TypeOK
<1>11. Exclusive' /\ ReadIsFresh'
  BY <1>9 DEF Exclusive, ReadIsFresh, Inside
<1>12. SeqIsPosition' /\ DamageIsLast'
  BY <1>1, <1>2, <1>3, <1>6 DEF LogInv, SeqIsPosition, DamageIsLast
<1>13. file' = <<>> => ended'
  BY <1>6, <1>8, EmptySeq
<1> QED BY <1>2, <1>6, <1>9, <1>10, <1>11, <1>12, <1>13 DEF LogInv

LEMMA LastLineType ==
    ASSUME TypeOK
    PROVE  /\ Len(file) \in Nat
           /\ file = <<>> <=> Len(file) = 0
           /\ file # <<>> => Len(file) \in 1 .. Len(file) /\ LastLine \in Line
<1>1. file \in Seq(Line)
  BY DEF TypeOK
<1>2. Len(file) \in Nat
  BY <1>1, LenProperties
<1>3. file = <<>> <=> Len(file) = 0
  BY <1>1, EmptySeq
<1>4. file # <<>> => Len(file) \in 1 .. Len(file)
  BY <1>2, <1>3
<1>5. file # <<>> => file[Len(file)] \in Line
  BY <1>1, <1>4, ElementOfSeq
<1> QED BY <1>2, <1>3, <1>4, <1>5 DEF LastLine

(* Steps that leave the file alone. *)
LEMMA QuietStep ==
    ASSUME LogInv, UNCHANGED <<file, ended>>, TypeOK', Exclusive',
           \A w \in Writer : pc'[w] = "write" => next'[w] = Len(file) /\ (file # <<>> => LastLine.whole)
    PROVE  LogInv'
BY DEF LogInv, ReadIsFresh, SeqIsPosition, DamageIsLast, LastLine

LEMMA LogStep == LogInv /\ [Next]_vars => LogInv'
<1> SUFFICES ASSUME LogInv, [Next]_vars PROVE LogInv'
  OBVIOUS
<1>typ. TypeOK /\ Exclusive /\ ReadIsFresh /\ Len(file) \in Nat
  BY LenProperties DEF LogInv, TypeOK
<1> USE DEF Inside, Goto
<1>0. CASE UNCHANGED vars
  <2>1. TypeOK' /\ Exclusive'
    BY <1>0, <1>typ DEF vars, fileVars, boundVars, TypeOK, Exclusive
  <2> QED BY <1>0, <1>typ, <2>1, QuietStep DEF vars, fileVars, ReadIsFresh
<1>1. ASSUME NEW w \in Writer, Begin(w) \/ TimeOut(w) PROVE LogInv'
  <2>1. TypeOK' /\ Exclusive'
    BY <1>1, <1>typ DEF Begin, TimeOut, fileVars, boundVars, TypeOK, Exclusive
  <2> QED BY <1>1, <1>typ, <2>1, QuietStep DEF Begin, TimeOut, fileVars, TypeOK, ReadIsFresh
<1>2. ASSUME NEW w \in Writer, Acquire(w) PROVE LogInv'
  <2>1. TypeOK' /\ Exclusive'
    BY <1>2, <1>typ, WriterAssumption DEF Acquire, fileVars, boundVars, TypeOK, Exclusive
  <2> QED BY <1>2, <1>typ, <2>1, QuietStep DEF Acquire, fileVars, TypeOK, ReadIsFresh
<1>3. ASSUME NEW w \in Writer, ReadSeq(w) PROVE LogInv'
  <2>1. file # <<>> /\ LastLine.whole => LastLine.seq = Len(file) - 1 /\ LastLine.seq \in Nat
    BY <1>typ, LastLineType DEF LogInv, SeqIsPosition, LastLine, Line
  <2>6. next' \in [Writer -> Nat]
    BY <1>3, <1>typ, <2>1, LastLineType DEF ReadSeq, TypeOK
  <2>7. pc' \in [Writer -> {"idle", "want"} \cup Inside]
    BY <1>3, <1>typ DEF ReadSeq, TypeOK
  <2>2. TypeOK'
    BY <1>3, <1>typ, <2>6, <2>7 DEF ReadSeq, fileVars, boundVars, TypeOK
  <2>3. Exclusive'
    BY <1>3, <1>typ DEF ReadSeq, TypeOK, Exclusive
  <2>4. \/ /\ next'[w] = Len(file) /\ pc'[w] = "write"
           /\ file # <<>> => LastLine.whole
        \/ pc'[w] = "release"
    BY <1>3, <1>typ, <2>1, LastLineType DEF ReadSeq, TypeOK
  <2>5. \A v \in Writer \ {w} : pc'[v] = pc[v] /\ next'[v] = next[v]
    BY <1>3, <1>typ DEF ReadSeq, TypeOK
  <2> QED BY <1>3, <1>typ, <2>2, <2>3, <2>4, <2>5, QuietStep DEF ReadSeq, fileVars, ReadIsFresh
<1>4. ASSUME NEW w \in Writer, WriteLine(w) PROVE LogInv'
  <2>1. ended' \in BOOLEAN
    BY <1>4 DEF WriteLine
  <2> QED BY <1>4, <1>typ, <2>1, WriteStep DEF WriteLine, boundVars, TypeOK
<1>5. ASSUME NEW w \in Writer, WriteIsCut(w) PROVE LogInv'
  <2>1. PICK whole \in {FALSE, CutAtNewline} : Put(w, whole)
    BY <1>5 DEF WriteIsCut
  <2>2. whole \in BOOLEAN
    BY CutAssumption
  <2>3. ended' \in BOOLEAN
    BY <1>5 DEF WriteIsCut
  <2>4. {appends, kills, cuts}' \subseteq Nat
    BY <1>5, <1>typ DEF WriteIsCut, TypeOK
  <2>5. pc[w] = "write" /\ Goto(w, "release") /\ UNCHANGED <<synced, lock, next, acked>>
    BY <1>5 DEF WriteIsCut
  <2> QED BY <2>1, <2>2, <2>3, <2>4, <2>5, WriteStep
<1>6. ASSUME NEW w \in Writer, Sync(w) PROVE LogInv'
  <2>1. [seq |-> next[w], by |-> w] \in Event
    BY <1>typ DEF TypeOK, Event
  <2>2. TypeOK' /\ Exclusive'
    BY <1>6, <1>typ, <2>1 DEF Sync, boundVars, TypeOK, Exclusive
  <2> QED BY <1>6, <1>typ, <2>2, QuietStep DEF Sync, TypeOK, ReadIsFresh
<1>7. ASSUME NEW w \in Writer, SyncFails(w) PROVE LogInv'
  <2>1. TypeOK' /\ Exclusive'
    BY <1>7, <1>typ DEF SyncFails, fileVars, TypeOK, Exclusive
  <2> QED BY <1>7, <1>typ, <2>1, QuietStep DEF SyncFails, fileVars, TypeOK, ReadIsFresh
<1>8. ASSUME NEW w \in Writer, Release(w) PROVE LogInv'
  <2>1. TypeOK' /\ Exclusive'
    BY <1>8, <1>typ DEF Release, fileVars, boundVars, TypeOK, Exclusive
  <2> QED BY <1>8, <1>typ, <2>1, QuietStep DEF Release, fileVars, TypeOK, ReadIsFresh
<1>9. ASSUME NEW w \in Writer, Kill(w) PROVE LogInv'
  <2>1. TypeOK' /\ Exclusive'
    BY <1>9, <1>typ DEF Kill, fileVars, TypeOK, Exclusive
  <2> QED BY <1>9, <1>typ, <2>1, QuietStep DEF Kill, fileVars, TypeOK, ReadIsFresh
<1>10. CASE PowerLoss
  BY <1>10, PowerLossStep
<1>11. CASE UserRemovesLock
  <2>1. TypeOK' /\ Exclusive'
    BY <1>11, <1>typ DEF UserRemovesLock, fileVars, boundVars, TypeOK, Exclusive
  <2> QED BY <1>11, <1>typ, <2>1, QuietStep DEF UserRemovesLock, fileVars, ReadIsFresh
<1> HIDE DEF Inside, Goto
<1> QED
  BY <1>0, <1>1, <1>2, <1>3, <1>4, <1>5, <1>6, <1>7, <1>8, <1>9, <1>10, <1>11
  DEF Next, Step

LEMMA LogInvariant == Spec => []LogInv
BY LogInit, LogStep, PTL DEF Spec

(* Every variable keeps its shape.                                         *)
THEOREM LogTypeCorrect == Spec => []TypeOK
<1>1. LogInv => TypeOK
  BY DEF LogInv
<1> QED BY <1>1, LogInvariant, PTL

(* A record's seq is its position in the file, and no event is ever appended *)
(* after damage.                                                           *)
THEOREM LogAlwaysReplays == Spec => []LogReplays
<1>1. LogInv => LogReplays
  BY DEF LogInv, LogReplays
<1> QED BY <1>1, LogInvariant, PTL

-----------------------------------------------------------------------------
(* Durability, for the media that never cut a line exactly before its      *)
(* newline: the durable part of the file is whole, and it is an atomic log.  *)

CutShows == ~ended => file # <<>> /\ ~LastLine.whole

DurableInv ==
    /\ CutShows
    /\ \A i \in 1 .. synced : file[i].whole
    /\ \A w \in Writer : pc[w] = "sync" =>
           file # <<>> /\ LastLine = [seq |-> next[w], by |-> w, whole |-> TRUE]
    /\ \A e \in acked :
           /\ e.seq < synced
           /\ file[e.seq + 1] = [seq |-> e.seq, by |-> e.by, whole |-> TRUE]

(* Only Sync touches the durable part, and only by making it longer. *)
DurableKept ==
    /\ synced' = synced
    /\ acked' = acked
    /\ Len(file') >= synced
    /\ \A i \in 1 .. synced : file'[i] = file[i]

LEMMA PowerLossCutShows ==
    ASSUME ~CutAtNewline, LogInv, CutShows, PowerLoss
    PROVE  CutShows'
<1> SUFFICES ASSUME ~ended' PROVE file' # <<>> /\ ~file'[Len(file')].whole
  BY DEF CutShows, LastLine
<1>1. /\ LogInv' /\ Len(file) \in Nat /\ Len(file') \in Nat /\ synced \in Nat
      /\ Len(file') \in synced .. Len(file)
      /\ \A i \in 1 .. Len(file') : file'[i].whole => file[i].whole
  BY PowerLossStep, LenProperties DEF LogInv, TypeOK
<1>2. PICK n \in synced .. Len(file) :
          \/ /\ file' = SubSeq(file, 1, n)
             /\ ended' = (IF n = Len(file) THEN ended ELSE TRUE)
          \/ /\ n > synced
             /\ \E whole \in {FALSE, CutAtNewline} :
                   file' = [SubSeq(file, 1, n) EXCEPT ![n].whole = whole /\ @]
             /\ ended' = FALSE
  BY DEF PowerLoss
<1> DEFINE kept == SubSeq(file, 1, n)
<1>3. /\ kept \in Seq(Line) /\ Len(kept) = n /\ n \in Nat
      /\ \A i \in 1 .. n : kept[i] = file[i]
  <2>1. n \in Nat /\ \A i \in 1 .. n : file[i] \in Line
    BY <1>1, <1>2, ElementOfSeq DEF LogInv, TypeOK
  <2> QED BY <2>1, SubSeqProperties
<1> HIDE DEF kept
<1>4. CASE file' = kept /\ ended' = (IF n = Len(file) THEN ended ELSE TRUE)
  <2>1. n = Len(file) /\ ~ended
    BY <1>4, Zenon
  <2>2. file # <<>> /\ ~file[Len(file)].whole
    BY <2>1 DEF CutShows, LastLine
  <2>3. Len(file) # 0
    BY <2>2, LastLineType DEF LogInv
  <2>4. Len(file') = Len(file) /\ Len(file') \in 1 .. Len(file')
    BY <1>1, <1>3, <1>4, <2>1, <2>3
  <2>5. file' # <<>>
    BY <2>3, <2>4, EmptySeq
  <2> QED BY <1>1, <2>2, <2>4, <2>5
<1>5. CASE n > synced /\ \E whole \in {FALSE, CutAtNewline} :
                            file' = [kept EXCEPT ![n].whole = whole /\ @]
  <2>1. n \in 1 .. Len(kept) /\ kept[n] \in Line
    BY <1>1, <1>3, <1>5, ElementOfSeq
  <2>2. file' = [kept EXCEPT ![n] = [kept[n] EXCEPT !.whole = FALSE]]
    <3>1. PICK whole \in {FALSE, CutAtNewline} :
              file' = [kept EXCEPT ![n].whole = whole /\ @]
      BY <1>5
    <3>2. (whole /\ kept[n].whole) = FALSE
      BY <3>1, CutAssumption, Zenon
    <3> QED BY <3>1, <3>2, Zenon
  <2>3. [kept[n] EXCEPT !.whole = FALSE] \in Line
    BY <2>1 DEF Line
  <2>4. Len(file') = n /\ file'[n] = [kept[n] EXCEPT !.whole = FALSE]
    BY <1>3, <2>1, <2>2, <2>3, ExceptSeq
  <2>5. ~file'[n].whole
    BY <2>1, <2>4 DEF Line
  <2>6. file' # <<>>
    BY <1>3, <2>1, <2>4, EmptySeq
  <2> QED BY <2>4, <2>5, <2>6
<1> QED BY <1>2, <1>4, <1>5 DEF kept

LEMMA DurableStep ==
    ASSUME ~CutAtNewline, LogInv, LogInv', DurableInv, [Next]_vars
    PROVE  DurableInv' /\ (DurableKept \/ \E w \in Writer : Sync(w))
<1>typ. TypeOK /\ Exclusive /\ Len(file) \in Nat /\ synced \in 0 .. Len(file)
  BY LenProperties DEF LogInv, TypeOK
<1>acked. \A e \in acked : e.seq \in Nat
  BY <1>typ DEF TypeOK, Event
<1> USE DEF Inside, Goto
<1>quiet. ASSUME UNCHANGED <<file, ended, synced, acked>>,
                 \A w \in Writer : pc'[w] = "sync" => pc[w] = "sync" /\ next'[w] = next[w]
          PROVE  DurableInv' /\ DurableKept
  BY <1>quiet, <1>typ DEF DurableInv, CutShows, LastLine, DurableKept
<1>0. CASE UNCHANGED vars
  BY <1>0, <1>quiet DEF vars, fileVars
<1>1. ASSUME NEW w \in Writer,
             Begin(w) \/ TimeOut(w) \/ Acquire(w) \/ ReadSeq(w) \/ SyncFails(w)
                \/ Release(w) \/ Kill(w)
      PROVE  DurableInv' /\ DurableKept
  BY <1>1, <1>typ, <1>quiet DEF Begin, TimeOut, Acquire, ReadSeq, SyncFails, Release,
                                Kill, fileVars, TypeOK
<1>2. ASSUME NEW w \in Writer, NEW whole \in BOOLEAN, pc[w] = "write", Put(w, whole),
             UNCHANGED <<synced, next, acked>>,
             \A v \in Writer \ {w} : pc'[v] = pc[v],
             \/ whole /\ ended' /\ pc'[w] = "sync"
             \/ ~whole /\ pc'[w] = "release"
      PROVE  DurableInv' /\ DurableKept
  <2>1. ended /\ next[w] = Len(file)
    BY <1>2 DEF LogInv, ReadIsFresh, DurableInv, CutShows
  <2>2. /\ Len(file') = Len(file) + 1
        /\ \A i \in 1 .. Len(file) : file'[i] = file[i]
        /\ file'[Len(file')] = [seq |-> Len(file), by |-> w, whole |-> whole]
    BY <1>2, <2>1, PutProperties
  <2>3. file' # <<>>
    BY <1>typ, <2>2, EmptySeq
  <2>4. DurableKept
    BY <1>2, <1>typ, <2>2 DEF DurableKept
  <2>5. CutShows'
    <3>1. CASE whole /\ ended'
      BY <3>1 DEF CutShows
    <3>2. CASE ~whole
      BY <2>2, <2>3, <3>2 DEF CutShows, LastLine
    <3> QED BY <1>2, <3>1, <3>2
  <2>6. \A v \in Writer : pc'[v] = "sync" =>
            file' # <<>> /\ LastLine' = [seq |-> next'[v], by |-> v, whole |-> TRUE]
    <3> SUFFICES ASSUME NEW v \in Writer, pc'[v] = "sync"
                 PROVE  LastLine' = [seq |-> next'[v], by |-> v, whole |-> TRUE]
      BY <2>3
    <3>1. v = w
      BY <1>2, <1>typ DEF Exclusive
    <3>2. whole = TRUE
      BY <1>2, <3>1
    <3> QED BY <1>2, <2>1, <2>2, <3>1, <3>2 DEF LastLine
  <2>7. \A i \in 1 .. synced' : file'[i].whole
    BY <2>4 DEF DurableKept, DurableInv
  <2>8. \A e \in acked' :
           /\ e.seq < synced'
           /\ file'[e.seq + 1] = [seq |-> e.seq, by |-> e.by, whole |-> TRUE]
    <3> SUFFICES ASSUME NEW e \in acked
                 PROVE  /\ e.seq < synced
                        /\ file'[e.seq + 1] = [seq |-> e.seq, by |-> e.by, whole |-> TRUE]
      BY <2>4 DEF DurableKept
    <3>1. e.seq < synced /\ file[e.seq + 1] = [seq |-> e.seq, by |-> e.by, whole |-> TRUE]
      BY DEF DurableInv
    <3>2. e.seq + 1 \in 1 .. synced
      BY <1>typ, <1>acked, <3>1
    <3>3. file'[e.seq + 1] = file[e.seq + 1]
      BY <2>4, <3>2 DEF DurableKept
    <3> QED BY <3>1, <3>3
  <2> QED BY <2>4, <2>5, <2>6, <2>7, <2>8 DEF DurableInv
<1>3. ASSUME NEW w \in Writer, WriteLine(w) PROVE DurableInv' /\ DurableKept
  BY <1>3, <1>typ, <1>2 DEF WriteLine, TypeOK
<1>4. ASSUME NEW w \in Writer, WriteIsCut(w) PROVE DurableInv' /\ DurableKept
  <2>1. Put(w, FALSE)
    BY <1>4, CutAssumption DEF WriteIsCut
  <2>2. /\ pc[w] = "write" /\ pc'[w] = "release"
        /\ \A v \in Writer \ {w} : pc'[v] = pc[v]
        /\ UNCHANGED <<synced, next, acked>>
    BY <1>4, <1>typ DEF WriteIsCut, TypeOK
  <2> QED BY <2>1, <2>2, <1>2
<1>5. ASSUME NEW w \in Writer, Sync(w) PROVE DurableInv'
  <2>1. /\ file' = file /\ ended' = ended /\ next' = next /\ synced' = Len(file)
        /\ acked' = acked \cup {[seq |-> next[w], by |-> w]}
        /\ \A v \in Writer : pc'[v] = "sync" => pc[v] = "sync"
    BY <1>5, <1>typ DEF Sync, TypeOK
  <2>2. file # <<>> /\ LastLine = [seq |-> next[w], by |-> w, whole |-> TRUE]
    BY <1>5 DEF DurableInv, Sync
  <2>3. Len(file) \in 1 .. Len(file) /\ file[Len(file)].whole
    BY <2>2, <1>typ, LastLineType DEF LastLine
  <2>4. \A i \in 1 .. Len(file) : file[i].whole
    BY <2>3 DEF LogInv, DamageIsLast
  <2>5. next[w] = Len(file) - 1
    BY <2>2, <2>3 DEF LogInv, SeqIsPosition, LastLine
  <2>6. next[w] < Len(file) /\ file[next[w] + 1] = [seq |-> next[w], by |-> w, whole |-> TRUE]
    BY <1>typ, <2>2, <2>5 DEF LastLine
  <2>7. \A e \in acked' :
           /\ e.seq < Len(file)
           /\ file[e.seq + 1] = [seq |-> e.seq, by |-> e.by, whole |-> TRUE]
    <3> SUFFICES ASSUME NEW e \in acked
                 PROVE  /\ e.seq < Len(file)
                        /\ file[e.seq + 1] = [seq |-> e.seq, by |-> e.by, whole |-> TRUE]
      <4> DEFINE new == [seq |-> next[w], by |-> w]
      <4>1. new.seq = next[w] /\ new.by = w
        OBVIOUS
      <4>2. /\ new.seq < Len(file)
            /\ file[new.seq + 1] = [seq |-> new.seq, by |-> new.by, whole |-> TRUE]
        BY <2>6, <4>1
      <4>3. acked' = acked \cup {new}
        BY <2>1
      <4> HIDE DEF new
      <4> QED BY <4>2, <4>3
    <3>1. e.seq < synced /\ file[e.seq + 1] = [seq |-> e.seq, by |-> e.by, whole |-> TRUE]
      BY DEF DurableInv
    <3> QED BY <1>typ, <1>acked, <3>1
  <2> QED BY <2>1, <2>4, <2>7 DEF DurableInv, CutShows, LastLine
<1>6. CASE PowerLoss
  <2>1. DurableKept
    <3>1. synced' = synced /\ acked' = acked
      BY <1>6 DEF PowerLoss
    <3>2. Len(file') \in synced .. Len(file)
      BY <1>6, PowerLossStep
    <3>3. \A i \in 1 .. Len(file') : i <= synced => file'[i] = file[i]
      BY <1>6, PowerLossStep, Zenon
    <3> QED BY <1>typ, <3>1, <3>2, <3>3 DEF DurableKept
  <2>2. CutShows'
    BY <1>6, PowerLossCutShows DEF DurableInv
  <2>3. \A w \in Writer : pc'[w] = "idle"
    BY <1>6 DEF PowerLoss
  <2>4. \A i \in 1 .. synced' : file'[i].whole
    BY <2>1 DEF DurableKept, DurableInv
  <2>5. \A e \in acked' :
           /\ e.seq < synced'
           /\ file'[e.seq + 1] = [seq |-> e.seq, by |-> e.by, whole |-> TRUE]
    <3> SUFFICES ASSUME NEW e \in acked
                 PROVE  /\ e.seq < synced
                        /\ file'[e.seq + 1] = [seq |-> e.seq, by |-> e.by, whole |-> TRUE]
      BY <2>1 DEF DurableKept
    <3>1. e.seq < synced /\ file[e.seq + 1] = [seq |-> e.seq, by |-> e.by, whole |-> TRUE]
      BY DEF DurableInv
    <3>2. e.seq + 1 \in 1 .. synced
      BY <1>typ, <1>acked, <3>1
    <3> QED BY <2>1, <3>1, <3>2 DEF DurableKept
  <2> QED BY <2>1, <2>2, <2>3, <2>4, <2>5 DEF DurableInv
<1>7. CASE UserRemovesLock
  BY <1>7, <1>quiet DEF UserRemovesLock, fileVars
<1> HIDE DEF Inside, Goto
<1> QED BY <1>0, <1>1, <1>3, <1>4, <1>5, <1>6, <1>7 DEF Next, Step

LEMMA DurableInvariant ==
    ASSUME ~CutAtNewline
    PROVE  Spec => [](LogInv /\ DurableInv)
<1>1. Init => DurableInv
  BY DEF Init, DurableInv, CutShows
<1>2. LogInv /\ DurableInv /\ [Next]_vars => (LogInv /\ DurableInv)'
  BY LogStep, DurableStep
<1> QED BY <1>1, <1>2, LogInit, PTL DEF Spec

(* An event whose append returned stays readable at its position.          *)
THEOREM AckedIsDurable ==
    ASSUME ~CutAtNewline
    PROVE  Spec => []AckedIsReadable
<1>1. LogInv /\ DurableInv => AckedIsReadable
  <2> SUFFICES ASSUME LogInv, DurableInv, NEW e \in acked
               PROVE  /\ e.seq < Len(file)
                      /\ file[e.seq + 1] = [seq |-> e.seq, by |-> e.by, whole |-> TRUE]
    BY DEF AckedIsReadable
  <2>1. e.seq \in Nat /\ synced \in 0 .. Len(file) /\ Len(file) \in Nat
    BY LenProperties DEF LogInv, TypeOK, Event
  <2> QED BY <2>1 DEF DurableInv
<1> QED BY <1>1, DurableInvariant, PTL

(* What is durable is an atomic log: it only grows, and every event's seq is *)
(* its position.                                                           *)
THEOREM FileImplementsLog ==
    ASSUME ~CutAtNewline
    PROVE  Spec => ImplementsAtomicLog
<1>1. Init => Atomic!Init
  BY DEF Init, Atomic!Init, DurableLog
<1>2. ASSUME LogInv, LogInv', DurableInv, DurableInv', [Next]_vars
      PROVE  [Atomic!Extend]_DurableLog
  <2>1. /\ TypeOK /\ file \in Seq(Line) /\ Len(file) \in Nat /\ synced \in 0 .. Len(file)
    BY <1>2, LenProperties DEF LogInv, TypeOK
  <2>2. CASE DurableKept
    BY <2>2, <2>1 DEF DurableKept, DurableLog
  <2>3. ASSUME NEW w \in Writer, Sync(w), synced # Len(file)
        PROVE  Atomic!Extend
    <3> DEFINE n == Len(file)
               e(i) == [seq |-> file[i].seq, by |-> file[i].by]
    <3>1. /\ DurableLog = [i \in 1 .. synced |-> e(i)]
          /\ DurableLog' = [i \in 1 .. n |-> e(i)]
      BY <2>3 DEF Sync, DurableLog
    <3>2. \A i \in 1 .. n : file[i] \in Line /\ file[i].whole
      BY <1>2, <2>1, <2>3, ElementOfSeq DEF DurableInv, Sync
    <3>3. \A i \in 1 .. n : e(i) \in [seq : Nat, by : Writer] /\ e(i).seq = i - 1
      BY <1>2, <3>2 DEF Line, LogInv, SeqIsPosition
    <3>4. /\ DurableLog' \in Seq([seq : Nat, by : Writer]) /\ Len(DurableLog') = n
          /\ Len(DurableLog) = synced
      BY <2>1, <3>1, <3>3
    <3>5. \A i \in 1 .. synced : DurableLog'[i] = DurableLog[i]
      BY <2>1, <3>1
    <3>6. \A i \in 1 .. n : DurableLog'[i].seq = i - 1
      BY <3>1, <3>3
    <3> QED BY <2>1, <2>3, <3>4, <3>5, <3>6 DEF Atomic!Extend, Atomic!Event
  <2>4. ASSUME NEW w \in Writer, Sync(w), synced = Len(file)
        PROVE  DurableLog' = DurableLog
    BY <2>4 DEF Sync, DurableLog
  <2> QED BY <1>2, DurableStep, <2>2, <2>3, <2>4
<1>3. LogInv /\ DurableInv /\ (LogInv /\ DurableInv)' /\ [Next]_vars => [Atomic!Extend]_DurableLog
  BY <1>2
<1> QED
  BY <1>1, <1>3, DurableInvariant, PTL DEF Spec, ImplementsAtomicLog, Atomic!Spec
=============================================================================
