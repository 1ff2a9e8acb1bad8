--------------------------- MODULE DispatchProofs ---------------------------
(***************************************************************************)
(* Proofs about Dispatch, for any number of claims, runs, kills and helpers. *)
(***************************************************************************)
EXTENDS Dispatch, TLAPS

(* The last spawn belongs to the attempt in progress. *)
Spawned == {"spawn", "wait", "drain", "parse"}

(* A claim has two tries of two attempts, and an attempt has one spawn. *)
CountInv ==
    /\ turn = spawns - base
    /\ claims = 0 => spawns = 0
    /\ spawns <= 4 * claims
    /\ Dispatching => claims > 0
    /\ pc = "try" => spawns <= 4 * (claims - 1) + 2 * try
    /\ pc = "argv" => spawns <= 4 * (claims - 1) + 2 * try + again
    /\ pc \in Spawned => spawns <= 4 * (claims - 1) + 2 * try + again + 1
    /\ pc = "timeout" => spawns <= 4 * (claims - 1) + 2 * try + 2
    /\ pc \in Spawned \cup {"judge", "timeout"} => tryFrom <= spawns
    /\ pc \in Spawned => spawns > base

(* What is running was spawned, and only an orphan runs while nobody waits. *)
AgentInv ==
    /\ \A s \in Spawn : s > spawns => leader[s] = "none" /\ helper[s] = "none"
    /\ OneAgentAtATime

(* Within a run, each spawn has the directory of its number. *)
BytesInv ==
    /\ \A s \in Spawn : base < s /\ s <= spawns => dirOf[s] = s - base - 1
    /\ pc \in {"spawn", "wait", "drain"} => spawns \notin heard
    /\ RunKeepsItsBytes

Excused(s) == helper[s] # "none" \/ s \in orphans

(* What is dirty in a dispatch was written in this try, or by a process that *)
(* outlived its own.                                                       *)
WorkInv ==
    /\ pc = "try" => \A s \in dirt : Excused(s)
    /\ pc \in {"argv", "judge"} \cup Spawned => \A s \in dirt : s >= tryFrom \/ Excused(s)

Inv == TypeOK /\ CountInv /\ AgentInv /\ BytesInv /\ WorkInv

-----------------------------------------------------------------------------

LEMMA SpawnIs == Spawn = 1 .. 4 * MaxClaims /\ \A s \in Spawn : s - 1 \in Directory
BY DispatchAssumption DEF Spawn, MaxTries, Directory

LEMMA Numbers ==
    ASSUME TypeOK, CountInv
    PROVE  /\ spawns \in Nat /\ spawns <= 4 * MaxClaims
           /\ base \in Nat /\ base <= spawns /\ turn \in Nat
           /\ claims \in Nat /\ claims <= MaxClaims
           /\ try \in {0, 1} /\ again \in {0, 1}
           /\ pc = "argv" => spawns + 1 \in Spawn /\ turn \in Directory
           /\ pc \in Spawned => spawns \in Spawn /\ dirOf[spawns] \in Directory
<1>1. /\ spawns \in Nat /\ spawns <= 4 * MaxClaims
      /\ base \in Nat /\ base <= spawns /\ turn \in Nat
      /\ claims \in Nat /\ claims <= MaxClaims
      /\ try \in {0, 1} /\ again \in {0, 1}
  BY DispatchAssumption, SpawnIs DEF TypeOK, CountInv, MaxTries
<1>2. ASSUME pc = "argv"
      PROVE  spawns + 1 \in Spawn /\ turn \in Directory
  <2>1. spawns + 1 <= 4 * MaxClaims /\ turn + 1 <= 4 * MaxClaims
    BY <1>1, <1>2, DispatchAssumption DEF CountInv, Dispatching
  <2>2. spawns + 1 \in Spawn /\ turn + 1 \in Spawn
    BY <1>1, <2>1, SpawnIs, DispatchAssumption
  <2>3. (turn + 1) - 1 = turn
    BY <1>1
  <2> QED BY <2>2, <2>3, SpawnIs
<1>3. ASSUME pc \in Spawned
      PROVE  spawns \in Spawn /\ dirOf[spawns] \in Directory
  <2>1. spawns \in Spawn
    BY <1>1, <1>3, SpawnIs, DispatchAssumption DEF CountInv
  <2> QED BY <2>1 DEF TypeOK
<1> QED BY <1>1, <1>2, <1>3

LEMMA DispatchInit == Init => Inv
BY DispatchAssumption, SpawnIs
   DEF Init, Inv, TypeOK, CountInv, AgentInv, BytesInv, WorkInv, OneAgentAtATime,
       RunKeepsItsBytes, Dispatching, Spawned, MaxTries, Directory

LEMMA TypeStep ==
    ASSUME TypeOK, CountInv, AgentInv, [Next]_vars
    PROVE  TypeOK'
<1> USE DispatchAssumption, Numbers, SpawnIs
    DEF TypeOK, MaxTries,
        adapterVars, agentVars, boundVars
<1>0. CASE UNCHANGED vars
  BY <1>0 DEF vars, Dispatching, Running, Helping
<1>1. CASE StartRun
  BY <1>1 DEF StartRun
<1>2. CASE ClaimTask
  BY <1>2 DEF ClaimTask
<1>3. CASE EndRun \/ GiveUpAfterTimeout \/ SpawnFails \/ ParseFails
  BY <1>3 DEF EndRun, GiveUpAfterTimeout, SpawnFails, ParseFails
<1>4. CASE BeginTry
  BY <1>4 DEF BeginTry
<1>5. CASE RetryAfterTimeout
  BY <1>5 DEF RetryAfterTimeout
<1>6. CASE JudgeTurn
  BY <1>6 DEF JudgeTurn
<1>7. CASE Prepare
  <2>1. spawns + 1 \in Spawn /\ turn \in Directory
    BY <1>7 DEF Prepare
  <2>2. dirOf' \in [Spawn -> Directory]
    BY <1>7, <2>1 DEF Prepare
  <2>3. /\ spawns' \in Spawn \cup {0}
        /\ turn' \in 0 .. spawns' - base' /\ tryFrom' \in 0 .. spawns' + 1
    BY <1>7, <2>1 DEF Prepare
  <2>4. heard' \subseteq 1 .. spawns' /\ orphans' \subseteq 1 .. spawns' /\ dirt' \subseteq 1 .. spawns'
    BY <1>7 DEF Prepare
  <2>5. UNCHANGED <<try, again, base, log, leader, helper, claims, runs, kills>> /\ pc' = "spawn"
    BY <1>7 DEF Prepare
  <2> QED BY <2>2, <2>3, <2>4, <2>5
<1>8. CASE SpawnAgent
  BY <1>8 DEF SpawnAgent
<1>9. CASE Communicated
  <2>1. spawns \in Spawn /\ dirOf[spawns] \in Directory
    BY <1>9 DEF Communicated, Spawned
  <2>2. log' \in [Directory -> Spawn \cup {Nobody}]
    BY <1>9, <2>1 DEF Communicated, WriteLog
  <2>3. heard' \subseteq 1 .. spawns
    BY <1>9, <2>1 DEF Communicated
  <2>4. pc' = "parse" /\ UNCHANGED <<try, again, spawns, base, tryFrom, turn, dirOf, leader, helper,
                                    orphans, dirt, claims, runs, kills>>
    BY <1>9 DEF Communicated
  <2> QED BY <2>2, <2>3, <2>4
<1>10. CASE TimedOut
  BY <1>10 DEF TimedOut, Helping
<1>11. CASE Drained
  <2>1. spawns \in Spawn /\ dirOf[spawns] \in Directory
    BY <1>11 DEF Drained, Spawned
  <2>2. log' \in [Directory -> Spawn \cup {Nobody}]
    BY <1>11, <2>1 DEF Drained, WriteLog
  <2>3. heard' \subseteq 1 .. spawns
    <3>1. heard' \subseteq heard \cup {spawns}
      BY <1>11 DEF Drained
    <3>2. spawns \in 1 .. spawns
      BY <2>1
    <3> QED BY <3>1, <3>2
  <2>4. pc' = "timeout" /\ UNCHANGED <<try, again, spawns, base, tryFrom, turn, dirOf, leader, helper,
                                      orphans, dirt, claims, runs, kills>>
    BY <1>11 DEF Drained
  <2> QED BY <2>2, <2>3, <2>4
<1>12. CASE Parsed \/ ParseRetry
  <2>1. again' \in 0 .. 1 /\ pc' \in {"judge", "argv"}
    BY <1>12 DEF Parsed, ParseRetry
  <2>2. UNCHANGED <<try, spawns, base, tryFrom, turn, dirOf, log, heard, leader, helper,
                    orphans, dirt, claims, runs, kills>>
    BY <1>12 DEF Parsed, ParseRetry
  <2> QED BY <2>1, <2>2
<1>13. ASSUME NEW s \in Spawn, LeaderExits(s) \/ HelperStarts(s) \/ HelperEnds(s)
      PROVE  TypeOK'
  BY <1>13 DEF LeaderExits, HelperStarts, HelperEnds, Helping
<1>14. ASSUME NEW s \in Spawn, AgentWrites(s) PROVE TypeOK'
  <2>1. leader[s] # "none" \/ helper[s] # "none"
    BY <1>14 DEF AgentWrites, Running, Helping
  <2>2. s \in 1 .. spawns
    BY <2>1 DEF AgentInv
  <2>3. dirt' = dirt \cup {s} /\ dirt' \subseteq 1 .. spawns
    BY <1>14, <2>2 DEF AgentWrites
  <2>4. UNCHANGED <<pc, try, again, spawns, base, tryFrom, turn, dirOf, log, heard, leader,
                    helper, orphans, claims, runs, kills>>
    BY <1>14 DEF AgentWrites
  <2> QED BY <2>3, <2>4
<1>15. CASE Kill
  <2>1. kills' \in 0 .. MaxKills /\ pc' = "idle"
    BY <1>15 DEF Kill
  <2>3. orphans' \subseteq 1 .. spawns
    <3>1. orphans' = orphans \cup {t \in 1 .. spawns : leader[t] = "running"}
      BY <1>15 DEF Kill
    <3> QED BY <3>1
  <2>2. UNCHANGED <<try, again, spawns, base, tryFrom, turn, dirOf, log, heard, leader,
                    helper, dirt, claims, runs>>
    BY <1>15 DEF Kill
  <2> QED BY <2>1, <2>2, <2>3
<1>16. CASE UserTidies
  BY <1>16 DEF UserTidies
<1> HIDE DEF TypeOK, MaxTries,
        adapterVars, agentVars, boundVars
<1> QED
  BY <1>0, <1>1, <1>2, <1>3, <1>4, <1>5, <1>6, <1>7, <1>8, <1>9, <1>10, <1>11, <1>12, <1>13, <1>14, <1>15, <1>16
  DEF Next, Run, Adapter, Agent

LEMMA CountStep ==
    ASSUME TypeOK, CountInv, [Next]_vars
    PROVE  CountInv'
<1> USE DispatchAssumption, Numbers, SpawnIs
    DEF CountInv, Dispatching, Spawned, MaxTries,
        adapterVars, agentVars, boundVars
<1>0. CASE UNCHANGED vars
  BY <1>0 DEF vars
<1>1. CASE StartRun
  BY <1>1 DEF StartRun
<1>2. CASE ClaimTask
  BY <1>2 DEF ClaimTask
<1>3. CASE EndRun \/ GiveUpAfterTimeout \/ SpawnFails \/ ParseFails
  BY <1>3 DEF EndRun, GiveUpAfterTimeout, SpawnFails, ParseFails
<1>4. CASE BeginTry
  BY <1>4 DEF BeginTry
<1>5. CASE RetryAfterTimeout
  BY <1>5 DEF RetryAfterTimeout
<1>6. CASE JudgeTurn
  BY <1>6 DEF JudgeTurn
<1>7. CASE Prepare
  <2>1. /\ pc = "argv" /\ pc' = "spawn"
        /\ spawns' = spawns + 1 /\ turn' = turn + 1
        /\ UNCHANGED <<try, again, base, tryFrom, claims>>
    BY <1>7 DEF Prepare
  <2>n. /\ spawns \in Nat /\ base \in Nat /\ base <= spawns /\ claims \in Nat
        /\ try \in {0, 1} /\ again \in {0, 1}
    BY Numbers
  <2>c. claims > 0 /\ spawns <= 4 * (claims - 1) + 2 * try + again /\ turn = spawns - base
    BY <2>1
  <2> HIDE DEF CountInv
  <2>2. spawns' <= 4 * (claims - 1) + 2 * try + again + 1
    BY <2>1, <2>n, <2>c
  <2>3. spawns' <= 4 * claims /\ turn' = spawns' - base' /\ spawns' > base'
    BY <2>1, <2>n, <2>c, <2>2
  <2> USE DEF CountInv
  <2>4. tryFrom' <= spawns'
    BY <2>1 DEF TypeOK
  <2> QED BY <2>1, <2>c, <2>2, <2>3, <2>4
<1>8. CASE SpawnAgent
  BY <1>8 DEF SpawnAgent
<1>9. CASE Communicated
  BY <1>9 DEF Communicated, WriteLog
<1>10. CASE TimedOut
  BY <1>10 DEF TimedOut, Helping
<1>11. CASE Drained
  BY <1>11 DEF Drained, WriteLog
<1>12. CASE Parsed \/ ParseRetry
  BY <1>12 DEF Parsed, ParseRetry
<1>13. ASSUME NEW s \in Spawn, LeaderExits(s) \/ HelperStarts(s) \/ HelperEnds(s)
      PROVE  CountInv'
  BY <1>13 DEF LeaderExits, HelperStarts, HelperEnds, Helping
<1>14. ASSUME NEW s \in Spawn, AgentWrites(s) PROVE CountInv'
  BY <1>14 DEF AgentWrites, Running, Helping
<1>15. CASE Kill
  BY <1>15 DEF Kill
<1>16. CASE UserTidies
  BY <1>16 DEF UserTidies
<1> HIDE DEF CountInv, Dispatching, Spawned, MaxTries,
        adapterVars, agentVars, boundVars
<1> QED
  BY <1>0, <1>1, <1>2, <1>3, <1>4, <1>5, <1>6, <1>7, <1>8, <1>9, <1>10, <1>11, <1>12, <1>13, <1>14, <1>15, <1>16
  DEF Next, Run, Adapter, Agent

LEMMA AgentStep ==
    ASSUME TypeOK, CountInv, AgentInv, [Next]_vars
    PROVE  AgentInv'
<1> USE DispatchAssumption, Numbers, SpawnIs
    DEF TypeOK, CountInv, AgentInv, OneAgentAtATime, Spawned,
        adapterVars, agentVars, boundVars
<1>0. CASE UNCHANGED vars
  BY <1>0 DEF vars, Helping
<1>1. CASE StartRun
  BY <1>1 DEF StartRun
<1>2. CASE ClaimTask
  BY <1>2 DEF ClaimTask
<1>3. CASE EndRun \/ GiveUpAfterTimeout \/ SpawnFails \/ ParseFails
  BY <1>3 DEF EndRun, GiveUpAfterTimeout, SpawnFails, ParseFails
<1>4. CASE BeginTry
  BY <1>4 DEF BeginTry
<1>5. CASE RetryAfterTimeout
  BY <1>5 DEF RetryAfterTimeout
<1>6. CASE JudgeTurn
  BY <1>6 DEF JudgeTurn
<1>7. CASE Prepare
  BY <1>7 DEF Prepare
<1>8. CASE SpawnAgent
  BY <1>8 DEF SpawnAgent
<1>9. CASE Communicated
  BY <1>9 DEF Communicated, WriteLog
<1>10. CASE TimedOut
  BY <1>10 DEF TimedOut, Helping
<1>11. CASE Drained
  BY <1>11 DEF Drained, WriteLog
<1>12. CASE Parsed \/ ParseRetry
  BY <1>12 DEF Parsed, ParseRetry
<1>13. ASSUME NEW s \in Spawn, LeaderExits(s) \/ HelperStarts(s) \/ HelperEnds(s)
      PROVE  AgentInv'
  BY <1>13 DEF LeaderExits, HelperStarts, HelperEnds, Helping
<1>14. ASSUME NEW s \in Spawn, AgentWrites(s) PROVE AgentInv'
  BY <1>14 DEF AgentWrites, Running, Helping
<1>15. CASE Kill
  BY <1>15 DEF Kill
<1>16. CASE UserTidies
  BY <1>16 DEF UserTidies
<1> HIDE DEF TypeOK, CountInv, AgentInv, OneAgentAtATime, Spawned,
        adapterVars, agentVars, boundVars
<1> QED
  BY <1>0, <1>1, <1>2, <1>3, <1>4, <1>5, <1>6, <1>7, <1>8, <1>9, <1>10, <1>11, <1>12, <1>13, <1>14, <1>15, <1>16
  DEF Next, Run, Adapter, Agent

LEMMA BytesStep ==
    ASSUME TypeOK, CountInv, BytesInv, [Next]_vars
    PROVE  BytesInv'
<1> USE DispatchAssumption, Numbers, SpawnIs
    DEF TypeOK, CountInv, BytesInv, RunKeepsItsBytes, Spawned,
        adapterVars, agentVars, boundVars
<1>0. CASE UNCHANGED vars
  BY <1>0 DEF vars
<1>1. CASE StartRun
  BY <1>1 DEF StartRun
<1>2. CASE ClaimTask
  BY <1>2 DEF ClaimTask
<1>3. CASE EndRun \/ GiveUpAfterTimeout \/ SpawnFails \/ ParseFails
  BY <1>3 DEF EndRun, GiveUpAfterTimeout, SpawnFails, ParseFails
<1>4. CASE BeginTry
  BY <1>4 DEF BeginTry
<1>5. CASE RetryAfterTimeout
  BY <1>5 DEF RetryAfterTimeout
<1>6. CASE JudgeTurn
  BY <1>6 DEF JudgeTurn
<1>7. CASE Prepare
  <2>1. /\ pc' = "spawn" /\ spawns' = spawns + 1 /\ turn = spawns - base
        /\ dirOf' = [dirOf EXCEPT ![spawns + 1] = turn] /\ spawns + 1 \in Spawn
        /\ UNCHANGED <<base, log, heard>>
    BY <1>7 DEF Prepare
  <2>2. \A t \in Spawn : t <= spawns => dirOf'[t] = dirOf[t]
    BY <2>1
  <2>3. dirOf'[spawns'] = spawns' - base' - 1
    BY <2>1
  <2>4. \A t \in Spawn : t <= spawns + 1 => t <= spawns \/ t = spawns + 1
    OBVIOUS
  <2>5. \A t \in heard : t \in Spawn /\ t <= spawns
    OBVIOUS
  <2>6. \A t \in Spawn : base' < t /\ t <= spawns' => dirOf'[t] = t - base' - 1
    BY <2>1, <2>2, <2>3, <2>4
  <2>7. spawns' \notin heard' /\ \A t \in heard' : t > base' => log'[dirOf'[t]] = t
    BY <2>1, <2>2, <2>5
  <2> QED BY <2>1, <2>6, <2>7
<1>8. CASE SpawnAgent
  BY <1>8 DEF SpawnAgent
<1>9. CASE Communicated
  <2>1. spawns \in Spawn /\ dirOf[spawns] \in Directory /\ spawns > base
    BY <1>9 DEF Communicated
  <2>2. /\ log' = [log EXCEPT ![dirOf[spawns]] = spawns] /\ heard' = heard \cup {spawns}
        /\ pc' = "parse" /\ UNCHANGED <<spawns, base, dirOf>>
    BY <1>9 DEF Communicated, WriteLog
  <2>3. ASSUME NEW t \in heard', t > base'
        PROVE  log'[dirOf'[t]] = t
    <3>1. CASE t = spawns
      BY <2>1, <2>2, <3>1
    <3>2. CASE t # spawns
      <4>a. t \in heard /\ t > base
        BY <2>2, <2>3, <3>2
      <4>1. t \in heard /\ t \in Spawn /\ t < spawns /\ t > base
        BY <4>a, <3>2, <2>1
      <4>2. dirOf[t] = t - base - 1 /\ dirOf[spawns] = spawns - base - 1
        BY <2>1, <4>1
      <4>3. t \in Nat /\ spawns \in Nat /\ base \in Nat
        BY <4>1, Numbers
      <4>4. dirOf[t] # dirOf[spawns]
        BY <4>1, <4>2, <4>3
      <4>5. dirOf[t] \in Directory
        BY <4>1
      <4> QED BY <2>2, <4>1, <4>4, <4>5
    <3> QED BY <3>1, <3>2
  <2> QED BY <2>2, <2>3
<1>10. CASE TimedOut
  BY <1>10 DEF TimedOut, Helping
<1>11. CASE Drained
  <2>1. spawns \in Spawn /\ dirOf[spawns] \in Directory /\ spawns > base
    BY <1>11 DEF Drained
  <2>2. /\ \/ log' = [log EXCEPT ![dirOf[spawns]] = Nobody] /\ heard' = heard
           \/ log' = [log EXCEPT ![dirOf[spawns]] = spawns] /\ heard' = heard \cup {spawns}
        /\ pc' = "timeout" /\ UNCHANGED <<spawns, base, dirOf>> /\ spawns \notin heard
    BY <1>11 DEF Drained, WriteLog
  <2>3. ASSUME NEW t \in heard', t > base'
        PROVE  log'[dirOf'[t]] = t
    <3>1. CASE t = spawns
      <4>1. log' = [log EXCEPT ![dirOf[spawns]] = spawns]
        BY <2>2, <2>3, <3>1
      <4> QED BY <2>1, <2>2, <3>1, <4>1
    <3>2. CASE t # spawns
      <4>a. t \in heard /\ t > base
        BY <2>2, <2>3, <3>2
      <4>1. t \in heard /\ t \in Spawn /\ t < spawns /\ t > base
        BY <4>a, <3>2, <2>1
      <4>2. dirOf[t] = t - base - 1 /\ dirOf[spawns] = spawns - base - 1
        BY <2>1, <4>1
      <4>3. t \in Nat /\ spawns \in Nat /\ base \in Nat
        BY <4>1, Numbers
      <4>4. dirOf[t] # dirOf[spawns]
        BY <4>1, <4>2, <4>3
      <4>5. dirOf[t] \in Directory
        BY <4>1
      <4> QED BY <2>2, <4>1, <4>4, <4>5
    <3> QED BY <3>1, <3>2
  <2> QED BY <2>2, <2>3
<1>12. CASE Parsed \/ ParseRetry
  <2>1. pc' \in {"judge", "argv"} /\ UNCHANGED <<spawns, base, dirOf, log, heard>>
    BY <1>12 DEF Parsed, ParseRetry
  <2> QED BY <2>1
<1>13. ASSUME NEW s \in Spawn, LeaderExits(s) \/ HelperStarts(s) \/ HelperEnds(s)
      PROVE  BytesInv'
  BY <1>13 DEF LeaderExits, HelperStarts, HelperEnds, Helping
<1>14. ASSUME NEW s \in Spawn, AgentWrites(s) PROVE BytesInv'
  BY <1>14 DEF AgentWrites, Running, Helping
<1>15. CASE Kill
  BY <1>15 DEF Kill
<1>16. CASE UserTidies
  BY <1>16 DEF UserTidies
<1> HIDE DEF TypeOK, CountInv, BytesInv, RunKeepsItsBytes, Spawned,
        adapterVars, agentVars, boundVars
<1> QED
  BY <1>0, <1>1, <1>2, <1>3, <1>4, <1>5, <1>6, <1>7, <1>8, <1>9, <1>10, <1>11, <1>12, <1>13, <1>14, <1>15, <1>16
  DEF Next, Run, Adapter, Agent

LEMMA WorkStep ==
    ASSUME TypeOK, CountInv, AgentInv, WorkInv, [Next]_vars
    PROVE  WorkInv'
<1> USE DispatchAssumption, Numbers, SpawnIs
    DEF TypeOK, CountInv, AgentInv, OneAgentAtATime, WorkInv, Excused, Spawned,
        adapterVars, agentVars, boundVars
<1>0. CASE UNCHANGED vars
  BY <1>0 DEF vars, Running, Helping
<1>1. CASE StartRun
  BY <1>1 DEF StartRun
<1>2. CASE ClaimTask
  BY <1>2 DEF ClaimTask
<1>3. CASE EndRun \/ GiveUpAfterTimeout \/ SpawnFails \/ ParseFails
  BY <1>3 DEF EndRun, GiveUpAfterTimeout, SpawnFails, ParseFails
<1>4. CASE BeginTry
  BY <1>4 DEF BeginTry
<1>5. CASE RetryAfterTimeout
  BY <1>5 DEF RetryAfterTimeout
<1>6. CASE JudgeTurn
  BY <1>6 DEF JudgeTurn
<1>7. CASE Prepare
  BY <1>7 DEF Prepare
<1>8. CASE SpawnAgent
  BY <1>8 DEF SpawnAgent
<1>9. CASE Communicated
  BY <1>9 DEF Communicated, WriteLog
<1>10. CASE TimedOut
  BY <1>10 DEF TimedOut, Helping
<1>11. CASE Drained
  BY <1>11 DEF Drained, WriteLog
<1>12. CASE Parsed \/ ParseRetry
  BY <1>12 DEF Parsed, ParseRetry
<1>13. ASSUME NEW s \in Spawn, LeaderExits(s) \/ HelperStarts(s) \/ HelperEnds(s)
      PROVE  WorkInv'
  <2>1. UNCHANGED <<pc, tryFrom, dirt, orphans>>
    BY <1>13 DEF LeaderExits, HelperStarts, HelperEnds
  <2>2. \A t \in Spawn : helper[t] # "none" => helper'[t] # "none"
    BY <1>13 DEF LeaderExits, HelperStarts, HelperEnds, Helping
  <2>3. \A t \in dirt : t \in Spawn /\ (Excused(t) => Excused(t)')
    BY <2>1, <2>2
  <2> QED BY <2>1, <2>3
<1>14. ASSUME NEW s \in Spawn, AgentWrites(s) PROVE WorkInv'
  BY <1>14 DEF AgentWrites, Running, Helping
<1>15. CASE Kill
  BY <1>15 DEF Kill
<1>16. CASE UserTidies
  BY <1>16 DEF UserTidies
<1> HIDE DEF TypeOK, CountInv, AgentInv, OneAgentAtATime, WorkInv, Excused, Spawned,
        adapterVars, agentVars, boundVars
<1> QED
  BY <1>0, <1>1, <1>2, <1>3, <1>4, <1>5, <1>6, <1>7, <1>8, <1>9, <1>10, <1>11, <1>12, <1>13, <1>14, <1>15, <1>16
  DEF Next, Run, Adapter, Agent

LEMMA DispatchInvariant == Spec => []Inv
<1>1. Inv /\ [Next]_vars => Inv'
  BY TypeStep, CountStep, AgentStep, BytesStep, WorkStep DEF Inv
<1> QED BY <1>1, DispatchInit, PTL DEF Spec

(* Every variable keeps its type: the counter of the adapter, and the number *)
(* of spawns, stay within what two tries of two attempts allow.            *)
THEOREM DispatchTypeCorrect == Spec => []TypeOK
<1>1. Inv => TypeOK
  BY DEF Inv
<1> QED BY <1>1, DispatchInvariant, PTL

(* Two agents never work in one tree, unless redgear was killed: whatever   *)
(* does not answer is gone before the next is spawned.                     *)
THEOREM AgentsAreAlone == Spec => []OneAgentAtATime
<1>1. Inv => OneAgentAtATime
  BY DEF Inv, AgentInv
<1> QED BY <1>1, DispatchInvariant, PTL

(* What a run has heard of its agents is on disk until its end.            *)
THEOREM OutputIsKept == Spec => []RunKeepsItsBytes
<1>1. Inv => RunKeepsItsBytes
  BY DEF Inv, BytesInv
<1> QED BY <1>1, DispatchInvariant, PTL

(* Nothing a timed-out try wrote is judged as the work of the next.        *)
THEOREM TriesAnswerForThemselves == Spec => []JudgedWorkIsThisTrys
<1>1. Inv => JudgedWorkIsThisTrys
  BY DEF Inv, WorkInv, Excused, JudgedWorkIsThisTrys
<1> QED BY <1>1, DispatchInvariant, PTL

-----------------------------------------------------------------------------
(* Why a turn ends, however many runs and helpers there are.               *)

(* TurnStepsLeft as a function of the place and the two counters.          *)
TurnStepsAt(p, i, j) ==
    10 * (MaxTries - 1 - i) + StepsToEnd[p]
    + (IF j = 0 /\ p \in {"argv", "spawn", "wait", "parse"} THEN 4 ELSE 0)

LEMMA TurnStepsTable ==
    ASSUME NEW i \in {0, 1}, NEW j \in {0, 1}
    PROVE  /\ TurnStepsAt("try", i, j) = 10 * (1 - i) + 10
           /\ TurnStepsAt("argv", i, j) = 10 * (1 - i) + 9 - 4 * j
           /\ TurnStepsAt("spawn", i, j) = 10 * (1 - i) + 8 - 4 * j
           /\ TurnStepsAt("wait", i, j) = 10 * (1 - i) + 7 - 4 * j
           /\ TurnStepsAt("drain", i, j) = 10 * (1 - i) + 2
           /\ TurnStepsAt("parse", i, j) = 10 * (1 - i) + 6 - 4 * j
           /\ TurnStepsAt("timeout", i, j) = 10 * (1 - i) + 1
<1>1. /\ StepsToEnd["try"] = 10 /\ StepsToEnd["argv"] = 5 /\ StepsToEnd["spawn"] = 4
      /\ StepsToEnd["wait"] = 3 /\ StepsToEnd["drain"] = 2 /\ StepsToEnd["parse"] = 2
      /\ StepsToEnd["timeout"] = 1
  BY DEF StepsToEnd
<1> QED BY <1>1 DEF TurnStepsAt, MaxTries

LEMMA TurnStepsType ==
    ASSUME NEW p \in {"try", "argv", "spawn", "wait", "drain", "parse", "timeout"},
           NEW i \in {0, 1}, NEW j \in {0, 1}
    PROVE  TurnStepsAt(p, i, j) \in Nat \ {0}
BY TurnStepsTable

LEMMA TurnStepsStep ==
    ASSUME TypeOK, TypeOK', [Next]_vars, Dispatching
    PROVE  /\ TurnStepsLeft' <= TurnStepsLeft
           /\ Adapter => TurnStepsLeft' < TurnStepsLeft
<1>1. /\ TurnStepsLeft = TurnStepsAt(pc, try, again) /\ TurnStepsLeft \in Nat \ {0}
      /\ try \in {0, 1} /\ again \in {0, 1}
  <2>1. try \in {0, 1} /\ again \in {0, 1}
    BY DEF TypeOK, MaxTries
  <2>2. TurnStepsLeft = TurnStepsAt(pc, try, again)
    BY DEF TurnStepsLeft, TurnStepsAt
  <2> QED BY <2>1, <2>2, TurnStepsType DEF Dispatching
<1>2. /\ Dispatching' => TurnStepsLeft' = TurnStepsAt(pc', try', again')
      /\ ~Dispatching' => TurnStepsLeft' = 0
      /\ TurnStepsLeft' \in Nat
      /\ try' \in {0, 1} /\ again' \in {0, 1}
  <2>1. try' \in {0, 1} /\ again' \in {0, 1}
    BY DEF TypeOK, MaxTries
  <2>2. /\ Dispatching' => TurnStepsLeft' = TurnStepsAt(pc', try', again')
        /\ ~Dispatching' => TurnStepsLeft' = 0
    BY DEF TurnStepsLeft, TurnStepsAt
  <2> QED BY <2>1, <2>2, TurnStepsType DEF Dispatching
<1>3. CASE ~Dispatching'
  BY <1>1, <1>2, <1>3
<1>4. ASSUME Adapter, Dispatching' PROVE TurnStepsLeft' < TurnStepsLeft
  <2>1. TurnStepsLeft' = TurnStepsAt(pc', try', again')
    BY <1>2, <1>4
  <2> USE <1>1, <1>2, <2>1, TurnStepsTable
  <2>2. CASE BeginTry
    <3>1. pc = "try" /\ pc' = "argv" /\ try' = try /\ again' = 0
      BY <2>2 DEF BeginTry
    <3> QED BY <3>1
  <2>3. CASE RetryAfterTimeout
    <3>1. pc = "timeout" /\ pc' = "try" /\ try = 0 /\ try' = 1
      BY <2>3 DEF RetryAfterTimeout
    <3> QED BY <3>1
  <2>4. CASE GiveUpAfterTimeout \/ SpawnFails \/ Parsed \/ ParseFails
    BY <1>4, <2>4 DEF GiveUpAfterTimeout, SpawnFails, Parsed, ParseFails, Dispatching
  <2>5. CASE Prepare \/ SpawnAgent
    <3>1. /\ \/ pc = "argv" /\ pc' = "spawn"
             \/ pc = "spawn" /\ pc' = "wait"
          /\ UNCHANGED <<try, again>>
      BY <2>5 DEF Prepare, SpawnAgent
    <3> QED BY <3>1
  <2>6. CASE Communicated \/ TimedOut \/ Drained
    <3>1. /\ \/ pc = "wait" /\ pc' \in {"parse", "drain"}
             \/ pc = "drain" /\ pc' = "timeout"
          /\ UNCHANGED <<try, again>>
      BY <2>6 DEF Communicated, TimedOut, Drained
    <3> QED BY <3>1
  <2>7. CASE ParseRetry
    <3>1. pc = "parse" /\ pc' = "argv" /\ try' = try /\ again = 0 /\ again' = 1
      BY <2>7 DEF ParseRetry
    <3> QED BY <3>1
  <2> QED BY <1>4, <2>2, <2>3, <2>4, <2>5, <2>6, <2>7 DEF Adapter
<1>5. ASSUME ~Adapter, Dispatching' PROVE UNCHANGED <<pc, try, again>>
  <2>1. CASE Run
    BY <1>5, <2>1 DEF Run, StartRun, ClaimTask, EndRun, JudgeTurn, Dispatching
  <2>2. ASSUME NEW s \in Spawn, Agent(s) PROVE UNCHANGED <<pc, try, again>>
    BY <2>2 DEF Agent, LeaderExits, HelperStarts, HelperEnds, AgentWrites
  <2>3. CASE Kill \/ UserTidies \/ UNCHANGED vars
    BY <1>5, <2>3 DEF Kill, UserTidies, vars, Dispatching
  <2> QED BY <2>1, <2>2, <2>3 DEF Next
<1>6. CASE Adapter /\ Dispatching'
  BY <1>1, <1>2, <1>4, <1>6
<1>7. CASE ~Adapter /\ Dispatching'
  <2>1. UNCHANGED <<pc, try, again>>
    BY <1>5, <1>7
  <2> QED BY <1>1, <1>2, <1>7, <2>1
<1> QED BY <1>3, <1>6, <1>7

(* A turn is over after at most 20 steps of redgear's own, for any number of *)
(* helpers and whatever the agents do: neither retry can renew the other.  *)
THEOREM TurnsAreFinite == Spec => TurnStepsRunOut
<1>1. TypeOK /\ TypeOK' /\ [Next]_vars =>
          (Dispatching => /\ TurnStepsLeft' <= TurnStepsLeft
                          /\ Adapter => TurnStepsLeft' < TurnStepsLeft)
  BY TurnStepsStep
<1> QED BY <1>1, DispatchTypeCorrect, PTL DEF Spec, TurnStepsRunOut
=============================================================================
