------------------------- MODULE ProcessHandleProofs -------------------------
(***************************************************************************)
(* Proofs about ProcessHandle, for any waits of the handle, any ways to    *)
(* exit, and any users, whether the handle is used from one task or from   *)
(* several.                                                                *)
(***************************************************************************)
EXTENDS ProcessHandle, SequenceLemmas, TLAPS

-----------------------------------------------------------------------------
(* The mutex. *)

(* A fair mutex that is freed goes to the first in line, who leaves the     *)
(* line; whoever frees it, a wait or a signal, holds it no more.            *)
LEMMA HandedOn ==
  ASSUME InLine, Typed, NEW w, w = lock, w # Nobody,
         NEW now \in {"idle", "done"}, Unlock, wait' = Moved(w, now)
  PROVE  /\ InLine'
         /\ lock' \in Waiters \cup {Nobody} /\ lock' # w
         /\ line' \in Seq(Waiters)
         /\ wait' \in [Waiters -> {"idle", "queued", "granted", "waiting", "done"}]
         /\ \A v \in Waiters : wait'[v] # "waiting"
         /\ lock' # Nobody => wait'[lock'] = "granted"
<1> USE HandleAssumption
<1>1. /\ IsInjective(line) /\ line \in Seq(Waiters)
      /\ Range(line) = {v \in Waiters : wait[v] = "queued"}
      /\ wait \in [Waiters -> {"idle", "queued", "granted", "waiting", "done"}]
  BY DEF InLine, Typed
<1>2. w \notin Range(line) /\ Holding = {w} \cap Waiters
  BY <1>1 DEF InLine, Holding, Typed
<1>3. \A v \in Waiters : v # w => wait[v] \notin {"granted", "waiting"}
  BY <1>2 DEF Holding
<1>4. CASE line = << >>
  <2>1. lock' = Nobody /\ line' = line
    BY <1>4 DEF Unlock
  <2>2. \A v \in Waiters : wait'[v] = IF v = w THEN now ELSE wait[v]
    BY <1>4 DEF Moved
  <2>3. wait' \in [Waiters -> {"idle", "queued", "granted", "waiting", "done"}]
    BY <1>1, <1>4 DEF Moved
  <2>4. Holding' = {}
    BY <1>3, <2>2 DEF Holding
  <2>5. Range(line') = {v \in Waiters : wait'[v] = "queued"}
    BY <1>1, <1>2, <2>1, <2>2
  <2> QED
    BY <1>1, <1>3, <2>1, <2>2, <2>3, <2>4, <2>5 DEF InLine
<1>5. CASE line # << >>
  <2> DEFINE h == Head(line)
  <2>1. lock' = h /\ line' = Tail(line)
    BY <1>5 DEF Unlock
  <2>2. /\ line' \in Seq(Waiters) /\ h \in Waiters /\ h \in Range(line)
        /\ IsInjective(line') /\ Range(line') = Range(line) \ {h}
    BY <1>1, <1>5, <2>1, TailInjective
  <2>3. h # w
    BY <1>2, <2>2
  <2>4. \A v \in Waiters : wait'[v] = IF v = w THEN now
                                      ELSE IF v = h THEN "granted" ELSE wait[v]
    BY <1>5, <2>3 DEF Moved
  <2>5. wait' \in [Waiters -> {"idle", "queued", "granted", "waiting", "done"}]
    BY <1>1, <1>5 DEF Moved
  <2> HIDE DEF h
  <2>6. Holding' = {h}
    BY <1>3, <2>2, <2>3, <2>4 DEF Holding
  <2>7. Range(line') = {v \in Waiters : wait'[v] = "queued"}
    BY <1>1, <1>2, <2>2, <2>3, <2>4
  <2> QED
    BY <1>3, <2>1, <2>2, <2>3, <2>4, <2>5, <2>6, <2>7 DEF InLine
<1> QED
  BY <1>4, <1>5

(* Whatever the step, the types, and one owner of the mutex.                *)
LEMMA TypesStep ==
  ASSUME IndInv, [Next]_vars
  PROVE  TypeOK' /\ Typed'
<1> USE HandleAssumption DEF spawning, kernel
<1> DEFINE WaitStates == {"idle", "queued", "granted", "waiting", "done"}
<1>0. TypeOK /\ Typed /\ Remains /\ Users /\ InLine
  BY DEF IndInv, TypeOK
<1>1. ASSUME UNCHANGED <<lock, line, wait>>
      PROVE  InLine'
  BY <1>0, <1>1 DEF InLine, Holding
<1>2. CASE Fork \/ GiveUp \/ SpawnFails \/ Exec
  <2>1. /\ UNCHANGED mutex
        /\ UNCHANGED <<asked, status, sent, sig, oneTask>>
        /\ phase' \in {"start", "forked", "live", "failed"}
        /\ fault' \in BOOLEAN /\ alive' \in BOOLEAN
        /\ pid' \in {"child", "free", "stranger"}
        /\ proc' \in {"none", "running", "zombie", "reaped"}
    BY <1>0, <1>2 DEF Fork, GiveUp, SpawnFails, Exec, TypeOK, Typed
  <2> QED
    BY <1>0, <1>1, <2>1 DEF mutex, TypeOK, Typed
<1>3. ASSUME NEW s \in Statuses, ChildExit(s)
      PROVE  TypeOK' /\ Typed'
  BY <1>0, <1>1, <1>3 DEF ChildExit, mutex, TypeOK, Typed
<1>4. CASE Reuse \/ ReapOrphan \/ UNCHANGED vars
  <2>1. /\ UNCHANGED <<mutex, asked, phase, fault, status, sent, alive, sig, oneTask>>
        /\ pid' \in {"child", "free", "stranger"}
        /\ proc' \in {"none", "running", "zombie", "reaped"}
    BY <1>0, <1>4 DEF Reuse, ReapOrphan, vars, TypeOK
  <2> QED
    BY <1>0, <1>1, <2>1 DEF mutex, TypeOK, Typed
<1>5. ASSUME NEW w \in Waiters, StartWait(w)
      PROVE  TypeOK' /\ Typed'
  <2>1. /\ UNCHANGED <<spawning, kernel, slot, alive, sig, oneTask>>
        /\ wait[w] \in {"idle", "done"}
    BY <1>5 DEF StartWait
  <2>2. w \notin Range(line) /\ w \notin Holding /\ lock # w
    BY <1>0, <2>1 DEF InLine, Holding
  <2>3. CASE lock = Nobody /\ lock' = w /\ wait' = [wait EXCEPT ![w] = "waiting"]
             /\ answer' = [answer EXCEPT ![w] = "none"] /\ UNCHANGED line
    <3>1. Holding' = {w}
      BY <1>0, <2>2, <2>3 DEF InLine, Holding, Typed
    <3>2. Range(line) = {v \in Waiters : wait'[v] = "queued"}
      BY <1>0, <2>1, <2>3 DEF InLine, Typed
    <3>3. InLine'
      BY <1>0, <2>3, <3>1, <3>2 DEF InLine
    <3> QED
      BY <1>0, <2>1, <2>3, <3>3 DEF TypeOK, Typed
  <2>4. CASE lock = Nobody /\ slot # "child" /\ wait' = [wait EXCEPT ![w] = "done"]
             /\ answer' = [answer EXCEPT ![w] = slot] /\ UNCHANGED <<lock, line>>
    <3>1. Holding' = Holding
      BY <1>0, <2>1, <2>4 DEF Holding, Typed
    <3>2. Range(line) = {v \in Waiters : wait'[v] = "queued"}
      BY <1>0, <2>1, <2>4 DEF InLine, Typed
    <3>3. InLine'
      BY <1>0, <2>4, <3>1, <3>2 DEF InLine
    <3> QED
      BY <1>0, <2>1, <2>4, <3>3 DEF TypeOK, Typed
  <2>5. CASE lock # Nobody /\ line' = Append(line, w)
             /\ wait' = [wait EXCEPT ![w] = "queued"]
             /\ answer' = [answer EXCEPT ![w] = "none"] /\ UNCHANGED lock
    <3>1. /\ line' \in Seq(Waiters) /\ IsInjective(line')
          /\ Range(line') = Range(line) \cup {w}
      BY <1>0, <2>2, <2>5, JoinInjective DEF InLine, Typed
    <3>2. Holding' = Holding
      BY <1>0, <2>1, <2>5 DEF Holding, Typed
    <3>3. Range(line') = {v \in Waiters : wait'[v] = "queued"}
      BY <1>0, <2>1, <2>5, <3>1 DEF InLine, Typed
    <3>4. InLine'
      BY <1>0, <2>5, <3>1, <3>2, <3>3 DEF InLine
    <3> QED
      BY <1>0, <2>1, <2>5, <3>1, <3>4 DEF TypeOK, Typed
  <2> QED
    BY <1>5, <2>3, <2>4, <2>5 DEF StartWait
<1>6. ASSUME NEW w \in Waiters, Reap(w) \/ WaitFails(w) \/ Reread(w)
      PROVE  TypeOK' /\ Typed'
  <2>1. /\ lock = w
        /\ \E r \in Statuses \cup {"error"} : Returns(w, r)
        /\ slot' \in Statuses \cup {"child", "error"}
        /\ fault' \in BOOLEAN
        /\ pid' \in {"child", "free", "stranger"}
        /\ proc' \in {"none", "running", "zombie", "reaped"}
        /\ UNCHANGED <<asked, phase, status, sent, alive, sig, oneTask>>
    <3>1. CASE Reap(w)
      <4>1. status \in Statuses
        BY <1>0, <3>1 DEF Reap, Exited, Remains
      <4> QED
        BY <1>0, <3>1, <4>1 DEF Reap, Kept, Typed
    <3>2. CASE WaitFails(w)
      <4>1. lock = w
        BY <3>2 DEF WaitFails
      <4> QED
        BY <1>0, <3>2, <4>1 DEF WaitFails, TypeOK
    <3>3. CASE Reread(w)
      BY <1>0, <3>3 DEF Reread, TypeOK, Typed
    <3> QED
      BY <1>6, <3>1, <3>2, <3>3
  <2>2. PICK r \in Statuses \cup {"error"} : Returns(w, r)
    BY <2>1
  <2>3. /\ InLine' /\ lock' \in Waiters \cup {Nobody} /\ line' \in Seq(Waiters)
        /\ wait' \in [Waiters -> WaitStates]
    BY <1>0, <2>1, <2>2, HandedOn DEF Returns
  <2>4. answer' \in [Waiters -> Statuses \cup {"none", "error"}]
    BY <1>0, <2>2 DEF Returns, TypeOK
  <2> QED
    BY <1>0, <2>1, <2>3, <2>4 DEF TypeOK, Typed
<1>7. ASSUME NEW w \in Waiters, Resume(w)
      PROVE  TypeOK' /\ Typed'
  <2>1. InLine'
    BY <1>0, <1>7 DEF Resume, InLine, Holding, Typed
  <2> QED
    BY <1>0, <1>7, <2>1 DEF Resume, TypeOK, Typed
<1>8. ASSUME NEW w \in Waiters, Cancel(w)
      PROVE  TypeOK' /\ Typed'
  <2>1. CASE lock = w /\ wait' = Moved(w, "idle") /\ Unlock
    <3>1. /\ InLine' /\ lock' \in Waiters \cup {Nobody} /\ line' \in Seq(Waiters)
          /\ wait' \in [Waiters -> WaitStates]
      BY <1>0, <2>1, HandedOn
    <3> QED
      BY <1>0, <1>8, <2>1, <3>1 DEF Cancel, TypeOK, Typed
  <2>2. CASE /\ wait[w] = "queued" /\ wait' = [wait EXCEPT ![w] = "idle"]
             /\ \E i \in DOMAIN line : line[i] = w /\ line' = RemoveAt(line, i)
             /\ UNCHANGED lock
    <3>1. PICK i \in DOMAIN line : line[i] = w /\ line' = RemoveAt(line, i)
      BY <2>2
    <3>2. i \in 1 .. Len(line)
      BY <1>0, LenProperties DEF Typed
    <3>3. /\ line' \in Seq(Waiters) /\ IsInjective(line')
          /\ Range(line') = Range(line) \ {w}
      BY <1>0, <3>1, <3>2, RemoveInjective DEF InLine, Typed
    <3>4. Holding' = Holding
      BY <1>0, <2>2 DEF Holding, Typed
    <3>5. Range(line') = {v \in Waiters : wait'[v] = "queued"}
      BY <1>0, <2>2, <3>3 DEF InLine, Typed
    <3>6. InLine'
      BY <1>0, <2>2, <3>3, <3>4, <3>5 DEF InLine
    <3> QED
      BY <1>0, <1>8, <2>2, <3>3, <3>6 DEF Cancel, TypeOK, Typed
  <2> QED
    BY <1>8, <2>1, <2>2 DEF Cancel
<1>9. CASE TrySignal
  <2>1. InLine'
    BY <1>0, <1>9 DEF TrySignal, InLine, Holding
  <2> QED
    BY <1>0, <1>9, <2>1 DEF TrySignal, TypeOK, Typed
<1>10. CASE Send
  <2>1. sent' \subseteq {"asked", "kill"}
    BY <1>0, <1>10 DEF Send, Strike, Typed
  <2>2. CASE sig = "sure"
    <3>1. lock = "signal" /\ Unlock /\ wait' = Moved("signal", "idle")
      BY <1>0, <1>10, <2>2 DEF Send, TypeOK
    <3>2. /\ InLine' /\ lock' \in Waiters \cup {Nobody} /\ line' \in Seq(Waiters)
          /\ wait' \in [Waiters -> WaitStates]
      BY <1>0, <3>1, HandedOn
    <3> QED
      BY <1>0, <1>10, <2>1, <3>2 DEF Send, TypeOK, Typed
  <2>3. CASE sig # "sure"
    BY <1>0, <1>1, <1>10, <2>1, <2>3 DEF Send, TypeOK, Typed
  <2> QED
    BY <2>2, <2>3
<1>11. CASE Drop
  <2>1. sent' \subseteq {"asked", "kill"}
    BY <1>0, <1>11 DEF Drop, Kill, Strike, Typed
  <2>2. /\ UNCHANGED <<spawning, proc, status, pid, lock, line, wait, answer, sig, oneTask>>
        /\ alive' = FALSE
        /\ slot' = IF lock = Nobody /\ slot = "child" THEN "error" ELSE slot
    BY <1>11 DEF Drop
  <2>3. slot' \in Statuses \cup {"child", "error"}
    BY <1>0, <2>2 DEF TypeOK
  <2>4. TypeOK'
    BY <1>0, <1>1, <2>2, <2>3 DEF TypeOK
  <2> QED
    BY <1>0, <2>1, <2>2, <2>4 DEF Typed
<1> QED
  BY <1>2, <1>3, <1>4, <1>5, <1>6, <1>7, <1>8, <1>9, <1>10, <1>11 DEF Next, Poll

-----------------------------------------------------------------------------
(* The privileges. *)

(* Whatever the step, the closure is at one of its calls and is root for    *)
(* it, and spawn fails for the two reasons it has.                          *)
LEMMA CredentialsStep ==
  ASSUME IndInv, [Next]_vars
  PROVE  Credentials' /\ (phase' = "failed" => fault' \/ ~Resolves')
<1> DEFINE Goal == Credentials' /\ (phase' = "failed" => fault' \/ ~Resolves')
<1>0. /\ TypeOK /\ Credentials
      /\ phase = "failed" => fault \/ ~Resolves
  BY DEF IndInv, RunsAs
<1>1. ASSUME UNCHANGED <<agent, asked>>
      PROVE  Target' = Target /\ (Resolves' <=> Resolves)
  BY <1>1 DEF Target, Resolves, Lookup
<1>2. CASE Fork
  <2>1. Target' = Target /\ (Resolves' <=> Resolves)
    BY <1>1, <1>2 DEF Fork
  <2>2. CASE Resolves
    <3>1. /\ phase' = "forked" /\ cred' = Own(agent) /\ agent' = agent
          /\ steps' = IF Target # agent THEN PreExec ELSE << >>
      BY <1>0, <1>2, <2>2 DEF Fork, Credentials
    <3>2. Target # agent => agent = Root
      BY DEF Target
    <3> QED
      BY <2>1, <2>2, <3>1, <3>2 DEF Credentials
  <2>3. CASE ~Resolves
    BY <1>2, <2>1, <2>3 DEF Fork, Credentials
  <2> QED
    BY <2>2, <2>3
<1>3. CASE GiveUp
  <2>1. /\ phase = "forked" /\ steps # << >> /\ steps' = Tail(steps)
        /\ agent' = agent /\ fault' = fault
        /\ Target' = Target /\ (Resolves' <=> Resolves)
    BY <1>1, <1>3 DEF GiveUp
  <2>2. Resolves /\ Target # agent /\ agent = Root
    BY <1>0, <2>1 DEF Credentials
  <2>3. CASE steps = PreExec /\ cred = Own(agent)
    <3>1. Head(steps) = "setgroups" /\ Tail(steps) = <<"setgid", "setuid">>
      BY <2>3 DEF PreExec
    <3>2. cred' = [uid |-> agent, gid |-> agent, groups |-> {}] /\ phase' = phase
      BY <1>3, <2>2, <2>3, <3>1 DEF GiveUp, Own
    <3> QED
      BY <2>1, <2>2, <3>1, <3>2 DEF Credentials
  <2>4. CASE /\ steps = <<"setgid", "setuid">>
             /\ cred = [uid |-> agent, gid |-> agent, groups |-> {}]
    <3>1. Head(steps) = "setgid" /\ Tail(steps) = <<"setuid">>
      BY <2>4
    <3>2. cred' = [uid |-> agent, gid |-> Target, groups |-> {}] /\ phase' = phase
      BY <1>3, <2>2, <2>4, <3>1 DEF GiveUp
    <3> QED
      BY <2>1, <2>2, <3>1, <3>2 DEF Credentials
  <2>5. CASE /\ steps = <<"setuid">>
             /\ cred = [uid |-> agent, gid |-> Target, groups |-> {}]
    <3>1. Head(steps) = "setuid" /\ Tail(steps) = << >>
      BY <2>5
    <3>2. cred' = [uid |-> Target, gid |-> Target, groups |-> {}] /\ phase' = phase
      BY <1>3, <2>2, <2>5, <3>1 DEF GiveUp
    <3> QED
      BY <2>1, <2>2, <3>1, <3>2 DEF Credentials
  <2> QED
    BY <1>0, <2>1, <2>2, <2>3, <2>4, <2>5 DEF Credentials
<1>4. CASE SpawnFails
  BY <1>4 DEF SpawnFails, Credentials
<1>5. CASE Exec
  <2>1. Target' = Target /\ (Resolves' <=> Resolves)
    BY <1>1, <1>5 DEF Exec
  <2> QED
    BY <1>0, <1>5, <2>1 DEF Exec, Credentials
<1>6. CASE UNCHANGED <<agent, asked, phase, steps, cred>> /\ (fault => fault')
  BY <1>0, <1>1, <1>6 DEF Credentials
<1> QED
  BY <1>2, <1>3, <1>4, <1>5, <1>6
     DEF Next, ChildExit, Reuse, ReapOrphan, StartWait, Poll, Reap, Resume, Reread,
         WaitFails, Cancel, TrySignal, Send, Drop, spawning, vars

(* A child that lives has been through the whole closure.                   *)
LEMMA Privileges ==
  ASSUME Credentials, Remains, phase = "failed" => fault \/ ~Resolves
  PROVE  RunsAs
<1> SUFFICES ASSUME proc # "none"
             PROVE  cred = IF Target # agent
                             THEN [uid |-> Target, gid |-> Target, groups |-> {}]
                             ELSE Own(agent)
  BY DEF RunsAs
<1>1. phase = "live" /\ steps = << >>
  BY DEF Remains, Credentials
<1>2. << >> # PreExec /\ << >> # <<"setgid", "setuid">> /\ << >> # <<"setuid">>
  BY DEF PreExec
<1> QED
  BY <1>1, <1>2 DEF Credentials

-----------------------------------------------------------------------------
(* The child, its handle and the users of the handle. *)

(* A mutex that is taken is taken by somebody who uses the handle of a      *)
(* child that lives.                                                        *)
LEMMA InUse ==
  ASSUME IndInv, lock # Nobody \/ \E w \in Waiters : wait[w] \notin {"idle", "done"}
  PROVE  alive /\ phase = "live"
<1>1. TypeOK /\ InLine /\ Typed /\ Users
  BY DEF IndInv, TypeOK
<1>2. alive
  <2> SUFFICES ASSUME ~alive
               PROVE  FALSE
    OBVIOUS
  <2>1. sig = "idle" /\ \A w \in Waiters : wait[w] \in {"idle", "done"}
    BY <1>1 DEF Users
  <2>2. lock # "signal"
    BY <1>1, <2>1 DEF TypeOK
  <2>3. lock \notin Waiters
    BY <1>1, <2>1 DEF InLine, Holding
  <2> QED
    BY <1>1, <2>1, <2>2, <2>3 DEF Typed
<1> QED
  BY <1>1, <1>2 DEF Users

(* Whatever the step, the child is behind the mutex until a wait has taken  *)
(* its status, and every answer is what is there then.                      *)
LEMMA RemainsStep ==
  ASSUME IndInv, [Next]_vars
  PROVE  Remains'
<1> USE HandleAssumption DEF spawning, kernel
<1>0. TypeOK /\ InLine /\ Typed /\ Remains /\ Users
  BY DEF IndInv, TypeOK
<1>1. CASE Fork \/ GiveUp \/ SpawnFails
  <2>1. /\ phase # "live" /\ phase' # "live" /\ slot = "child"
        /\ phase' \in {"start", "forked"} => ~fault'
        /\ UNCHANGED <<kernel, mutex, alive>>
    BY <1>0, <1>1 DEF Fork, GiveUp, SpawnFails, Users, Remains
  <2> QED
    BY <1>0, <2>1 DEF Remains, mutex
<1>2. CASE Exec
  <2>1. slot = "child" /\ ~fault /\ proc = "none"
    BY <1>0, <1>2 DEF Exec, Users, Remains
  <2> QED
    BY <1>0, <1>2, <2>1 DEF Exec, Remains, mutex
<1>3. ASSUME NEW s \in Statuses, ChildExit(s)
      PROVE  Remains'
  BY <1>0, <1>3 DEF ChildExit, Remains, mutex
<1>4. CASE Reuse \/ ReapOrphan
  <2>1. CASE Reuse
    BY <1>0, <2>1 DEF Reuse, Remains, mutex
  <2>2. CASE ReapOrphan
    BY <1>0, <2>2 DEF ReapOrphan, Remains, mutex
  <2> QED
    BY <1>4, <2>1, <2>2
<1>5. ASSUME NEW w \in Waiters, StartWait(w)
      PROVE  Remains'
  <2>1. /\ UNCHANGED <<spawning, kernel, slot, alive>> /\ alive
        /\ \/ answer' = [answer EXCEPT ![w] = "none"]
           \/ slot # "child" /\ answer' = [answer EXCEPT ![w] = slot]
    BY <1>5 DEF StartWait
  <2>2. \A v \in Waiters : answer'[v] # "none" => slot # "child" /\ answer'[v] = slot
    BY <1>0, <2>1 DEF Remains, TypeOK
  <2> QED
    BY <1>0, <2>1, <2>2 DEF Remains
<1>6. ASSUME NEW w \in Waiters, Reap(w)
      PROVE  Remains'
  <2>1. /\ proc = "zombie" /\ slot = "child" /\ proc' = "reaped" /\ pid' = "free"
        /\ slot' = status /\ answer' = [answer EXCEPT ![w] = status]
        /\ UNCHANGED <<spawning, status, alive>>
    BY <1>6 DEF Reap, Exited, Kept, Returns
  <2>2. phase = "live" /\ ~fault /\ status \in Statuses
    BY <1>0, <2>1 DEF Remains
  <2>3. \A v \in Waiters : answer'[v] # "none" => answer'[v] = status
    BY <1>0, <2>1 DEF Remains, TypeOK
  <2> QED
    BY <1>0, <2>1, <2>2, <2>3 DEF Remains
<1>7. ASSUME NEW w \in Waiters, WaitFails(w)
      PROVE  Remains'
  <2>1. /\ slot = "child" /\ slot' = "error" /\ fault' = TRUE /\ wait[w] = "waiting"
        /\ answer' = [answer EXCEPT ![w] = "error"]
        /\ UNCHANGED <<phase, kernel, alive>>
    BY <1>7 DEF WaitFails, Returns
  <2>2. phase = "live"
    BY <2>1, InUse
  <2>3. \A v \in Waiters : answer'[v] # "none" => answer'[v] = "error"
    BY <1>0, <2>1 DEF Remains, TypeOK
  <2> QED
    BY <1>0, <2>1, <2>2, <2>3 DEF Remains
<1>8. ASSUME NEW w \in Waiters, Reread(w)
      PROVE  Remains'
  <2>1. /\ slot # "child" /\ slot' = slot /\ lock = w
        /\ answer' = [answer EXCEPT ![w] = slot]
        /\ UNCHANGED <<spawning, kernel, alive>>
    BY <1>8 DEF Reread, Returns
  <2>2. alive
    BY <2>1, InUse
  <2>3. \A v \in Waiters : answer'[v] # "none" => answer'[v] = slot
    BY <1>0, <2>1 DEF Remains, TypeOK
  <2> QED
    BY <1>0, <2>1, <2>2, <2>3 DEF Remains
<1>9. CASE Drop
  <2>1. /\ alive /\ alive' = FALSE
        /\ slot' = IF lock = Nobody /\ slot = "child" THEN "error" ELSE slot
        /\ UNCHANGED <<spawning, proc, status, pid, answer>>
    BY <1>9 DEF Drop
  <2>2. CASE slot = "child" /\ lock = Nobody
    <3>1. \A w \in Waiters : answer[w] = "none"
      BY <1>0, <2>2 DEF Remains
    <3> QED
      BY <1>0, <2>1, <2>2, <3>1 DEF Remains
  <2>3. CASE ~(slot = "child" /\ lock = Nobody)
    BY <1>0, <2>1, <2>3 DEF Remains
  <2> QED
    BY <2>2, <2>3
<1>10. CASE UNCHANGED <<spawning, proc, status, pid, slot, answer, alive>>
  BY <1>0, <1>10 DEF Remains
<1> QED
  BY <1>1, <1>2, <1>3, <1>4, <1>5, <1>6, <1>7, <1>8, <1>9, <1>10
     DEF Next, Poll, Resume, Cancel, TrySignal, Send, vars, mutex

(* Whatever the step, a handle in use has its child or its result, and in   *)
(* one task nobody takes the child from under a wait or a signal.           *)
LEMMA UsersStep ==
  ASSUME IndInv, [Next]_vars, Typed'
  PROVE  Users'
<1> USE HandleAssumption DEF spawning, kernel
<1>0. TypeOK /\ InLine /\ Typed /\ Remains /\ Users
  BY DEF IndInv, TypeOK
<1>1. CASE Fork \/ GiveUp \/ SpawnFails
  <2>1. phase # "live" /\ phase' # "live" /\ UNCHANGED <<mutex, alive, sig, oneTask>>
    BY <1>1 DEF Fork, GiveUp, SpawnFails
  <2> QED
    BY <1>0, <2>1 DEF Users, mutex, Handover
<1>2. CASE Exec
  BY <1>0, <1>2 DEF Exec, Users, mutex, Handover
<1>3. CASE \/ Reuse \/ ReapOrphan \/ UNCHANGED vars
           \/ \E s \in Statuses : ChildExit(s)
  <2>1. UNCHANGED <<spawning, mutex, alive, sig, oneTask>>
    BY <1>3 DEF Reuse, ReapOrphan, ChildExit, vars
  <2> QED
    BY <1>0, <2>1 DEF Users, mutex, Handover
<1>4. ASSUME NEW w \in Waiters, StartWait(w)
      PROVE  Users'
  <2>1. /\ UNCHANGED <<spawning, kernel, slot, alive, sig, oneTask>> /\ alive
        /\ oneTask => sig = "idle"
        /\ \/ wait' = [wait EXCEPT ![w] = "waiting"] /\ (slot = "child" \/ ~oneTask)
           \/ wait' = [wait EXCEPT ![w] = "done"]
           \/ wait' = [wait EXCEPT ![w] = "queued"]
    BY <1>4 DEF StartWait, MayRun
  <2>2. oneTask => \A v \in Waiters : wait'[v] = "waiting" => slot = "child"
    BY <1>0, <2>1 DEF Users, Typed
  <2> QED
    BY <1>0, <2>1, <2>2 DEF Users
<1>5. ASSUME NEW w \in Waiters, Reap(w) \/ WaitFails(w) \/ Reread(w)
      PROVE  Users'
  <2>1. /\ lock = w /\ Unlock /\ wait' = Moved(w, "done")
        /\ oneTask => sig = "idle"
        /\ UNCHANGED <<phase, alive, sig, oneTask>>
        /\ slot' # "child"
    <3>1. CASE Reap(w)
      <4>1. status \in Statuses
        BY <1>0, <3>1 DEF Reap, Exited, Remains
      <4> QED
        BY <3>1, <4>1 DEF Reap, Returns, Kept, MayRun
    <3>2. CASE WaitFails(w)
      BY <3>2, InUse, <1>0 DEF WaitFails, Returns, MayRun, InLine, Holding
    <3>3. CASE Reread(w)
      BY <3>3 DEF Reread, Returns, MayRun
    <3> QED
      BY <1>5, <3>1, <3>2, <3>3
  <2>2. /\ lock' \in Waiters \cup {Nobody}
        /\ \A v \in Waiters : wait'[v] # "waiting"
    BY <1>0, <2>1, HandedOn
  <2>3. alive /\ phase = "live"
    BY <2>1, InUse
  <2>4. sig # "sure"
    BY <1>0, <2>1 DEF TypeOK
  <2> QED
    BY <1>0, <2>1, <2>2, <2>3, <2>4 DEF Users
<1>6. ASSUME NEW w \in Waiters, Resume(w)
      PROVE  Users'
  <2>1. /\ wait[w] = "granted" /\ slot = "child" /\ (oneTask => sig = "idle")
        /\ UNCHANGED <<spawning, slot, alive, sig, oneTask>>
    BY <1>6 DEF Resume, MayRun
  <2>2. alive /\ phase = "live"
    BY <2>1, InUse
  <2> QED
    BY <1>0, <2>1, <2>2 DEF Users
<1>7. ASSUME NEW w \in Waiters, Cancel(w)
      PROVE  Users'
  <2>1. (oneTask => sig = "idle") /\ UNCHANGED <<spawning, slot, alive, sig, oneTask>>
    BY <1>7 DEF Cancel, MayRun
  <2>2. alive /\ phase = "live"
    BY <1>7, InUse DEF Cancel
  <2>3. oneTask => \A v \in Waiters : wait'[v] = "waiting" => slot = "child"
    <3>1. CASE wait' = [wait EXCEPT ![w] = "idle"]
      BY <1>0, <3>1 DEF Users, Typed
    <3>2. CASE lock = w /\ wait' = Moved(w, "idle") /\ Unlock
      BY <1>0, <3>2, HandedOn
    <3> QED
      BY <1>7, <3>1, <3>2 DEF Cancel
  <2> QED
    BY <1>0, <2>1, <2>2, <2>3 DEF Users
<1>8. CASE TrySignal
  <2>1. alive /\ phase = "live"
    BY <1>0, <1>8 DEF TrySignal, Users
  <2>2. ASSUME oneTask, lock # Nobody, ~Handover
        PROVE  slot = "child"
    <3>1. lock # "signal"
      BY <1>0, <1>8 DEF TypeOK, TrySignal
    <3>2. lock \in Waiters /\ Holding = {lock}
      BY <1>0, <2>2, <3>1 DEF Typed, InLine
    <3>3. wait[lock] = "waiting"
      BY <2>2, <3>2 DEF Holding, Handover
    <3> QED
      BY <1>0, <2>2, <3>2, <3>3 DEF Users
  <2> QED
    BY <1>0, <1>8, <2>1, <2>2 DEF TrySignal, ChildThere, Users, Handover
<1>9. CASE Send
  <2>1. /\ sig # "idle" /\ sig' = "idle"
        /\ UNCHANGED <<phase, slot, alive, oneTask>>
    BY <1>9 DEF Send
  <2>2. alive /\ phase = "live"
    BY <1>0, <2>1 DEF Users
  <2>3. oneTask => \A v \in Waiters : wait'[v] = "waiting" => slot = "child"
    <3>1. CASE sig = "sure"
      <4>1. lock = "signal" /\ Unlock /\ wait' = Moved("signal", "idle")
        BY <1>0, <1>9, <3>1 DEF Send, TypeOK
      <4> QED
        BY <1>0, <4>1, HandedOn
    <3>2. CASE sig # "sure"
      BY <1>0, <1>9, <3>2 DEF Send, Users
    <3> QED
      BY <3>1, <3>2
  <2> QED
    BY <1>0, <2>1, <2>2, <2>3 DEF Users
<1>10. CASE Drop
  <2>1. /\ alive /\ sig = "idle" /\ sig' = sig
        /\ \A w \in Waiters : wait[w] \in {"idle", "done"}
        /\ slot' = IF lock = Nobody /\ slot = "child" THEN "error" ELSE slot
        /\ UNCHANGED <<spawning, wait, oneTask>>
    BY <1>10 DEF Drop
  <2>2. lock = Nobody
    BY <1>0, <2>1 DEF TypeOK, InLine, Holding, Typed
  <2>3. phase = "live" /\ slot' # "child"
    BY <1>0, <2>1, <2>2 DEF Users
  <2> QED
    BY <1>0, <2>1, <2>3 DEF Users
<1> QED
  BY <1>1, <1>2, <1>3, <1>4, <1>5, <1>6, <1>7, <1>8, <1>9, <1>10 DEF Next, Poll

(* Whatever the step, no child is left running and unkilled by a handle     *)
(* that goes.                                                               *)
LEMMA KilledStep ==
  ASSUME IndInv, [Next]_vars
  PROVE  KilledByDrop'
<1> USE DEF spawning, kernel
<1>0. TypeOK /\ InLine /\ Typed /\ Remains /\ Users /\ KilledByDrop
  BY DEF IndInv, TypeOK
<1>1. CASE Exec
  BY <1>1 DEF Exec, KilledByDrop
<1>2. CASE Drop
  <2>1. lock = Nobody
    BY <1>0, <1>2, HandleAssumption DEF Drop, TypeOK, InLine, Holding, Typed
  <2>2. CASE slot = "child"
    <3>1. proc = "running" => "kill" \in sent'
      BY <1>0, <1>2, <2>2 DEF Drop, Kill, Strike, Remains
    <3> QED
      BY <1>2, <3>1 DEF Drop, KilledByDrop
  <2>3. CASE slot \in Statuses
    BY <1>0, <1>2, <2>3 DEF Drop, Remains, KilledByDrop
  <2>4. CASE slot = "error"
    BY <1>0, <1>2, <2>4 DEF Drop, Remains, KilledByDrop
  <2> QED
    BY <1>0, <2>2, <2>3, <2>4 DEF TypeOK
<1>3. CASE /\ alive' = alive /\ sent \subseteq sent' /\ (fault => fault')
           /\ proc' = "running" => proc = "running"
           /\ phase' = "live" => phase = "live"
  BY <1>0, <1>3 DEF KilledByDrop
<1>4. Send => sent \subseteq sent'
  BY DEF Send, Strike
<1>5. CASE Send
  BY <1>3, <1>4, <1>5 DEF Send
<1> QED
  BY <1>1, <1>2, <1>3, <1>5
     DEF Next, Fork, GiveUp, SpawnFails, ChildExit, Reuse, ReapOrphan, StartWait, Poll,
         Reap, Resume, Reread, WaitFails, Cancel, TrySignal, vars

-----------------------------------------------------------------------------
(* The inductive invariant, and what follows from it. *)

(* IndInv holds of every behaviour: the invariants below are its parts.     *)
THEOREM Invariant == Spec => []IndInv
<1> DEFINE Failed == phase = "failed" => fault \/ ~Resolves
           Core == TypeOK /\ Typed /\ Credentials /\ Failed /\ Remains /\ Users /\ KilledByDrop
<1>1. Init => Core
  <2> SUFFICES ASSUME Init
               PROVE  Core
    OBVIOUS
  <2>1. << >> \in Seq(Waiters) /\ IsInjective(<< >>) /\ Range(<< >>) = {}
    BY EmptySeq DEF IsInjective, Range
  <2>2. InLine
    BY <2>1, HandleAssumption DEF Init, InLine, Holding
  <2>3. TypeOK
    BY <2>2, HandleAssumption DEF Init, TypeOK
  <2>4. Typed
    BY <2>1 DEF Init, Typed
  <2>5. Credentials /\ Failed /\ KilledByDrop /\ Users
    BY DEF Init, Credentials, KilledByDrop, Users
  <2>6. Remains
    BY HandleAssumption DEF Init, Remains
  <2> QED
    BY <2>3, <2>4, <2>5, <2>6
<1>2. Core => IndInv
  BY Privileges DEF IndInv
<1>3. IndInv /\ [Next]_vars => Core'
  <2> SUFFICES ASSUME IndInv, [Next]_vars
               PROVE  Core'
    OBVIOUS
  <2>1. TypeOK' /\ Typed'
    BY TypesStep
  <2>2. Users'
    BY <2>1, UsersStep
  <2> QED
    BY <2>1, <2>2, CredentialsStep, RemainsStep, KilledStep
<1> QED
  BY <1>1, <1>2, <1>3, PTL DEF Spec

(* The types, and the mutex: one owner at a time, everybody else in line    *)
(* once, whatever is dropped while it waits (tokio's fair Mutex).           *)
THEOREM Typing == Spec => []TypeOK
BY Invariant, PTL DEF IndInv

(* The child runs with the identity it was asked for and no group of the    *)
(* agent's, and giving up privileges never fails for want of them (the      *)
(* pre_exec closure of Process::spawn).                                     *)
THEOREM IdentityGiven == Spec => []RunsAs
BY Invariant, PTL DEF IndInv

(* Every wait that ends answers alike, however many there are and in        *)
(* whatever order they come (Process::wait).                                *)
THEOREM AnswersAgree == Spec => []SameAnswer
<1>1. IndInv => SameAnswer
  <2> SUFFICES ASSUME IndInv, NEW w \in Waiters, answer[w] # "none"
               PROVE  IF fault THEN answer[w] = "error"
                               ELSE answer[w] = status /\ proc = "reaped"
    BY DEF SameAnswer
  <2>1. /\ slot # "child" /\ answer[w] = slot
        /\ slot \in Statuses \cup {"child", "error"}
    BY DEF IndInv, Remains, TypeOK
  <2>2. fault => slot = "error"
    BY <2>1 DEF IndInv, Remains, Users
  <2>3. slot = "error" => fault
    BY <2>1 DEF IndInv, Remains
  <2> QED
    BY <2>1, <2>2, <2>3, HandleAssumption DEF IndInv, Remains
<1> QED
  BY Invariant, <1>1, PTL

(* A handle that is dropped leaves no child behind that it could have       *)
(* killed (Process::drop).                                                  *)
THEOREM DropKills == Spec => []KilledByDrop
BY Invariant, PTL DEF IndInv

(* From one task, a signal never goes to a pid that may be another's,       *)
(* unless a wait that has ended has just handed the mutex to a wait that    *)
(* has not run yet (the fallback on the remembered pid in Process::signal). *)
THEOREM NoneStrays == Spec => NoStraySignal
<1>1. IndInv /\ [Next]_vars => [Send /\ pid # "child" => ~oneTask \/ Handover]_vars
  <2> SUFFICES ASSUME IndInv, Send, oneTask, ~Handover
               PROVE  pid = "child"
    OBVIOUS
  <2>1. sig \in {"sure", "blind"}
    BY DEF Send, IndInv, Typed
  <2>2. slot = "child" /\ phase = "live"
    BY <2>1 DEF IndInv, Users
  <2> QED
    BY <2>2 DEF IndInv, Remains
<1> QED
  BY Invariant, <1>1, PTL DEF Spec, NoStraySignal
=============================================================================
