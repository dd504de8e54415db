---------------------------- MODULE ProcessHandle ----------------------------
(***************************************************************************)
(* The child process and the handle to it, agent/src/process.rs.           *)
(*                                                                         *)
(* spawn picks the user, forks, gives up the agent's privileges step by    *)
(* step in the child, and leaves a Process: the pid, and a mutex over      *)
(* either the running Child or the result of waiting for it.  wait keeps   *)
(* the mutex as long as it waits, so signal tries it and, when it is       *)
(* taken, falls back on the pid it remembers.  A wait may be dropped at    *)
(* any time; the mutex is fair and hands itself to the next in line, who   *)
(* owns it before it runs.                                                 *)
(*                                                                         *)
(* ExecAgent uses this handle from one task and one wait at a time.        *)
(***************************************************************************)
EXTENDS Naturals, SequencesExt

CONSTANTS Waiters,   \* the Process::wait futures
          Statuses,  \* how the child may exit
          Uids,      \* the users agent and child may run as
          Names,     \* the user names the machine knows
          UidOf,     \* their uids
          Default,   \* the user when exec names none: "user"
          Nobody,    \* nobody holds the mutex; exec names no user
          Unknown    \* a name the machine does not know

Root == 0

ASSUME HandleAssumption ==
  /\ Root \in Uids
  /\ UidOf \in [Names -> Uids]
  /\ Nobody # "signal" /\ {Nobody, "signal"} \cap Waiters = {}
  /\ Nobody \notin Names
  /\ Unknown \notin Names \cup {Nobody}
  /\ {"child", "error", "none"} \cap Statuses = {}

VARIABLES
  agent,   \* the agent's uid
  asked,   \* exec.user
  phase,   \* spawn: "start", "forked", "live", "failed"
  steps,   \* what is left of the pre_exec closure
  cred,    \* the child's user, group and supplementary groups
  fault,   \* the system refused a fork, a directory, a program or a wait
  proc,    \* the child: "none", "running", "zombie", "reaped"
  status,  \* how it exited, or "none"
  sent,    \* the signals that reached it while it ran: "asked", "kill"
  pid,     \* whose the remembered pid is: "child", "free", "stranger"
  alive,   \* the handle exists
  slot,    \* behind the mutex: "child", a status, or "error"
  lock,    \* who has the mutex: a waiter, "signal" or Nobody
  line,    \* waiters queued for it
  wait,    \* the futures: "idle", "queued", "granted", "waiting", "done"
  answer,  \* what each has returned, or "none"
  sig,     \* Process::signal: "idle", "sure" or "blind" before it strikes
  oneTask  \* the users of the handle all run in one task

spawning == <<agent, asked, phase, steps, cred, fault>>
kernel == <<proc, status, sent, pid>>
mutex == <<slot, lock, line, wait, answer>>

vars == <<spawning, kernel, mutex, alive, sig, oneTask>>

Own(uid) == [uid |-> uid, gid |-> uid, groups |-> {uid}]

Init ==
  /\ agent \in Uids /\ asked \in Names \cup {Nobody, Unknown}
  /\ oneTask \in BOOLEAN
  /\ phase = "start" /\ steps = << >> /\ cred = Own(agent) /\ fault = FALSE
  /\ proc = "none" /\ status = "none" /\ sent = {} /\ pid = "free"
  /\ alive = FALSE /\ slot = "child" /\ lock = Nobody /\ line = << >>
  /\ wait = [w \in Waiters |-> "idle"] /\ answer = [w \in Waiters |-> "none"]
  /\ sig = "idle"

-----------------------------------------------------------------------------
(* spawn. *)

(* The name looked up; an agent that is not root looks none up. *)
Lookup == IF asked = Nobody THEN Default ELSE asked
Resolves == agent = Root => Lookup \in Names

(* The user the child is to run as. *)
Target == IF agent = Root THEN UidOf[Lookup] ELSE agent

(* As a mutant: the user is given up first. *)
UserFirst == <<"setuid", "setgroups", "setgid">>

(* The closure that runs between fork and exec. *)
PreExec == <<"setgroups", "setgid", "setuid">>

Fork ==
  /\ phase = "start"
  /\ IF Resolves
       THEN /\ phase' = "forked"
            /\ steps' = IF Target # agent THEN PreExec ELSE << >>
       ELSE phase' = "failed" /\ UNCHANGED steps
  /\ UNCHANGED <<agent, asked, cred, fault, kernel, mutex, alive, sig, oneTask>>

(* One call of the closure: only root may make it. *)
GiveUp ==
  /\ phase = "forked" /\ steps # << >>
  /\ steps' = Tail(steps)
  /\ IF cred.uid = Root
       THEN /\ cred' = CASE Head(steps) = "setgroups" -> [cred EXCEPT !.groups = {}]
                         [] Head(steps) = "setgid"    -> [cred EXCEPT !.gid = Target]
                         [] Head(steps) = "setuid"    -> [cred EXCEPT !.uid = Target]
            /\ UNCHANGED phase
       ELSE phase' = "failed" /\ UNCHANGED cred
  /\ UNCHANGED <<agent, asked, fault, kernel, mutex, alive, sig, oneTask>>

(* No such directory or program, no process to be had. *)
SpawnFails ==
  /\ phase \in {"start", "forked"}
  /\ phase' = "failed" /\ fault' = TRUE
  /\ UNCHANGED <<agent, asked, steps, cred, kernel, mutex, alive, sig, oneTask>>

Exec ==
  /\ phase = "forked" /\ steps = << >>
  /\ phase' = "live" /\ alive' = TRUE
  /\ proc' = "running" /\ pid' = "child"
  /\ UNCHANGED <<agent, asked, steps, cred, fault, status, sent, mutex, sig,
                 oneTask>>

-----------------------------------------------------------------------------
(* The child and the kernel. *)

ChildExit(s) ==
  /\ proc = "running"
  /\ proc' = "zombie" /\ status' = s
  /\ UNCHANGED <<spawning, sent, pid, mutex, alive, sig, oneTask>>

(* The pid of a process that has been waited for is given to another. *)
Reuse ==
  /\ pid = "free" /\ proc = "reaped"
  /\ pid' = "stranger"
  /\ UNCHANGED <<spawning, proc, status, sent, mutex, alive, sig, oneTask>>

(* The runtime waits for children whose Child has been dropped. *)
ReapOrphan ==
  /\ proc = "zombie" /\ slot = "error"
  /\ proc' = "reaped" /\ pid' = "free"
  /\ UNCHANGED <<spawning, status, sent, mutex, alive, sig, oneTask>>

(* signal_pid *)
Strike(s) ==
  sent' = IF pid = "child" /\ proc = "running" THEN sent \cup {s} ELSE sent

-----------------------------------------------------------------------------
(* Process::wait. *)

(* In one task nothing runs between the two halves of signal. *)
MayRun == oneTask => sig = "idle"

(* As a mutant: the guard is never given back. *)
Leak == UNCHANGED <<lock, line>>

(* The guard is dropped: the first in line has the mutex now. *)
Unlock ==
  /\ lock' = IF line = << >> THEN Nobody ELSE Head(line)
  /\ line' = IF line = << >> THEN line ELSE Tail(line)

(* What the futures are when w has become now and the mutex has been freed. *)
Moved(w, now) ==
  [v \in Waiters |-> CASE v = w -> now
                       [] line # << >> /\ v = Head(line) -> "granted"
                       [] OTHER -> wait[v]]

(* The first poll.  In one task it goes on to the result when it can;       *)
(* otherwise another task may find the mutex taken meanwhile.               *)
StartWait(w) ==
  /\ alive /\ MayRun
  /\ wait[w] \in {"idle", "done"}
  /\ \/ /\ lock = Nobody /\ (slot = "child" \/ ~oneTask)
        /\ lock' = w /\ wait' = [wait EXCEPT ![w] = "waiting"]
        /\ answer' = [answer EXCEPT ![w] = "none"] /\ UNCHANGED line
     \/ /\ lock = Nobody /\ slot # "child"
        /\ wait' = [wait EXCEPT ![w] = "done"]
        /\ answer' = [answer EXCEPT ![w] = slot] /\ UNCHANGED <<lock, line>>
     \/ /\ lock # Nobody
        /\ line' = Append(line, w) /\ wait' = [wait EXCEPT ![w] = "queued"]
        /\ answer' = [answer EXCEPT ![w] = "none"] /\ UNCHANGED lock
  /\ UNCHANGED <<spawning, kernel, slot, alive, sig, oneTask>>

(* Its guard returns with the result r. *)
Returns(w, r) ==
  /\ answer' = [answer EXCEPT ![w] = r]
  /\ wait' = Moved(w, "done")
  /\ Unlock

(* As a mutant: the child is taken for dead before it is. *)
ExitedOrNot == proc \in {"running", "zombie"}

(* As a mutant: the first wait takes the status away. *)
KeepNothing(r) == "error"

(* What Child::wait waits for, and what is left behind the mutex. *)
Exited == proc = "zombie"
Kept(r) == r

(* Child::wait is polled: it waits for the child, and the result replaces   *)
(* it.                                                                      *)
Reap(w) ==
  /\ MayRun /\ lock = w /\ slot = "child" /\ Exited
  /\ proc' = "reaped" /\ pid' = "free"
  /\ slot' = Kept(status)
  /\ Returns(w, status)
  /\ UNCHANGED <<spawning, status, sent, alive, sig, oneTask>>

(* The kernel refuses: the error replaces the child all the same. *)
WaitFails(w) ==
  /\ MayRun /\ lock = w /\ slot = "child" /\ wait[w] = "waiting"
  /\ slot' = "error" /\ fault' = TRUE
  /\ Returns(w, "error")
  /\ UNCHANGED <<agent, asked, phase, steps, cred, kernel, alive, sig, oneTask>>

(* A wait that has been handed the mutex finds the child still there. *)
Resume(w) ==
  /\ MayRun /\ wait[w] = "granted" /\ slot = "child" /\ ~Exited
  /\ wait' = [wait EXCEPT ![w] = "waiting"]
  /\ UNCHANGED <<spawning, kernel, slot, lock, line, answer, alive, sig, oneTask>>

(* An earlier wait has left its result. *)
Reread(w) ==
  /\ MayRun /\ lock = w /\ slot # "child"
  /\ Returns(w, slot)
  /\ UNCHANGED <<spawning, kernel, slot, alive, sig, oneTask>>

(* The future is dropped, as select! does when its other branch fires. *)
Cancel(w) ==
  /\ MayRun
  /\ \/ /\ wait[w] = "queued"
        /\ \E i \in DOMAIN line : line[i] = w /\ line' = RemoveAt(line, i)
        /\ wait' = [wait EXCEPT ![w] = "idle"]
        /\ UNCHANGED lock
     \/ lock = w /\ wait' = Moved(w, "idle") /\ Unlock
  /\ UNCHANGED <<spawning, kernel, slot, answer, alive, sig, oneTask>>

-----------------------------------------------------------------------------
(* Process::signal. *)

(* As a mutant: the handle never looks behind the mutex. *)
AnythingThere == TRUE

(* The child has not been waited for. *)
ChildThere == slot = "child"

(* try_lock; when it succeeds and the child has been waited for there is    *)
(* nothing to send.                                                         *)
TrySignal ==
  /\ alive /\ sig = "idle"
  /\ \/ lock = Nobody /\ ChildThere /\ sig' = "sure" /\ lock' = "signal"
     \/ lock # Nobody /\ sig' = "blind" /\ UNCHANGED lock
  /\ UNCHANGED <<spawning, kernel, slot, line, wait, answer, alive, oneTask>>

(* The signal goes to the child's pid, or to the remembered one: the same.  *)
Send ==
  /\ sig # "idle"
  /\ Strike("asked")
  /\ sig' = "idle"
  /\ IF sig = "sure"
       THEN Unlock /\ wait' = Moved("signal", "idle")
       ELSE UNCHANGED <<lock, line, wait>>
  /\ UNCHANGED <<spawning, proc, status, pid, slot, answer, alive, oneTask>>

(* As a mutant: a handle that is dropped leaves the child alone. *)
Spare == UNCHANGED sent

(* Process::drop kills a child that has not been waited for. *)
Kill == IF lock # Nobody \/ slot = "child" THEN Strike("kill") ELSE UNCHANGED sent

Drop ==
  /\ alive /\ sig = "idle"
  /\ \A w \in Waiters : wait[w] \in {"idle", "done"}
  /\ alive' = FALSE
  /\ Kill
  /\ slot' = IF lock = Nobody /\ slot = "child" THEN "error" ELSE slot
  /\ UNCHANGED <<spawning, proc, status, pid, lock, line, wait, answer, sig,
                 oneTask>>

-----------------------------------------------------------------------------

Poll(w) == Reap(w) \/ Resume(w) \/ Reread(w)

Next ==
  \/ Fork \/ GiveUp \/ SpawnFails \/ Exec
  \/ \E s \in Statuses : ChildExit(s)
  \/ Reuse \/ ReapOrphan
  \/ \E w \in Waiters : StartWait(w) \/ Poll(w) \/ WaitFails(w) \/ Cancel(w)
  \/ TrySignal \/ Send \/ Drop

Spec == Init /\ [][Next]_vars

(* A signal that has begun is sent, and a wait that can go on is polled,    *)
(* however many signals are sent between two polls.                         *)
FairSpec == Spec /\ WF_vars(Send) /\ \A w \in Waiters : SF_vars(Poll(w))

-----------------------------------------------------------------------------
(* Properties. *)

Holding == {w \in Waiters : wait[w] \in {"granted", "waiting"}}

(* The mutex has one owner, and everybody else is in line once.             *)
InLine ==
  /\ IF lock \in Waiters THEN Holding = {lock} ELSE Holding = {}
  /\ IsInjective(line) /\ Range(line) = {w \in Waiters : wait[w] = "queued"}

(* Types, and the mutex. *)
TypeOK ==
  /\ phase \in {"start", "forked", "live", "failed"}
  /\ proc \in {"none", "running", "zombie", "reaped"}
  /\ pid \in {"child", "free", "stranger"}
  /\ status \in Statuses \cup {"none"}
  /\ slot \in Statuses \cup {"child", "error"}
  /\ answer \in [Waiters -> Statuses \cup {"none", "error"}]
  /\ lock = "signal" <=> sig = "sure"
  /\ InLine

(* The child runs as the user it was asked to run as, with that user's      *)
(* group and none of the agent's, or as the agent itself, when the agent is *)
(* not root or is the user; and the steps of pre_exec never stand in each   *)
(* other's way: spawn fails for a name nobody has, or when the system       *)
(* refuses, and for nothing else.                                           *)
RunsAs ==
  /\ proc # "none" =>
       cred = IF Target # agent THEN [uid |-> Target, gid |-> Target, groups |-> {}]
                                ELSE Own(agent)
  /\ phase = "failed" => fault \/ ~Resolves

(* Every wait, first or later, alone or in line, cancelled and repeated or  *)
(* not, answers how the child exited, and only when it has; or, if waiting  *)
(* has failed once, every wait says so.                                     *)
SameAnswer ==
  \A w \in Waiters : answer[w] # "none" =>
    IF fault THEN answer[w] = "error" ELSE answer[w] = status /\ proc = "reaped"

(* A handle that is gone leaves no child running that is not being killed,  *)
(* unless waiting for it has failed.                                        *)
KilledByDrop ==
  phase = "live" /\ ~alive /\ proc = "running" =>
    "kill" \in sent \/ fault

(* No signal goes to a pid that is no longer the child's, if the handle is  *)
(* used from one task and a wait that has ended has not handed the mutex to *)
(* another that has not run yet.  With one wait at a time, as in the agent, *)
(* this never happens.                                                      *)
Handover == \E w \in Waiters : wait[w] = "granted"

NoStraySignal == [][Send /\ pid # "child" => ~oneTask \/ Handover]_vars

(* The inductive invariant behind these properties, in four parts.  The     *)
(* types the others build on.                                               *)
Typed ==
  /\ asked \in Names \cup {Nobody, Unknown}
  /\ fault \in BOOLEAN /\ alive \in BOOLEAN /\ oneTask \in BOOLEAN
  /\ sent \subseteq {"asked", "kill"}
  /\ lock \in Waiters \cup {"signal", Nobody}
  /\ line \in Seq(Waiters)
  /\ wait \in [Waiters -> {"idle", "queued", "granted", "waiting", "done"}]
  /\ sig \in {"idle", "sure", "blind"}

(* The closure is at one of its calls, and still root for each of them.     *)
Credentials ==
  /\ phase = "start" => steps = << >> /\ cred = Own(agent)
  /\ phase \in {"forked", "live"} => Resolves
  /\ phase \in {"forked", "live"} /\ Target = agent => steps = << >> /\ cred = Own(agent)
  /\ phase \in {"forked", "live"} /\ Target # agent =>
       /\ agent = Root
       /\ \/ steps = PreExec /\ cred = Own(agent)
          \/ /\ steps = <<"setgid", "setuid">>
             /\ cred = [uid |-> agent, gid |-> agent, groups |-> {}]
          \/ /\ steps = <<"setuid">>
             /\ cred = [uid |-> agent, gid |-> Target, groups |-> {}]
          \/ /\ steps = << >>
             /\ cred = [uid |-> Target, gid |-> Target, groups |-> {}]
  /\ phase = "live" => steps = << >>

(* The child and what is left of it behind the mutex.                       *)
Remains ==
  /\ phase = "live" <=> proc # "none"
  /\ proc = "running" => pid = "child"
  /\ proc \in {"zombie", "reaped"} => status \in Statuses
  /\ phase = "live" /\ slot = "child" => proc # "reaped" /\ pid = "child"
  /\ phase \in {"start", "forked"} => ~fault
  /\ phase = "live" /\ fault => slot = "error"
  /\ slot \in Statuses => ~fault /\ slot = status /\ proc = "reaped"
  /\ slot = "error" /\ ~fault => ~alive /\ \A w \in Waiters : answer[w] = "none"
  /\ \A w \in Waiters : answer[w] # "none" => slot # "child" /\ answer[w] = slot

(* The handle and its users.                                                *)
Users ==
  /\ phase # "live" => ~alive /\ slot = "child"
  /\ ~alive => sig = "idle" /\ \A w \in Waiters : wait[w] \in {"idle", "done"}
  /\ alive \/ phase # "live" \/ slot # "child"
  /\ sig = "sure" => slot = "child"
  /\ oneTask => \A w \in Waiters : wait[w] = "waiting" => slot = "child"
  /\ oneTask /\ sig = "blind" /\ ~Handover => slot = "child"

IndInv ==
  /\ TypeOK /\ Typed
  /\ Credentials /\ RunsAs
  /\ Remains
  /\ Users
  /\ KilledByDrop

(* A wait ends when the child has exited, in whatever order the waits came, *)
(* and whichever of them are dropped.                                       *)
WaitEnds ==
  \A w \in Waiters :
    (wait[w] \notin {"idle", "done"} /\ proc = "zombie") ~> wait[w] \in {"idle", "done"}
=============================================================================
