---------------------------- MODULE LivenessAgent ----------------------------
(***************************************************************************)
(* The liveness agent, liveness/src/main.rs and agent.rs, with the Tx and  *)
(* Rx of liveness/protocol/src/io.rs, between a system that boots and a    *)
(* host that reads.                                                        *)
(*                                                                         *)
(* The agent connects once, takes a first CPU sample, and then collects a  *)
(* report, sends it as one line, and sleeps, until the connection, the     *)
(* metrics or SIGTERM end it; systemd then starts it again, unless the     *)
(* system is going down.  A line is LineLen units, the last its newline,   *)
(* and the connection takes Window units ahead of the host.                *)
(***************************************************************************)
EXTENDS LivenessMetrics

CONSTANTS Readings,  \* what the kernel's files may say: stat, meminfo,
                     \* mounts, fs and disk
          LineLen,   \* units of a line
          Window,    \* units the connection takes
          MaxFaults  \* bound: failures of connection, metrics and agent

(* A file has lines, a line of /proc/stat fields, and what is parsed as u64 *)
(* or comes from statvfs is a natural number, if it is one at all.  A path  *)
(* has characters, and a mount point is a path as the kernel writes it.     *)
ASSUME ReadingsAssumption ==
  \A r \in Readings :
    /\ \A file \in {r.stat, r.meminfo, r.mounts} : file \in Seq(Range(file))
    /\ \A line \in Range(r.stat) : line.fields \in Seq(Number)
    /\ \A line \in Range(r.meminfo) : line.kb \in Number
    /\ \A p \in DOMAIN r.fs :
         /\ {r.fs[p].blocks, r.fs[p].bfree, r.fs[p].frsize, r.fs[p].bsize} \subseteq Nat
         /\ p \in Seq(Range(p))
    /\ \A line \in Range(r.mounts) : line.whole => Mangle(Unescape(line.point)) = line.point

ASSUME AgentAssumption == LineLen \in Nat \ {0, 1} /\ Window \in Nat \ {0} /\ MaxFaults \in Nat

VARIABLES
  phase,    \* "down", "connecting", "begin", "collect", "collected",
            \* "send", "select"
  cpu,      \* the sample to diff against: an Option
  reading,  \* what the report being collected was read from: an Option
  report,   \* that report: an Option
  turn,     \* its number on this connection, modulo Turns
  left,     \* the units of its line that are not written
  exit,     \* how the agent ended: "none", "ok", "error", "killed"
  conn,     \* "none", "up", "closed" by the agent, "gone" from the host
  wire,     \* units written and not read
  partial,  \* units the host has read of a line
  heard,    \* the turn of the last status it has, 0 for none
  booted,   \* it has heard of an operational state
  broken,   \* its recv has returned an error
  boot,     \* the systemd state
  term,     \* SIGTERM has been sent
  faults

agent == <<phase, cpu, reading, report, turn, left, exit>>
host == <<partial, heard, booted, broken>>
system == <<boot, term>>

vars == <<agent, conn, wire, host, system, faults>>

(* What each reading comes to; those that come to a report; the samples.    *)
Measured ==
  [r \in Readings |-> [stat   |-> ReadProcStat(r.stat),
                       memory |-> Memory(r.meminfo), swap |-> Swap(r.meminfo),
                       disks  |-> Disks(r.mounts, r.fs, r.disk)]]

Sound ==
  {r \in Readings : None \notin {Measured[r].stat, Measured[r].memory, Measured[r].swap}}

Samples == {Measured[r].stat : r \in Readings} \ {None}

(* Reports are told apart by their turn: 1 to Turns on a connection. *)
Turns == Window + 2
After(n) == (n % Turns) + 1

Init ==
  /\ phase = "down" /\ exit = "none" /\ turn = 1 /\ left = << >>
  /\ cpu = None /\ reading = None /\ report = None
  /\ conn = "none" /\ wire = << >>
  /\ partial = << >> /\ heard = 0 /\ booted = FALSE /\ broken = FALSE
  /\ boot = "starting" /\ term = FALSE /\ faults = 0

Fault == faults < MaxFaults /\ faults' = faults + 1

(* The process ends, and its side of the connection with it. *)
Exit(how) ==
  /\ phase' = "down" /\ exit' = how
  /\ cpu' = None /\ reading' = None /\ report' = None /\ left' = << >>
  /\ conn' = (IF conn = "up" THEN "closed" ELSE conn)
  /\ UNCHANGED turn

-----------------------------------------------------------------------------
(* The system and systemd. *)

Boot(state) ==
  /\ boot = "starting" /\ boot' = state
  /\ UNCHANGED <<agent, conn, wire, host, term, faults>>

SigTerm ==
  /\ ~term /\ term' = TRUE
  /\ UNCHANGED <<agent, conn, wire, host, boot, faults>>

SigKill ==
  /\ phase # "down" /\ Fault
  /\ Exit("killed")
  /\ UNCHANGED <<wire, host, system>>

(* Restart=always.  The host turns to the new connection. *)
Restart ==
  /\ phase = "down" /\ ~term
  /\ phase' = "connecting" /\ exit' = "none" /\ turn' = 1
  /\ conn' = "none" /\ wire' = << >>
  /\ partial' = << >> /\ heard' = 0 /\ broken' = FALSE
  /\ UNCHANGED <<cpu, reading, report, left, booted, system, faults>>

-----------------------------------------------------------------------------
(* main.rs: connect. *)

(* The socket is writable and has no error. *)
Connect ==
  /\ phase = "connecting"
  /\ phase' = "begin" /\ conn' = "up"
  /\ UNCHANGED <<cpu, reading, report, turn, left, exit, wire, host, system, faults>>

(* connect refuses, or take_error tells of a failure. *)
ConnectFails ==
  /\ phase = "connecting" /\ Fault
  /\ Exit("error")
  /\ UNCHANGED <<wire, host, system>>

-----------------------------------------------------------------------------
(* agent.rs: report_until_disconnected. *)

Begin ==
  /\ phase = "begin"
  /\ cpu' \in Samples /\ phase' = "collect"
  /\ UNCHANGED <<reading, report, turn, left, exit, conn, wire, host, system, faults>>

BeginFails ==
  /\ phase = "begin" /\ Fault
  /\ Exit("error")
  /\ UNCHANGED <<wire, host, system>>

(* What systemctl prints: the state, or nothing as long as systemd is not up. *)
Systemctl == {boot} \cup (IF boot = "starting" THEN {""} ELSE {})

(* report, up to the send. *)
Collect(r) ==
  /\ phase = "collect" /\ reading' = Some(r)
  /\ LET m == Measured[r] IN
     /\ cpu' = m.stat /\ phase' = "collected"
     /\ \E output \in Systemctl :
          report' = Some([systemd |-> SystemdState(output),
                          cpu_percent |-> CpuPercent(cpu[1], m.stat[1]),
                          memory |-> m.memory[1], swap |-> m.swap[1],
                          disks |-> m.disks])
  /\ UNCHANGED <<turn, left, exit, conn, wire, host, system, faults>>

(* Numbers that cannot be had end the agent, without an error. *)
CollectFails ==
  /\ phase = "collect" /\ Sound # Readings /\ Fault
  /\ Exit("ok")
  /\ UNCHANGED <<wire, host, system>>

(* Tx::send: one line. *)
Line(status) ==
  [k \in 1..LineLen |-> [turn |-> turn, part |-> k, systemd |-> status.systemd]]

StartSend ==
  /\ phase = "collected"
  /\ phase' = "send" /\ left' = Line(report[1])
  /\ reading' = None /\ report' = None
  /\ UNCHANGED <<cpu, turn, exit, conn, wire, host, system, faults>>

(* A short write: some of the line. *)
Write ==
  /\ phase = "send" /\ left # << >> /\ conn = "up" /\ Len(wire) < Window
  /\ wire' = Append(wire, Head(left)) /\ left' = Tail(left)
  /\ UNCHANGED <<phase, cpu, reading, report, turn, exit, conn, host, system, faults>>

(* As a mutant: a connection that is gone is waited for. *)
WaitsForever == FALSE

(* The host is gone: no error for the caller. *)
WriteFails ==
  /\ phase = "send" /\ left # << >> /\ conn = "gone"
  /\ Exit("ok")
  /\ UNCHANGED <<wire, host, system, faults>>

SendDone ==
  /\ phase = "send" /\ left = << >>
  /\ phase' = "select" /\ turn' = After(turn)
  /\ UNCHANGED <<cpu, reading, report, left, exit, conn, wire, host, system, faults>>

(* As mutants: the shutdown is polled during a report, too; or nowhere.     *)
AnywhereInLoop == phase \in {"collect", "collected", "send", "select"}
NotInLoop == FALSE

(* Where the shutdown is polled. *)
Listening == phase = "select"

(* The select! is biased: the shutdown comes first. *)
Shutdown ==
  /\ Listening /\ term
  /\ Exit("ok")
  /\ UNCHANGED <<wire, host, system, faults>>

IntervalOver ==
  /\ phase = "select" /\ ~term
  /\ phase' = "collect"
  /\ UNCHANGED <<cpu, reading, report, turn, left, exit, conn, wire, host, system, faults>>

-----------------------------------------------------------------------------
(* The host: Rx::recv, again and again. *)

(* One report's units, in order, without the newline. *)
WholeLine(units) ==
  Len(units) = LineLen - 1 /\ \A k \in DOMAIN units :
                                units[k].part = k /\ units[k].turn = units[1].turn

HostReads ==
  /\ conn \in {"up", "closed"} /\ wire # << >> /\ ~broken
  /\ wire' = Tail(wire)
  /\ IF Head(wire).part # LineLen
       THEN partial' = Append(partial, Head(wire)) /\ UNCHANGED <<heard, booted, broken>>
       ELSE /\ partial' = << >>
            /\ IF WholeLine(partial)
                 THEN /\ heard' = partial[1].turn
                      /\ booted' = (booted \/ IsOperational(partial[1].systemd))
                      /\ UNCHANGED broken
                 ELSE broken' = TRUE /\ UNCHANGED <<heard, booted>>
  /\ UNCHANGED <<agent, conn, system, faults>>

(* The end of the connection: a rest without a newline is a line too. *)
HostSeesEnd ==
  /\ conn = "closed" /\ wire = << >> /\ partial # << >>
  /\ IF WholeLine(partial)
       THEN /\ heard' = partial[1].turn
            /\ booted' = (booted \/ IsOperational(partial[1].systemd))
            /\ UNCHANGED broken
       ELSE broken' = TRUE /\ UNCHANGED <<heard, booted>>
  /\ partial' = << >>
  /\ UNCHANGED <<agent, conn, wire, system, faults>>

HostHangsUp ==
  /\ conn = "up" /\ Fault
  /\ conn' = "gone" /\ wire' = << >> /\ partial' = << >>
  /\ UNCHANGED <<agent, heard, booted, broken, system>>

-----------------------------------------------------------------------------

Agent ==
  \/ Connect \/ Begin \/ StartSend \/ Write \/ WriteFails \/ SendDone \/ Shutdown \/ IntervalOver
  \/ \E r \in Sound : Collect(r)

Next ==
  \/ Agent \/ Restart \/ ConnectFails \/ BeginFails \/ CollectFails \/ SigTerm \/ SigKill
  \/ \E state \in {"running", "degraded"} : Boot(state)
  \/ HostReads \/ HostSeesEnd \/ HostHangsUp

Spec == Init /\ [][Next]_vars

(* An agent that can go on does; systemd restarts it; a connect ends, as    *)
(* vsock gives up after a while; and the host reads.                        *)
FairSpec ==
  Spec /\ WF_vars(Agent) /\ WF_vars(Restart) /\ WF_vars(HostReads \/ HostSeesEnd)

-----------------------------------------------------------------------------
(* Properties. *)

(* However short or full of garbage the line of /proc/stat was, idle is     *)
(* within total, which the unchecked subtraction relies on; a share is a    *)
(* share, though counters run backwards, idle alone or both; and no         *)
(* resource is used up more than whole, whatever the kernel's numbers say   *)
(* of what is free.                                                         *)
NumbersInRange ==
  /\ cpu # None => cpu[1].idle \in 0..cpu[1].total /\ cpu[1].total \in 0..WordMax
  /\ report # None =>
       /\ report[1].cpu_percent \in 0..100
       /\ \A u \in {report[1].memory, report[1].swap}
                    \cup {d.usage : d \in Range(report[1].disks)} : u.used \in 0..u.total

(* What makes it inductive: there is a sample to diff against whenever a    *)
(* report is made of the next one.                                          *)
Sampled == phase \in {"collect", "collected", "send", "select"} => cpu # None

(* The disks are the file systems of the machine, each once, under the      *)
(* first of its writable mount points that is no runtime state nor a share  *)
(* of the host, in the order of the mounts, and at its true path: what the  *)
(* comment at metrics.rs:139-151 says.  Those at protocol/src/lib.rs:107,   *)
(* 116 and 119 say one entry for each mount point, the path as it appears   *)
(* in /proc/mounts, and bind mounts of one file system with one label; the  *)
(* code gives one entry for each device and the decoded path, and leaves    *)
(* the bind mounts out.                                                     *)
DisksRight ==
  report # None =>
    LET r == reading[1]
        first == FirstOnes(r.mounts, r.fs)
    IN [k \in DOMAIN report[1].disks |-> report[1].disks[k].mount_point]
         = [k \in 1..Cardinality(first) |-> PathAt(r.mounts, r.fs, Nth(first, k))]

(* What makes it inductive: a report is of the reading that is remembered.  *)
ReadFrom ==
  report # None =>
    \E r \in Readings : reading = Some(r) /\ report[1].disks = Measured[r].disks

(* On a connection the host gets every report, in order, from the first,    *)
(* and nothing but whole ones, however the writes are cut; unless the agent *)
(* was killed in the middle of one.                                         *)
WholeReports ==
  [][/\ heard' \notin {heard, 0} => heard' = After(heard)
     /\ broken' => exit' = "killed"]_vars

(* The inductive invariant behind it.  What travels.                        *)
States ==
  {"initializing", "starting", "running", "degraded", "maintenance", "stopping", "unknown"}

Unit == [turn : Nat, part : 1..LineLen, systemd : States]

Typed ==
  /\ wire \in Seq(Unit) /\ left \in Seq(Unit) /\ partial \in Seq(Unit)
  /\ turn \in Nat /\ heard \in Nat /\ broken \in BOOLEAN
  /\ report # None => report[1].systemd \in States

(* How far the agent is, and what becomes of its connection.                *)
Stages ==
  /\ conn \in {"none", "up", "closed", "gone"}
  /\ phase # "send" => left = << >>
  /\ phase = "collected" <=> report # None
  /\ conn = "none" => phase \in {"down", "connecting"}
  /\ conn = "closed" => phase = "down"
  /\ phase = "connecting" => conn = "none"
  /\ exit # "none" => phase = "down"
  /\ broken => exit = "killed"

(* One unit follows another: in the line, or at the start of the next.      *)
Follows(v, u) ==
  IF u.part = LineLen THEN v.part = 1 /\ v.turn = After(u.turn)
                      ELSE v.part = u.part + 1 /\ v.turn = u.turn

(* The turn of the line after those that are written or being written.      *)
Upcoming == IF phase = "send" THEN After(turn) ELSE turn

(* What the host has begun is the beginning of a line, after the last one   *)
(* it has; what is on the way goes on from there without a gap, and, unless *)
(* it was cut off, to the end of the line before the next one.              *)
Gapless(way, begun, last, next, cut) ==
  /\ Len(begun) < LineLen
  /\ \A k \in 1..Len(begun) : begun[k].part = k /\ begun[k].turn = After(last)
  /\ way # << >> => way[1].part = Len(begun) + 1 /\ way[1].turn = After(last)
  /\ \A k \in 1..(Len(way) - 1) : Follows(way[k + 1], way[k])
  /\ cut \/ (IF way = << >>
               THEN begun = << >> /\ next = After(last)
               ELSE way[Len(way)].part = LineLen /\ next = After(way[Len(way)].turn))

InStep ==
  conn # "gone" => Gapless(wire \o left, partial, heard, Upcoming, exit = "killed")

IndInv == Typed /\ Stages /\ InStep

(* A host that reads learns that the system has booted, through restarts,   *)
(* failed connections, metrics that cannot be read and systemctl failing    *)
(* at first.                                                                *)
BootSeen == (boot # "starting") ~> (booted \/ term)

(* Reports keep coming, through the same faults. *)
KeepsReporting == []<><<heard' # heard>>_vars \/ <>term

(* After SIGTERM the agent ends, whatever it is doing, if the host reads or *)
(* is gone.                                                                 *)
StopsOnTerm == term ~> (phase = "down")
-----------------------------------------------------------------------------
(* "The label udev gives the underlying device: the filesystem label"       *)
(* (metrics.rs:204): a disk that udev has labelled is reported with its     *)
(* label.  Refuted by a run of its own.                                     *)
Labelled ==
  report # None =>
    \A d \in Range(report[1].disks) :
      \A link \in Range(reading[1].disk.byLabel) :
        link.st_rdev = reading[1].fs[d.mount_point].dev => d.label = Some(link.name)
=============================================================================
