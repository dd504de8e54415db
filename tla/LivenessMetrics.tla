--------------------------- MODULE LivenessMetrics ---------------------------
(***************************************************************************)
(* What the liveness agent makes of the kernel's files,                    *)
(* liveness/src/metrics.rs: pure operators over a reading of /proc/stat,   *)
(* /proc/meminfo, /proc/mounts, statvfs and /dev/disk.                     *)
(*                                                                         *)
(* A file is the sequence of its lines, a line a record of its fields.  A  *)
(* path is a sequence of characters, where "run" and its like count as     *)
(* one.  An Option is a sequence of at most one element; an Err is None.   *)
(***************************************************************************)
EXTENDS Integers, SequencesExt, FiniteSetsExt

CONSTANT WordMax  \* the largest u64

ASSUME MetricsAssumption == WordMax \in Nat

None == << >>
Some(v) == <<v>>

(* The first that is something: find_map. *)
FirstSome(options) ==
  LET found == FlattenSeq(options) IN SubSeq(found, 1, Min({1, Len(found)}))

Garbage == -1     \* a field that is no number
Number == Nat \cup {Garbage}
Sat(a, b) == IF a > b THEN a - b ELSE 0
Sum(numbers) == FoldLeft(LAMBDA a, b : a + b, 0, numbers)

-----------------------------------------------------------------------------
(* /proc/stat *)

(* What can be read of a line: the fields before the first that is no number. *)
Readable(fields) ==
  LET bad == SelectInSeq(fields, LAMBDA f : f = Garbage)
  IN IF bad = 0 THEN fields ELSE SubSeq(fields, 1, bad - 1)

(* ProcStat::parse: idle is idle and iowait, and within the total.          *)
ParseStat(line) ==
  LET jiffies == Readable(line.fields) IN
  IF line.tag = "cpu" /\ Sum(jiffies) <= WordMax
    THEN Some([total |-> Sum(jiffies),
               idle  |-> Sum(SubSeq(jiffies, 4, Min({5, Len(jiffies)})))])
    ELSE None

ReadProcStat(stat) == FirstSome([i \in DOMAIN stat |-> ParseStat(stat[i])])

(* As a mutant: a share is taken as it is. *)
AnyShare(percent) == percent

Clamp(percent) == Min({percent, 100})

(* The differences of the counters saturate; total - idle is not checked.   *)
Busy(s) == (s.total - s.idle) % (WordMax + 1)

CpuPercent(first, second) ==
  LET elapsed == Sat(second.total, first.total) IN
  IF elapsed = 0 THEN 0
                 ELSE Clamp((Sat(Busy(second), Busy(first)) * 100) \div elapsed)

-----------------------------------------------------------------------------
(* /proc/meminfo *)

(* The first line of that name with a number. *)
MeminfoField(meminfo, name) ==
  FirstSome([i \in DOMAIN meminfo |->
               IF meminfo[i].name = name /\ meminfo[i].kb # Garbage
                 THEN Some(meminfo[i].kb) ELSE None])

UsedKb(total, free) == Sat(total, free)

UsageOf(meminfo, total, free) ==
  LET t == MeminfoField(meminfo, total)
      f == MeminfoField(meminfo, free)
  IN IF t = None \/ f = None
       THEN None
       ELSE Some([used |-> UsedKb(t[1], f[1]) * 1024, total |-> t[1] * 1024])

Memory(meminfo) == UsageOf(meminfo, "MemTotal", "MemAvailable")
Swap(meminfo) == UsageOf(meminfo, "SwapTotal", "SwapFree")

-----------------------------------------------------------------------------
(* /proc/mounts, statvfs and /dev/disk *)

(* The kernel writes these characters of a mount point as octal escapes.    *)
Octal == [c \in {" ", "\t", "\n", "\\"} |->
            CASE c = " "  -> <<"\\", "0", "4", "0">>
              [] c = "\t" -> <<"\\", "0", "1", "1">>
              [] c = "\n" -> <<"\\", "0", "1", "2">>
              [] c = "\\" -> <<"\\", "1", "3", "4">>]

Mangle(path) ==
  FlattenSeq([i \in DOMAIN path |->
                IF path[i] \in DOMAIN Octal THEN Octal[path[i]] ELSE <<path[i]>>])

(* unescape_mount_point: a backslash takes the next three characters.  The  *)
(* code decodes any three octal digits; the kernel writes these four.       *)
Decoded(esc) ==
  IF \E c \in DOMAIN Octal : Octal[c] = esc
    THEN <<CHOOSE c \in DOMAIN Octal : Octal[c] = esc>> ELSE esc

UnescapeStep(acc, c) ==
  CASE acc.esc = << >> /\ c # "\\" -> [acc EXCEPT !.path = Append(@, c)]
    [] Len(acc.esc) = 3 -> [path |-> acc.path \o Decoded(Append(acc.esc, c)), esc |-> << >>]
    [] OTHER -> [acc EXCEPT !.esc = Append(@, c)]

Unescaped(field) ==
  FoldLeft(LAMBDA acc, c : UnescapeStep(acc, c), [path |-> << >>, esc |-> << >>], field)

Unescape(field) == Unescaped(field).path \o Unescaped(field).esc

IsRuntime(path) ==
  \E dir \in {"run", "dev", "nix"} :
    path = <<"/", dir>> \/ IsPrefix(<<"/", dir, "/">>, path)

(* disk_of: statvfs of a path, in blocks of the larger of the two sizes.    *)
DiskOf(st) ==
  LET block == Max({st.frsize, st.bsize})
  IN [used |-> Sat(st.blocks, st.bfree) * block, total |-> st.blocks * block]

(* device_label compares st_dev of a device node, the device /dev is on.    *)
DeviceLabel(disk, device) ==
  LET named(dir) == FirstSome([i \in DOMAIN dir |->
                       IF dir[i].st_dev = device THEN Some(dir[i].name) ELSE None])
  IN FirstSome(<<named(disk.byLabel), named(disk.byId)>>)

(* As a mutant: a bind mount counts as a disk of its own. *)
NeverKnown(acc, device) == FALSE

Known(acc, device) == device \in acc.devices

(* A line that is cut short, a share of the host, a mount that is read-only *)
(* or runtime state, or a path seen before.                                 *)
Skipped(acc, line) ==
  \/ ~line.whole \/ line.fstype = "9p" \/ "ro" \in line.options
  \/ IsRuntime(Unescape(line.point)) \/ Unescape(line.point) \in acc.seen

(* One line of /proc/mounts; fs tells what statvfs and stat say of a path.  *)
Consider(acc, line, fs, disk) ==
  LET path == Unescape(line.point) IN
  IF Skipped(acc, line) THEN acc
  ELSE IF path \notin DOMAIN fs \/ fs[path].blocks = 0 \/ Known(acc, fs[path].dev)
    THEN [acc EXCEPT !.seen = @ \cup {path}]
    ELSE [seen    |-> acc.seen \cup {path},
          devices |-> acc.devices \cup {fs[path].dev},
          disks   |-> Append(acc.disks,
                             [mount_point |-> path, usage |-> DiskOf(fs[path]),
                              label |-> DeviceLabel(disk, fs[path].dev)])]

Disks(mounts, fs, disk) ==
  FoldLeft(LAMBDA acc, line : Consider(acc, line, fs, disk),
           [seen |-> {}, devices |-> {}, disks |-> << >>], mounts).disks

(* Which disks that comes to.  The path a line is about, if it is one of    *)
(* the machine's, and whether it is neither runtime state nor below it.     *)
PathAt(mounts, fs, i) == CHOOSE p \in DOMAIN fs : Mangle(p) = mounts[i].point

Lasting(path) ==
  \A dir \in {"run", "dev", "nix"} : SubSeq(path \o <<"/", "/">>, 1, 3) # <<"/", dir, "/">>

(* The lines that show a disk, and of each disk the first.                  *)
Shown(mounts, fs) ==
  {i \in DOMAIN mounts :
     /\ mounts[i].whole /\ mounts[i].fstype # "9p" /\ "ro" \notin mounts[i].options
     /\ \E p \in DOMAIN fs : Mangle(p) = mounts[i].point /\ fs[p].blocks > 0 /\ Lasting(p)}

FirstOnes(mounts, fs) ==
  LET dev(i) == fs[PathAt(mounts, fs, i)].dev
  IN {i \in Shown(mounts, fs) : \A j \in Shown(mounts, fs) : dev(j) = dev(i) => i <= j}

UpTo(S, i) == Cardinality({j \in S : j <= i})
Nth(S, k) == CHOOSE i \in S : UpTo(S, i) = k

-----------------------------------------------------------------------------
(* systemctl is-system-running *)

(* As a mutant: degraded is forgotten. *)
StateButDegraded(output) ==
  IF output \in {"initializing", "starting", "running", "maintenance", "stopping"}
    THEN output ELSE "unknown"

SystemdState(output) ==
  IF output \in {"initializing", "starting", "running", "degraded",
                 "maintenance", "stopping"} THEN output ELSE "unknown"

IsOperational(state) == state \in {"running", "degraded"}
=============================================================================
