--------------------------- MODULE MCLivenessAgent ---------------------------
(* Instances of LivenessAgent: what the kernel's files say.  A reading varies *)
(* one file and is ordinary in the others.                                    *)
EXTENDS LivenessAgent

Cpu(fields) == [tag |-> "cpu", fields |-> fields]
Core(fields) == [tag |-> "cpu0", fields |-> fields]

(* Time goes on; idle time alone goes back; a short line and one of garbage; *)
(* counters beyond a word; no aggregate line.                                *)
Later == <<Core(<<1, 0, 1, 4>>), Cpu(<<3, 0, 2, 6, 1, 1>>)>>
Stats ==
  {<<Cpu(<<1, 0, 1, 4, 1, 0>>)>>, Later, <<Cpu(<<3, 0, 2, 6, 0, 3>>)>>,
   <<Cpu(<<3, 0, Garbage, 4, 1>>)>>, <<Cpu(<<1, 1, 1, 2, Garbage>>)>>,
   <<Cpu(<<9, 9, 9, 9>>)>>, <<Core(<<1, 0, 1, 4>>)>>}

Field(name, kb) == [name |-> name, kb |-> kb]

(* No more is free than there is, or more; a number is missing, a line is.  *)
Meminfo(memory, available, swap, free) ==
  <<Field("MemTotal", memory), Field("MemFree", 1), Field("MemAvailable", available),
    Field("SwapTotal", swap), Field("SwapFree", free)>>
Meminfos ==
  {Meminfo(4, a, 2, f) : a \in {0, 3, 5, Garbage}, f \in {0, 3}}
    \cup {Meminfo(4, 3, 0, 0), SubSeq(Meminfo(4, 3, 2, 2), 1, 3)}

Disk(dev, blocks) == [dev |-> dev, blocks |-> blocks, bfree |-> 1, frsize |-> 4, bsize |-> 4]

Root == <<"/">>
Data == <<"/", "d", " ", "t">>
Bound == <<"/", "w">>
Odd == <<"/", "\\", "0", "4", "0">>
Like == <<"/", "run", "-like">>
RunUser == <<"/", "run", "/", "user">>
Proc == <<"/", "proc">>
Share == <<"/", "s">>
Gone == <<"/", "gone">>

FileSystems ==
  (Root :> Disk(1, 3)) @@ (Data :> Disk(2, 2)) @@ (Bound :> Disk(2, 2)) @@ (Odd :> Disk(3, 1))
    @@ (Like :> Disk(4, 2)) @@ (RunUser :> Disk(5, 2)) @@ (Proc :> Disk(6, 0))
    @@ (Share :> Disk(7, 3))

Mount(path, fstype, options) ==
  [point |-> Mangle(path), fstype |-> fstype, options |-> options, whole |-> TRUE]

(* Among them a bind mount, a share of the host, a cut line, a path that     *)
(* looks like an escape, and one that only begins like runtime state.        *)
Mounts ==
  <<Mount(Odd, "ext4", {"ro"}), Mount(Root, "ext4", {"rw"}), Mount(Data, "ext4", {"rw"}),
    Mount(Bound, "ext4", {"rw"}), Mount(Share, "9p", {"rw"}), Mount(Odd, "ext4", {"rw"}),
    Mount(Like, "tmpfs", {"rw", "errors=remount-ro"}), Mount(RunUser, "tmpfs", {"rw"}),
    Mount(Proc, "proc", {"rw"}), Mount(Gone, "ext4", {"rw"}),
    [Mount(Like, "ext4", {"rw"}) EXCEPT !.whole = FALSE], Mount(Root, "ext4", {"rw"})>>

(* Any two of them in either order, and as many more. *)
Rotations(s) ==
  {[k \in DOMAIN s |-> s[((k + n) % Len(s)) + 1]] : n \in DOMAIN s}

MountLists == Rotations(Mounts) \cup Rotations(Reverse(Mounts))

Ordinary ==
  [stat |-> Later, meminfo |-> Meminfo(4, 3, 2, 2), mounts |-> <<Mount(Root, "ext4", {"rw"})>>,
   fs |-> FileSystems,
   disk |-> [byLabel |-> <<[name |-> "data", st_dev |-> 9, st_rdev |-> 2]>>, byId |-> << >>]]

MCReadings ==
  {[Ordinary EXCEPT !.stat = s] : s \in Stats}
    \cup {[Ordinary EXCEPT !.meminfo = m] : m \in Meminfos}
    \cup {[Ordinary EXCEPT !.mounts = l] : l \in MountLists}
=============================================================================
