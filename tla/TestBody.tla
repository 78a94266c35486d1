------------------------------ MODULE TestBody ------------------------------
(***************************************************************************)
(* The test functions that start QEMUs (tests/*.rs) and what they hold:    *)
(* temporary directories, a pair of taps, a cloud-init disk                *)
(* (cloud_init.rs) and one or two QEMUs with the command lines of          *)
(* QemuConfig and GuestConfig (process.rs).  Every operation may fail with *)
(* `?`; the locals are then dropped in reverse order of declaration, which *)
(* nothing but that order arranges: no QemuProcess borrows what it uses.   *)
(*                                                                         *)
(* Tests run in parallel, in any number.  A file is <<test, dir, name>>.  *)
(* An Option is a set.  MACs are random; two tests' are taken to differ.   *)
(***************************************************************************)
EXTENDS Integers, Sequences, FiniteSets, SequencesExt

CONSTANTS Jobs, Existing,   \* as in TapPool
          Test,             \* as in TestRunner, each on a thread of its own
          Plans             \* what the test functions and their parameters
                            \* decide, as functions of the tests

(***************************************************************************)
(* What a test may decide: parameters of test_fn and the calls it makes.   *)
(* Only the full OS is told to reboot, by ssh.                             *)
(***************************************************************************)
Plan ==
    {p \in [payload : {"GuestBin", "Kernel", "DiskImage"},
            migrates : BOOLEAN, reboots : BOOLEAN, waits : BOOLEAN, io_thread : BOOLEAN,
            initrd : SUBSET STRING, machine : {"pc", "q35"}, smp : SUBSET Nat,
            cpu : SUBSET STRING, ovmf : SUBSET STRING, stress : SUBSET STRING] :
        p.reboots => p.payload = "DiskImage"}

ASSUME PoolAssumption ==
    Jobs \in Nat /\ Existing \subseteq Nat /\ IsFiniteSet(Test) /\ Test # {}
ASSUME PlanAssumption == Plans \subseteq [Test -> Plan]

UsesTaps(p) == p.payload = "DiskImage" /\ p.migrates

VARIABLES option, pool, held,  \* TAP_POOL and the TapPairs
          plan,     \* the plan of each test
          phase,    \* queued, claimed, run, unwind, returned, reported
          todo,     \* the operations left of the body
          locals,   \* the values to be dropped, as a stack
          files,    \* temporary directories and the files in them
          disk,     \* what mcopy has put on cidata.img
          vms,      \* the QEMUs of the live QemuProcess values
          ok,       \* no operation failed
          orphans   \* the QEMUs of failed spawns, which no QemuProcess owns

taps == <<option, pool, held>>
vars == <<option, pool, held, plan, phase, todo, locals, files, disk, vms, ok, orphans>>

Pool == INSTANCE TapPool WITH Worker <- Test

The(S) == CHOOSE x \in S : TRUE
When(b, s) == IF b THEN s ELSE << >>
Dirs == {"src_dir", "dst_dir", "mig_dir"}

(* The order of operations in each test function. *)
Body(p) ==
    <<"src_dir">>
    \o When(p.migrates, <<"dst_dir", "mig_dir">>)
    \o When(p.payload = "GuestBin", <<"payload">>)
    \o When(UsesTaps(p), <<"taps">>)
    \o When(p.payload = "DiskImage",
            <<"keygen", "stage", "mkdosfs", "mcopy", "mcopy", "mcopy">>)
    \o <<"spawn">>
    \o When(p.payload = "DiskImage" /\ ~p.migrates, <<"port">>)
    \o When(p.waits, <<"await">>)
    \o When(p.payload = "DiskImage", <<"ssh">>)
    \o When(p.reboots, <<"reboot", "await", "ssh">>)
    \o When(UsesTaps(p) /\ p.stress # {}, <<"ssh">>)
    \o When(p.migrates, <<"dest", "migrate">>)
    \o When(UsesTaps(p) /\ p.stress # {}, <<"ssh">>)
    \o When(p.migrates /\ p.payload # "DiskImage", <<"await">>)

-----------------------------------------------------------------------------
(* Network and cloud-init disk. *)

Mac(t) == <<t, "mac">>

UserNet(t) == [mac |-> Mac(t), ifname |-> {}, guest_ip |-> {}, gateway |-> {}]

(* Fault: the guest's address does not depend on the pair. *)
TapNet_OneAddress(t, ifname, i) ==
    [mac |-> Mac(t), ifname |-> {ifname}, guest_ip |-> {2}, gateway |-> {Pool!Gateway}]

TapNet(t, ifname, i) ==
    [mac |-> Mac(t), ifname |-> {ifname},
     guest_ip |-> {Pool!HostOctet(i)}, gateway |-> {Pool!Gateway}]

SrcNet(t) == IF UsesTaps(plan[t])
             THEN LET i == The(held[t]) IN TapNet(t, Pool!SrcTap(i), i)
             ELSE UserNet(t)

DstNet(t) == LET i == The(held[t]) IN TapNet(t, Pool!DstTap(i), i)

(* build_network_config: static on a tap, otherwise DHCP. *)
NetworkConfig(net) == [mac |-> net.mac, addresses |-> net.guest_ip, via |-> net.gateway]

File(t, name) == <<t, "src_dir", name>>

(* CloudInitDisk::create: the files in the order in which they are copied. *)
Content(t) ==
    << <<"meta-data", "cloud">>,
       <<"user-data", File(t, "id_cloud"), plan[t].stress>>,
       <<"network-config", NetworkConfig(SrcNet(t))>> >>

-----------------------------------------------------------------------------
(* QEMU's configuration and command line. *)

(* QemuConfig::new *)
Default(t, payload) ==
    [dir |-> <<t, "src_dir">>, payload |-> payload, initrd |-> {},
     ram |-> CASE payload = "GuestBin" -> 32 [] payload = "Kernel" -> 256
               [] payload = "DiskImage" -> 1536,
     incoming |-> FALSE, machine |-> "pc", smp |-> {}, cpu |-> {}, cloud_init |-> {},
     net |-> {}, ovmf |-> {}, io_thread |-> FALSE, rtc |-> {}, allow_reboot |-> FALSE]

(* The builder calls of the tests; only the full OS has a disk and a net. *)
SrcConfig(t) ==
    LET p == plan[t]
        os == p.payload = "DiskImage"
    IN [Default(t, p.payload) EXCEPT
          !.initrd = p.initrd, !.machine = p.machine, !.smp = p.smp, !.cpu = p.cpu,
          !.ovmf = p.ovmf, !.io_thread = p.io_thread, !.allow_reboot = p.reboots,
          !.cloud_init = IF os THEN {File(t, "cidata.img")} ELSE {},
          !.net = IF os THEN {SrcNet(t)} ELSE {},
          !.rtc = IF UsesTaps(p) THEN {"vm"} ELSE {}]

(* Fault: with_incoming keeps the directory of the source. *)
DstConfig_SameDir(t) ==
    [SrcConfig(t) EXCEPT !.incoming = TRUE,
                         !.net = IF UsesTaps(plan[t]) THEN {DstNet(t)} ELSE @]

(* Fault: the destination is configured from scratch. *)
DstConfig_FromNew(t) ==
    [Default(t, plan[t].payload) EXCEPT
        !.initrd = plan[t].initrd, !.machine = plan[t].machine, !.cpu = plan[t].cpu,
        !.smp = plan[t].smp, !.incoming = TRUE, !.dir = <<t, "dst_dir">>,
        !.net = IF UsesTaps(plan[t]) THEN {DstNet(t)} ELSE @]

(* with_incoming(dst_dir), and with_net(dst_net) if there are taps. *)
DstConfig(t) ==
    [SrcConfig(t) EXCEPT !.incoming = TRUE, !.dir = <<t, "dst_dir">>,
                         !.net = IF UsesTaps(plan[t]) THEN {DstNet(t)} ELSE @]

Drive(id, file, mode) == <<"-drive", id, file, mode>>
Device(model, refs, mac) == <<"-device", model, refs, mac>>

(* Fault: the OS image is opened without snapshot=on. *)
OsDisk_NoSnapshot(refs) ==
    <<Drive("os", <<"payload", "os-image.qcow2">>, "rw"), Device("virtio-blk", refs, {})>>

OsDisk(refs) ==
    <<Drive("os", <<"payload", "os-image.qcow2">>, "snapshot"), Device("virtio-blk", refs, {})>>

(* The raw disk, build_kernel_args and build_osdisk_arg. *)
PayloadArgs(c) ==
    CASE c.payload = "GuestBin" -> <<Drive("disk", File(c.dir[1], "guest.bin"), "rw")>>
      [] c.payload = "Kernel" -> << <<"-kernel", "vmlinuz-virt">>, <<"-append", "console">> >>
                                 \o When(c.initrd # {}, << <<"-initrd", c.initrd>> >>)
      [] c.payload = "DiskImage" -> OsDisk({"os"} \cup (IF c.io_thread THEN {"io0"} ELSE {}))

NetArgs(net) ==
    << <<"-netdev", "net0", net.ifname>>, Device("virtio-net", {"net0"}, {net.mac}) >>

Objects(c) == When(c.io_thread, << <<"-object", "io0">> >>)

(***************************************************************************)
(* From<&GuestConfig> for Vec<String>, without the options that are the    *)
(* same for every guest (-display, -accel).                                *)
(***************************************************************************)
Args(c) ==
    When(~c.allow_reboot, << <<"-no-reboot">> >>)
    \o When(c.cpu # {}, << <<"-cpu", c.cpu>> >>)
    \o << <<"-qmp", Append(c.dir, "qmp.sock")>>, <<"-serial", Append(c.dir, "serial.log")>>,
          <<"-M", c.machine>> >>
    \o Objects(c) \o PayloadArgs(c)
    \o << <<"-m", c.ram>> >>
    \o When(c.smp # {}, << <<"-smp", c.smp>> >>)
    \o When(c.incoming, << <<"-incoming", "defer">> >>)
    \o When(c.rtc # {}, << <<"-rtc", c.rtc>> >>)
    \o When(c.ovmf # {}, <<Drive("pflash", <<"payload", The(c.ovmf)>>, "readonly")>>)
    \o When(c.cloud_init # {}, <<Drive("cidata", The(c.cloud_init), "readonly"),
                                 Device("virtio-blk", {"cidata"}, {})>>)
    \o When(c.net # {}, NetArgs(The(c.net)))

(* What the options of a QEMU refer to on the host. *)
Having(q, opts) == {a \in ToSet(q.args) : a[1] \in opts}
Logs(q) == {a[2] : a \in Having(q, {"-qmp", "-serial"})}
Images(q, modes) == {a[3] : a \in {d \in Having(q, {"-drive"}) : d[4] \in modes}}
TapsOf(q) == UNION {a[3] : a \in Having(q, {"-netdev"})}
Nic(q) == UNION {a[4] : a \in Having(q, {"-device"})}
OnDisk(file) == Len(file) = 3  \* a file of a test, not one of payload/

Owned(t) == {q \in vms : q.test = t}

-----------------------------------------------------------------------------

TypeOK ==
    /\ Pool!TypeOK
    /\ plan \in Plans
    /\ phase \in [Test -> {"queued", "claimed", "run", "unwind", "returned", "reported"}]
    /\ \A t \in Test :
          /\ IsSuffix(todo[t], Body(plan[t]))
          /\ ToSet(locals[t]) \subseteq Dirs \cup {"taps", "ci", "src", "dst"}
          /\ "taps" \in ToSet(locals[t]) <=> held[t] # {}
          /\ phase[t] \in {"queued", "claimed", "returned", "reported"} => locals[t] = << >>
          /\ {q.role : q \in Owned(t)} = ToSet(locals[t]) \cap {"src", "dst"}
          /\ Cardinality(Owned(t)) <= 2
    /\ \A q \in vms : q.test \in Test /\ q.state \in {"running", "inmigrate", "postmigrate"}
    /\ \A o \in orphans : o.test \in Test /\ o.role \in {"src", "dst"}
    /\ ok \in [Test -> BOOLEAN]

Init ==
    /\ Pool!Init
    /\ plan \in Plans
    /\ phase = [t \in Test |-> "queued"] /\ todo = [t \in Test |-> Body(plan[t])]
    /\ locals = [t \in Test |-> << >>] /\ files = {}
    /\ disk = [t \in Test |-> << >>] /\ vms = {}
    /\ ok = [t \in Test |-> TRUE] /\ orphans = {}

At(t, op) == phase[t] = "run" /\ todo[t] # << >> /\ Head(todo[t]) = op
Goto(t, to) == phase' = [phase EXCEPT ![t] = to]
Did(t, op) == At(t, op) /\ todo' = [todo EXCEPT ![t] = Tail(@)]
Declare(t, x) == locals' = [locals EXCEPT ![t] = Append(@, x)]

(* A free thread of the pool takes the test; run_test calls its function. *)
Claim(t) ==
    /\ phase[t] = "queued" /\ Goto(t, "claimed")
    /\ UNCHANGED <<taps, plan, todo, locals, files, disk, vms, ok, orphans>>

Start(t) ==
    /\ phase[t] = "claimed" /\ Goto(t, "run")
    /\ UNCHANGED <<taps, plan, todo, locals, files, disk, vms, ok, orphans>>

(* tempfile::tempdir() *)
TempDir(t) == \E d \in Dirs :
    /\ Did(t, d) /\ Declare(t, d)
    /\ files' = files \cup {<<t, d>>}
    /\ UNCHANGED <<taps, plan, phase, disk, vms, ok, orphans>>

(* allocate_taps() *)
AllocateTaps(t) ==
    /\ Did(t, "taps") /\ Declare(t, "taps") /\ Pool!Allocate(t)
    /\ UNCHANGED <<plan, phase, files, disk, vms, ok, orphans>>

NoTaps(t) ==
    /\ At(t, "taps") /\ Pool!AllocateFails(t)
    /\ Goto(t, "unwind") /\ ok' = [ok EXCEPT ![t] = FALSE] /\ todo' = [todo EXCEPT ![t] = << >>]
    /\ UNCHANGED <<plan, locals, files, disk, vms, orphans>>

(* The guest binary is written next to the serial log. *)
WritePayload(t) ==
    /\ Did(t, "payload") /\ files' = files \cup {File(t, "guest.bin")}
    /\ UNCHANGED <<taps, plan, phase, locals, disk, vms, ok, orphans>>

(* CloudInitDisk::new: ssh-keygen. *)
KeyGen(t) ==
    /\ Did(t, "keygen") /\ Declare(t, "ci")
    /\ files' = files \cup {File(t, "id_cloud"), File(t, "id_cloud.pub")}
    /\ UNCHANGED <<taps, plan, phase, disk, vms, ok, orphans>>

(* create: the public key is read, the files are written to cidata/. *)
StageFiles(t) ==
    /\ File(t, "id_cloud.pub") \in files
    /\ Did(t, "stage") /\ files' = files \cup {File(t, "cidata")}
    /\ UNCHANGED <<taps, plan, phase, locals, disk, vms, ok, orphans>>

(* create: mkdosfs -C refuses to overwrite. *)
MakeImage(t) ==
    /\ File(t, "cidata.img") \notin files
    /\ Did(t, "mkdosfs") /\ files' = files \cup {File(t, "cidata.img")}
    /\ UNCHANGED <<taps, plan, phase, locals, disk, vms, ok, orphans>>

(* create: one round of the mcopy loop. *)
CopyFile(t) ==
    /\ File(t, "cidata.img") \in files
    /\ Did(t, "mcopy")
    /\ disk' = [disk EXCEPT ![t] = Append(@, Content(t)[Len(@) + 1])]
    /\ UNCHANGED <<taps, plan, phase, locals, files, vms, ok, orphans>>

(***************************************************************************)
(* QemuProcess::spawn returned Ok: QEMU has opened its images and made its *)
(* socket and log.  A guest that is not incoming boots from what it finds. *)
(***************************************************************************)
Started(t, role, state, c, guest) ==
    LET q == [test |-> t, role |-> role, state |-> state, args |-> Args(c), guest |-> guest]
    IN /\ {f \in Images(q, {"rw", "readonly"}) : OnDisk(f)} \subseteq files
       /\ vms' = vms \cup {q} /\ files' = files \cup Logs(q)
       /\ Declare(t, role)

SpawnSrc(t) ==
    /\ Did(t, "spawn") /\ Started(t, "src", "running", SrcConfig(t), disk[t])
    /\ UNCHANGED <<taps, plan, phase, disk, ok, orphans>>

SpawnDst(t) ==
    /\ Did(t, "dest") /\ Started(t, "dst", "inmigrate", DstConfig(t), << >>)
    /\ UNCHANGED <<taps, plan, phase, disk, ok, orphans>>

(* do_migration to its end; Migration has the steps. *)
Migrate(t) ==
    /\ Did(t, "migrate")
    /\ \E s, d \in Owned(t) :
          /\ s.role = "src" /\ d.role = "dst"
          /\ vms' = (vms \ {s, d}) \cup {[s EXCEPT !.state = "postmigrate"],
                                         [d EXCEPT !.state = "running", !.guest = s.guest]}
    /\ files' = files \cup {<<t, "mig_dir", "migration.sock">>}
    /\ UNCHANGED <<taps, plan, phase, locals, disk, ok, orphans>>

(* poll_line, ssh_port, ssh_command, ssh_fire_and_forget *)
Observe(t) ==
    /\ \E op \in {"await", "port", "ssh", "reboot"} : Did(t, op)
    /\ UNCHANGED <<taps, plan, phase, locals, files, disk, vms, ok, orphans>>

(* Fault: an error ends the test without dropping anything. *)
Fails_NoUnwind(t) ==
    /\ phase[t] = "run" /\ todo[t] # << >> /\ Head(todo[t]) \notin {"taps", "reboot"}
    /\ Goto(t, "returned") /\ ok' = [ok EXCEPT ![t] = FALSE] /\ todo' = [todo EXCEPT ![t] = << >>]
    /\ UNCHANGED <<taps, plan, locals, files, disk, vms, orphans>>

(* The child of a spawn that failed after the fork, with its command line. *)
Orphan(t, role, c) ==
    [test |-> t, role |-> role, state |-> "orphan", args |-> Args(c), guest |-> << >>]

(***************************************************************************)
(* The next operation fails, half done perhaps, in a directory that goes;  *)
(* a spawn may leave its child behind.  The reboot command has no result,  *)
(* and allocate_taps fails only for want of a pair.                        *)
(***************************************************************************)
Fails(t) ==
    /\ phase[t] = "run" /\ todo[t] # << >> /\ Head(todo[t]) \notin {"taps", "reboot"}
    /\ Goto(t, "unwind") /\ ok' = [ok EXCEPT ![t] = FALSE] /\ todo' = [todo EXCEPT ![t] = << >>]
    /\ \/ UNCHANGED orphans
       \/ Head(todo[t]) = "spawn" /\ orphans' = orphans \cup {Orphan(t, "src", SrcConfig(t))}
       \/ Head(todo[t]) = "dest" /\ orphans' = orphans \cup {Orphan(t, "dst", DstConfig(t))}
    /\ UNCHANGED <<taps, plan, locals, files, disk, vms>>

Succeeds(t) ==
    /\ phase[t] = "run" /\ todo[t] = << >> /\ Goto(t, "unwind")
    /\ UNCHANGED <<taps, plan, todo, locals, files, disk, vms, ok, orphans>>

(* Fault: locals are dropped in the order of declaration. *)
Drop_Forwards(t) ==
    /\ phase[t] = "unwind" /\ locals[t] # << >>
    /\ locals' = [locals EXCEPT ![t] = Tail(@)]
    /\ LET x == Head(locals[t])
       IN /\ IF x = "taps" THEN Pool!Release(t) ELSE UNCHANGED taps
          /\ files' = {f \in files : SubSeq(f, 1, 2) # <<t, x>>}
          /\ disk' = IF x = "src_dir" THEN [disk EXCEPT ![t] = << >>] ELSE disk
          /\ vms' = {q \in vms : <<q.test, q.role>> # <<t, x>>}
    /\ UNCHANGED <<plan, phase, todo, ok, orphans>>

(***************************************************************************)
(* The last local is dropped: a directory with all that is in it, a pair   *)
(* of taps, a QemuProcess (QEMU is gone when its Drop returns), or the     *)
(* CloudInitDisk, which has no Drop.                                       *)
(***************************************************************************)
Drop(t) ==
    /\ phase[t] = "unwind" /\ locals[t] # << >>
    /\ locals' = [locals EXCEPT ![t] = Front(@)]
    /\ LET x == Last(locals[t])
       IN /\ IF x = "taps" THEN Pool!Release(t) ELSE UNCHANGED taps
          /\ files' = {f \in files : SubSeq(f, 1, 2) # <<t, x>>}
          /\ disk' = IF x = "src_dir" THEN [disk EXCEPT ![t] = << >>] ELSE disk
          /\ vms' = {q \in vms : <<q.test, q.role>> # <<t, x>>}
    /\ UNCHANGED <<plan, phase, todo, ok, orphans>>

Return(t) ==
    /\ phase[t] = "unwind" /\ locals[t] = << >> /\ Goto(t, "returned")
    /\ UNCHANGED <<taps, plan, todo, locals, files, disk, vms, ok, orphans>>

(* run_test makes the TestResult. *)
Report(t) ==
    /\ phase[t] = "returned" /\ Goto(t, "reported")
    /\ UNCHANGED <<taps, plan, todo, locals, files, disk, vms, ok, orphans>>

Next == \E t \in Test :
    \/ Claim(t) \/ Start(t) \/ TempDir(t) \/ AllocateTaps(t) \/ NoTaps(t)
    \/ WritePayload(t) \/ KeyGen(t) \/ StageFiles(t) \/ MakeImage(t) \/ CopyFile(t)
    \/ SpawnSrc(t) \/ SpawnDst(t) \/ Migrate(t) \/ Observe(t)
    \/ Fails(t) \/ Succeeds(t) \/ Drop(t) \/ Return(t) \/ Report(t)

Spec == Init /\ [][Next]_vars

-----------------------------------------------------------------------------
(* Properties. *)

(***************************************************************************)
(* What a QEMU uses outlives it: while its QemuProcess lives, on the way   *)
(* out of a failed test too, its socket, log and images exist and its tap  *)
(* belongs to a pair that its test holds.  (Drop still copies the log.)    *)
(* Only the orphan of a failed spawn may outlive what it uses, and there   *)
(* is one only if its test failed.                                         *)
(***************************************************************************)
OutlivesQemu ==
    /\ \A q \in vms :
          /\ Logs(q) \cup {f \in Images(q, {"rw", "readonly"}) : OnDisk(f)} \subseteq files
          /\ TapsOf(q) \subseteq UNION {{Pool!SrcTap(i), Pool!DstTap(i)} : i \in held[q.test]}
    /\ \A o \in orphans : ~ok[o.test]

(* Every QEMU that runs, whoever owns it. *)
Alive == vms \cup orphans

(***************************************************************************)
(* QEMUs that live at the same time, those of one migration and those of   *)
(* parallel tests, never share a socket, a log or a tap.  Images of the    *)
(* repository are never written, files of one test not by another.  This   *)
(* is true of orphans as well, up to one thing: once its test has given    *)
(* the pair back, the tap of an orphan may be another QEMU's too.          *)
(***************************************************************************)
NothingShared ==
    /\ \A q, r \in Alive : q # r =>
          /\ Logs(q) \cap Logs(r) = {}
          /\ TapsOf(q) \cap TapsOf(r) # {} =>
                \E o \in {q, r} \cap orphans : held[o.test] = {}
    /\ \A q \in Alive : \A f \in Images(q, {"rw"}) : OnDisk(f) /\ f[1] = q.test

(* What differs between source and destination by intention. *)
Backends == {"-qmp", "-serial", "-incoming", "-netdev"}
GuestSide(args) == {n \in DOMAIN args : args[n][1] \notin Backends}

(* The other options, each with the number of those before it. *)
Visible(q) ==
    {<<Cardinality({m \in GuestSide(q.args) : m < n}), q.args[n]>> : n \in GuestSide(q.args)}

(***************************************************************************)
(* QEMU can load the state of the source only into the same machine: the   *)
(* two command lines of a migration agree, in content and order, on all    *)
(* that the guest sees, MAC and memory included.                           *)
(***************************************************************************)
SameMachine ==
    \A q, r \in vms : q.test = r.test => Visible(q) = Visible(r)

(* The running guests that answer at the address ssh is given. *)
Answering(t) ==
    {q \in vms :
        /\ q.state = "running" /\ Len(q.guest) = 3
        /\ q.guest[3][2].mac \in Nic(q)
        /\ IF UsesTaps(plan[t])
           THEN q.guest[3][2].addresses = {Pool!HostOctet(i) : i \in held[t]}
           ELSE q.test = t /\ q.guest[3][2].addresses = {}}

(***************************************************************************)
(* ssh reaches the test's own guest and nobody else's, before and after a  *)
(* migration, whatever runs in parallel on the bridge: the guest booted    *)
(* from a complete disk that names its NIC, its address and the test's key.*)
(***************************************************************************)
SshFindsOwnGuest ==
    \A t \in Test : At(t, "ssh") =>
        \E q \in Owned(t) : /\ Answering(t) = {q}
                            /\ q.guest = Content(t) /\ q.guest[2][2] \in files

(***************************************************************************)
(* A test that has returned, at whichever operation it failed, has left no *)
(* file, no tap and no QemuProcess.  The one thing that may stay is the    *)
(* QEMU of its last spawn, if that failed; after a success there is none.  *)
(***************************************************************************)
NothingStays ==
    \A t \in Test : phase[t] \in {"returned", "reported"} =>
        /\ held[t] = {} /\ Owned(t) = {} /\ \A f \in files : f[1] # t
        /\ \A o, p \in orphans : o.test = t /\ p.test = t => o = p
        /\ ok[t] => \A o \in orphans : o.test # t

(***************************************************************************)
(* The runner sees of a test only when it allocates, has QEMUs, and is     *)
(* done.  Tests with all their resources are tests as TestRunner has them. *)
(***************************************************************************)
Stage(t) ==
    CASE phase[t] \in {"queued", "reported"} -> "idle"
      [] phase[t] = "claimed" -> "claimed"
      [] phase[t] = "run" -> IF "taps" \in ToSet(todo[t]) THEN "alloc"
                             ELSE IF "spawn" \in ToSet(todo[t]) THEN "spawn" ELSE "body"
      [] phase[t] = "unwind" -> IF Owned(t) # {} THEN "dropVm"
                                ELSE IF UsesTaps(plan[t]) /\ held[t] = {} THEN "done"
                                ELSE "dropTaps"
      [] phase[t] = "returned" -> "done"

NeedsTaps == {t \in Test : UsesTaps(plan[t])}
Queue == {t \in Test : phase[t] = "queued"}
InHand(t) == IF phase[t] \in {"queued", "reported"} THEN {} ELSE {t}
UsesOf(t) == {n \div 2 : n \in UNION {TapsOf(q) : q \in Owned(t)}}
Outcome(t) == IF phase[t] # "reported" THEN "none" ELSE IF ok[t] THEN "Pass" ELSE "Fail"
Deserting == {o.test : o \in orphans}
RanOk == {t \in Test : ok[t] /\ phase[t] \in {"unwind", "returned", "reported"}}

Runner == INSTANCE TestRunner WITH
    Worker <- Test,
    needsTaps <- NeedsTaps,
    queue <- Queue,
    at <- [t \in Test |-> InHand(t)],
    stage <- [t \in Test |-> Stage(t)],
    uses <- [t \in Test |-> UsesOf(t)],
    orphans <- Deserting,
    outcome <- [t \in Test |-> Outcome(t)],
    ranOk <- RanOk,
    shutdown <- FALSE,
    exit <- "running"

RunnerSpec == Runner!Spec
=============================================================================
