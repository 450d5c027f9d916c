# Verification of the Talos NVIDIA P2P driver build and services

The repository is a fork of the Talos system extensions. Its own code builds a
Talos installer whose kernel, root file system modules and NVIDIA P2P modules
carry one signing key, checks and publishes it, and runs a few small services
on the nodes. This directory holds TLA+ models of that code, TLC configurations
that check them, and proofs checked by TLAPS.

`PROJECT.json` lists, in machine-readable form, the components, the runs, the
lines of source every definition stands for, the deliberate errors ("mutants")
that show that each property can fail, the disagreements found between code and
documentation, the hazards of the code and the theorems.

## 1. The system

### Parts, state and interactions

| Part | Source (under `src/`) | State | Operations |
|---|---|---|---|
| Publish workflow | `.github/workflows/publish-p2p-installer.yaml`, recipes `kernel/build/pkg.yaml`, `kernel/kernel/pkg.yaml`, `nvidia-gpu/nvidia-modules-p2p/**`, `hack/p2p/verify-same-signing-key.sh` | environment of the job (key, digests), docker store of the runner, mutable tags in the registry, concurrency group per git ref | derive names, generate a key, compile kernel and modules, push, compare keys, wrap as system extension, resolve digests, build, push and verify the installer, summary |
| Installer assembly | `hack/p2p/build-installer.sh` | temporary directory, docker images, tags and containers, registry tag | compose the extension list, run the imager, load, copy kernel and initramfs, verify the overlay order, rebuild the UKI, build, push with retries, read back and verify, clean up on exit |
| Same-key installer base | `hack/p2p/build-samekey-installer-base.py` | work directory (fresh, or kept with `WORK_DIR`), docker image, registry tag | pull with retries, unpack stock and compiled kernel, swap the module tree, rebuild the UKI, compare keys, build, push |
| Validators | `hack/p2p/check-matrix.sh`, `check-patch-apply.sh`, `check-userspace-track.sh`, `docs/release-matrix.yaml` | none | accept or refuse a release matrix |
| Signing key generator | `hack/p2p/generate-module-signing-key.sh` | none | print a new key or fail |
| Pull-request workflow | `.github/workflows/ci.yaml` | runner only | the first steps of the publish workflow, without pushes |
| Fabric manager wrapper | `nvidia-gpu/nvidia-fabricmanager/nvidia-fabricmanager-wrapper/main.go`, service file | context, wait group, signal channel, two children, socket file on the host | find the management port, start NVLSM, wait for its socket, start the Fabric Manager, shut both down |
| NVSwitch port scan | `.../nvidia-fabricmanager-wrapper/nvswitch.go` | none | choose the management port |
| ZeroTier wrapper | `network/zerotier/zerotier-wrapper/main.go`, service file | files in `/var/lib/zerotier-one` | ensure an identity, write the planet, join networks, become `zerotier-one` |
| Persistence daemon wrapper | `nvidia-gpu/nvidia-container-toolkit/nvidia-persistenced-wrapper/main.go` | pid file on the host, one child | kill what the pid file names, start the daemon, forward one signal |
| gdrdrv device node | `nvidia-gpu/nvidia-gdrdrv-device/main.go` | `/dev/gdrdrv` | wait for the driver, replace the node |
| Small services and tools | `storage/zfs/zfs-service`, `network/netbird`, `firmware/revpi-firmware`, `examples/hello-world-service`, `kernel/build/scripts/filter-hardened-check.py`, `hack/release.sh` | none to speak of | short sequential programs |
| `sys/queue.h` | `patches/sys-queue.h` of `network/lldpd`, `storage/libs/libtirpc` and `storage/nfsrahead`: one header, byte for byte | heads and entry fields in the memory of the program that includes it | insertion, removal, replacement, joining, moving and loops of six families of lists |
| Service files | `**/*.yaml` with `depends`, `restart` | none | order and restart policy, read by Talos |
| Package recipes and patches | the other `pkg.yaml`, `vars.yaml`, kernel configurations, patches | none | data for the build tool |

The workflow calls the validators, the key generator, the base builder and the
installer builder, in this order. They communicate through environment
variables, through the runner's docker store, and through **mutable tags** in a
registry that every execution for every git ref writes: what one step pushed, a
later one reads back by name. The services share no file with one another; each
communicates with its own next start through files on the host, and Talos starts
each again by its own policy. `sys/queue.h` is compiled into the daemons of three
packages, because musl has no such header.

### What is hard, and what makes each part correct

* **Workflow.** Executions interleave on shared tags; a step may fail or be
  cancelled after it has pushed; a push may take effect and still be reported
  as failed; a lookup may stay unanswered without the step failing. Correct means: an installer that is released has one signing key
  throughout, was made by the execution that releases it, and appears under its
  tag after everything it consists of; no execution waits for ever.
* **Installer assembly.** Concurrent builds share docker tags; `docker load`
  moves tags; extras may repeat, outdate or disguise extensions; the check of the
  content comes after the push. Correct means: what is published under a reference
  was made by a build for that reference, around one kernel, the toolkit's `ld.so.cache` shadows glibc's, there is one driver,
  nothing is left behind and retries end.
* **Installer base.** A kept work directory carries files from one execution to
  the next. Correct means: the embedded kernel trusts every module beside it.
* **Fabric manager wrapper.** Goroutines, signals, cancellation, timers and the
  ends of two processes in any order. Correct means: no child outlives the
  wrapper, one end brings everything down, start-up does not hang.
* **ZeroTier wrapper.** It may stop between and inside its writes and is started
  again with another configuration. Correct means: a node never loses its
  identity, and `zerotier-one` starts only when everything is prepared.
* **Persistence wrapper.** The daemon leaves its parent and outlives the wrapper;
  its pid file may be missing, empty or name another process by the next start.
  Correct means: no daemon is started beside one that was not killed, and a stopped
  wrapper comes back to a daemon.
* **gdrdrv node.** The driver may be loaded again, with another number, between any
  two calls, and the node of an earlier start is still there. Correct means: a
  successful end leaves a usable node of the driver that was found.
* **`sys/queue.h`.** Every macro is a handful of assignments whose order matters,
  with a case of its own for the end of a list; the body of a loop changes the list
  it walks; three families reach the last element through a pointer into its
  entry, one by reading an entry field as a head. Correct means: the pointers spell the list, in both directions, after any
  sequence of calls; the library's own checks do not fire; loops visit what is
  there.

`PROJECT.json` has the hazards one by one, each at its line, with the
properties that cover it.

## 2. Modules

| Module | Models | Runs | Proofs |
|---|---|---|---|
| `ReleasePipeline` | the publish workflow, one action per step | `pipeline*` | `ReleasePipelineProofs` |
| `ReleaseLedger` | what the workflow promises: one whole release per execution | `pipeline` (`LedgerSpec`) | `ImplementsLedger` |
| `InstallerAssembly` | `build-installer.sh`, one action per docker command or check | `assembly*` | `InstallerAssemblyProofs` |
| `SamekeyBase` | `build-samekey-installer-base.py`, execution after execution | `samekey*` | `SamekeyBaseProofs` |
| `FabricManagerWrapper` | the wrapper's `main`, goroutines, children, signals, restarts | `fabricmanager*` | `FabricManagerWrapperProofs` |
| `ZerotierIdentity` | the wrapper's file writes over successive starts | `services` | `NodeServicesProofs` |
| `GdrdrvDevice` | the gdrdrv node program against loads and unloads of the driver | `services` | `NodeServicesProofs` |
| `PersistencedWrapper` | pid file, daemon and wrapper over successive starts | `services` | `NodeServicesProofs` |
| `NodeServices` | the three services above as one system | `services` | `NodeServicesProofs` |
| `QueueMemory` | the memory that the macros of `sys/queue.h` work on, and the program that calls them | `queues`, `list_move` | `QueueListProofs` |
| `SinglyLinkedList`, `LinkedList`, `SimpleQueue`, `STailQueue`, `TailQueue`, `CircularQueue` | one family of macros each (SLIST, LIST, SIMPLEQ, STAILQ, TAILQ, CIRCLEQ) | `queues`, `list_move` | `QueueMacroProofs` |
| `SysQueue` | a program that uses one of the families | `queues`, `list_move` | `SysQueueProofs` |

Every run has an `MC_` module that names the model values, and configurations that
choose the instance. A definition whose comment starts with "Mutant:" is not
part of the model: it is the form the following definition would have with a
plausible error in the code, and is used only to show that a property notices.

### ReleasePipeline

`pc[r]` is the step execution `r` is about to take; `key`, `local` and `digest`
are its job environment and its runner's docker store; `registry` is the tags
they share. An image is the signing keys of its three parts (kernel, modules of
the root file system, NVIDIA modules); a digest is the image it names. A key is
named by the execution and by the compilation that made it: with
`MODULE_SIG_KEY_PEM_B64` empty, `CompileKey` returns a key of the compilation
itself, as kbuild does. `Trigger`, `Start` and `GroupBusy` are the concurrency
group: one runs, one waits, a newer one takes the waiting one's place. `FailStep`
ends an execution at any step, with its environment and its runner, and takes
nothing back from the registry. `Push` may take effect and fail, or be sent again.
The refinement `Ledger` hides everything but the releases.

The four prerequisite digests are asked for by a function called inside `$(...)`,
where bash does not stop at a failing command: a lookup that is not answered leaves
the digest empty (`NoImage`) and the step goes on. `Silent` bounds which lookups of
an execution may go unanswered. An empty kernel, base or package digest stops
nobody; an empty system extension digest makes the imager's input unusable, so
`BuildInstaller` fails; the installer's own digest is assigned directly and tested.

### InstallerAssembly

Executions of the script on one docker daemon: `loaded`, `kernel`, `attempt` and
`digest` are the script's variables, `baseTag`, `relabelTag` and `installerTag`
are docker's, `registry` is remote. Builds of one Talos version (`TalosOf`) share the
tag of the relabelled image, builds of one installer reference (`TagOf`) the tags of
the final one, and builds on one base (`BaseOf`) its reference. When an execution
ends, `Cleanup` also forgets its temporary directory and variables. An image is the lineage of the four parts
under `/usr/install` and its extension list; lists are functions from places to
references, with place 0 for the P2P extension and the last place for the toolkit.
The imager is external: it returns the requested extensions in a UKI of its own
kernel, tagged or not (`LoadTagged`, `LoadUntagged`, the answers the script
provides for), and replaces the plain vmlinuz of the bases in `Replaced`.

### SamekeyBase

Executions one after another over `workDir` (`layer`, `rootfs`, `uki`) and the two
tags. A module tree is the set of kernels its files come from, so a mixture is
visible; `ahci` is the module whose key the script compares. `ExtractionInterrupted`
and `UnsquashInterrupted` stop in the middle of an unpacking. That `unsquashfs`
refuses an existing directory is how that program works without `-f`.

### FabricManagerWrapper

`main` is where `main()` is; `child[c]` is the goroutine and process of a command,
with separate steps for the look at the context in `cmd.Run` (`CheckContext`), the
creation of the process after it (`StartProcess`), SIGINT, the kill after
`WaitDelay`, the process's own end, `wg.Done` and `doneCb`. A second signal kills the
wrapper with its children running (`main = "killed"`), and `Restart` is a new
container, in which they are gone. `socket` tells a file of this NVLSM from
one of an earlier wrapper.

### ZerotierIdentity

One step per system call that changes a file. `os.WriteFile` truncates and then
writes, so a write ends with the file filled, or with the file `Damaged` and the
execution over. `Restart` chooses a new configuration.

### GdrdrvDevice

`pc` is the next system call of `main`; `major` is what it has read of
`/proc/devices`, `driver` what is there now. `Mknod` leaves the node with the mode
the umask allows and `Chmod` opens it, so a stop between the two is visible in
`open`. `loads` and `seen` tell whether the driver has changed since it was read:
nobody looks a second time, and `restart: untilSuccess` ends with the first success.

### PersistencedWrapper

`proc[p]` is what the process number `p` stands for, so that the pid file can name
nobody, the daemon, or another process that has been given the number. The daemon
is external: it may go into the background, creates its pid file and fills it
later, and ends at any time, with or without removing the file. `KillProcess` only
sends SIGKILL; the kernel ends the process some time later (`KilledEnds`), and the
number is not free before. `gap` records that
a daemon was without a filled pid file when it ended or when the wrapper was
started again; what the wrapper can promise, it promises outside of that gap.

### NodeServices

The three services share neither files nor processes, so interleaving them shows
nothing that one after the other does not. The module is therefore their *sum*:
`service` is the one that is followed, and every property of a part is stated of the
whole.

### QueueMemory, the six families and SysQueue

Wherever the header takes the address of a pointer, it is the address of a forward
pointer: of a head's `*_first` or of an element's `*_next`. Such an address is
represented by the head or the element it belongs to, so memory is two functions,
`next` and `prev`, over `Owners`. This makes the header's type punning expressible:
`TAILQ_LAST` reads the entry with the last forward pointer as a head, and
`SIMPLEQ_LAST` subtracts `offsetof` from an address, which is to take the owner of it.
`CIRCLEQ` ends its lists with the head itself.

Each macro is an operator from memory to memory under the macro's name, with one
`LET` definition per assignment and the assignments in the macro's order. The
actions add what the program knows: `list[h]`, the elements it has put into a list,
in order. The program calls any macro with arguments that the macro's description
allows: it inserts only elements that are in no list, and inside a loop it does not
remove the element the loop will read next. `debug` is the build with `QUEUEDEBUG`:
removal then overwrites the entry (`POSTREMOVE`), and the conditions under which the
header aborts are the operators `QUEUEDEBUG_*`. A loop is state (`loop`), so its body can
call every other macro between two iterations.

`LIST_MOVE` does not set the back pointer of the element it moves (see below). With
`TrustMoved = FALSE` the program calls nothing that relies on this pointer until an
insertion at the head has set it or the list is initialized again; with `TRUE` it uses
the list as any other.

The three copies of the header are one text. The map names the lines of one of them,
the copy of `storage/nfsrahead`, and what is said holds of the other two as well.

## 3. Runs

Runs that pass:

| Run | Question | Instance | Why it is enough |
|---|---|---|---|
| `pipeline` | does every interleaving keep the lineage, the own results, the order of publication and the ledger, and does every execution end? | 3 executions, 2 refs, 2 tags; all four prerequisite lookups of one execution may go unanswered, and one of each other; 434 thousand states | two executions of one ref exercise the group (one runs, one waits or is replaced) and a tag written twice; one of another ref runs beside them; more executions repeat these relations, and the theorems below hold for any number |
| `assembly` | what do concurrent builds on one docker daemon get from one another, and are they clean and finite? | 4 builds with the kinds of list: repeated and outdated extras, disguised driver, refused at the overlay, refused at once; 3 of one Talos version, 2 on each of 2 bases, the imager replaces the kernel of one base, one kernel handed in, one push deferred; 280 thousand states | every branch of the list composition; two builds share the relabel tag over different bases, and two a base over different Talos versions; 2 push attempts show a retry and a final failure |
| `samekey` | does a fresh directory keep the key, and what holds in a kept one? | 3 executions, 3 kernels, 2 releases, both kinds of directory; 19 thousand states | two kernels of one release and one of another; an execution before, one that fails, one after |
| `fabricmanager` | shutdown, start-up and restarts in every order | no parameters, whole state space (1777 states) | complete |
| `services` | identity, planet and networks over restarts; the gdrdrv node against reloads; one daemon and a way back to it | 1 generated and 2 configured identities, 2 networks; 2 device numbers, 3 loads; 3 process numbers; 2 stops or failing calls; 151 thousand states | a stop in each of the two writes of one identity; a load before, during and after a start; with three numbers the wrapper's child, a daemon in the background and another process live at once; the number of starts is unbounded |
| `queues` | do the assignments of every family keep the lists, also inside loops? | 2 heads, 4 elements, with and without `QUEUEDEBUG`; 222 thousand states up to symmetry | every macro distinguishes at most: empty, one element, first, inner and last; a list with an inner element fits beside a second list and a free element, and joining meets every pair of sizes up to four |

Every bound is a constant with its name: `MaxAttempts` (the code's own limit, made
smaller), `MaxRuns`, `MaxStops`, `MaxLoads`, `Silent`. Deadlock is checked for the Fabric
Manager wrapper and for the queues; the scripts and the workflow really end, and so
does the gdrdrv program, so their configurations switch it off.

Runs that find a disagreement between the code and what the repository says of it
(the quotations are in `PROJECT.json`):

| Run | What happens |
|---|---|
| `pipeline_shared_tag` | two refs of one commit (or one `image_tag`) are in different concurrency groups but write one tag: an installer is built from the other execution's base, although the digest of the own one is known |
| `pipeline_explicit_key` | the key generator's failure is swallowed by `echo "...$(...)"`; the execution publishes with a generated key |
| `assembly_mirror` | the official driver under another reference is published before the check by name fails |
| `samekey_stale` | a module tree left in `WORK_DIR` is published beside another kernel |
| `list_move` | after `LIST_MOVE` the first element's back pointer still names the old head: the next call that follows it changes the wrong list, or aborts with `QUEUEDEBUG` |
| `fabricmanager_socket` | a socket file of the previous container passes for the new one |

Not a run, but worth knowing: `docs/talos-nvidia-p2p-findings.md` asks for kernel
and modules from a *single compilation*. The workflow compares keys only; two
compilations with one explicit key satisfy it, and the models do the same.

More differences were met while modelling and have no run of their own:

* `hack/p2p/build-installer.sh:519` refuses an installer without glibc, which the
  script never adds by itself, although line 8 calls the extras optional and
  `README.md:130` gives the command without any. `OverlayVerified` has the check.
* `hack/p2p/build-installer.sh:320` reads the base's kernel through the tag of the
  base. When the imager's archive carries that reference, `docker load` has moved
  the tag to the imager's output, and the kernel of the output is compared with
  itself: if the imager replaces vmlinuz and no kernel is handed in, the installer
  gets the imager's kernel, and line 327 says "installer kernel matches base
  installer kernel". `KernelsFor` names the kernels a build may end up with.
* `hack/p2p/build-installer.sh:697`: builds of one Talos version on one daemon share
  the tag their final image is built from, so the plain `initramfs.xz` under the
  rebuilt UKI may be that of another build; and a build that resolves its image
  through the base's reference (line 305) may get the extensions of another build on
  that base. `PublishedProvenance` says that nothing else can be mixed.
* `.github/workflows/publish-p2p-installer.yaml:284` tests for an empty digest, but
  in a function called inside `$(...)`, where the test stops nothing: a release may
  succeed with an empty kernel, base or package digest. `Resolve` models it, and
  `DigestsAreOwn` and `TagsMatchDigests` say what holds all the same.
* `.github/workflows/publish-p2p-installer.yaml:391`: the here-document of the summary
  is not quoted, so bash runs what stands between backticks as commands and the summary
  lists no image. No state depends on the text; `PublishSummary` is the end of the job.
* `network/zerotier/zerotier-wrapper/main.go:45` never removes a planet file, so a
  node that had one keeps it after `ZEROTIER_PLANET` is gone, while
  `network/zerotier/README.md:91` promises the public one. `Planet` models it.
* `nvidia-persistenced-wrapper/main.go:29`: an empty pid file, left by a daemon that
  ended between creating and filling it, stops every later start at `getProcessId`;
  and a start in the moment in which the last daemon has no pid file yet leads to a
  second daemon. `gap` names these cases, and `OneDaemon` and `ComesBack` exclude
  exactly them.
* `nvidia-persistenced-wrapper/main.go:88` sends SIGKILL to a daemon that is not the
  wrapper's child and does not wait for its end, so the old one may still be ending
  when the state directory is removed and the next one started. `OneDaemon` speaks of
  the daemons that were not sent SIGKILL.
* `nvidia-persistenced-wrapper/main.go:59`: only a signal ends the wrapper's wait, so
  the end of the daemon goes unnoticed and `restart: always` does not apply.
* `nvidia-gdrdrv-device/main.go:98`: when the driver is loaded again after the scan,
  the program succeeds with a node of the old number, and `untilSuccess` never starts
  it again. `NodeLeadsToDriver` therefore speaks of the driver that was found.

### Fairness

* Workflow: a step that can run is eventually taken or fails (the runner executes
  it; `timeout-minutes` ends it), and a free group takes a waiting execution.
* Scripts: every command returns, with success or failure. Nothing is assumed of
  which of the two.
* Fabric manager wrapper: goroutines are scheduled, timers fire, and os/exec
  interrupts and kills as documented. Nothing is assumed of the children, which
  may ignore SIGINT, of signals, or of Talos restarting the service.
* ZeroTier wrapper: the wrapper takes its steps and Talos starts it again
  (`restart: always`). Stops are bounded by `MaxStops`, so "eventually" means after
  the last one.
* gdrdrv: the program takes its steps and Talos starts it again after a failure
  (`restart: untilSuccess`). Nothing is assumed of the driver: `NodeComes` has "the driver
  is there for good" as its hypothesis.
* Persistence wrapper: its steps and Talos's restart (`restart: always`), and that the
  kernel ends a process that was sent SIGKILL. Nothing is assumed of the daemon, of
  other processes and of signals.
* The queues are a library: no step of the calling program is assumed.

## 4. Proofs

All theorems hold for every value of the constants that satisfies the named
assumptions in the modules, and under the hypotheses that appear in their
statements.

**ReleasePipelineProofs.** `TypeCorrect` is unconditional. The others assume
`TagsFollowRefs`: executions with one tag are in one concurrency group. The
`pipeline_shared_tag` run shows that the hypothesis cannot be dropped. The properties
are not inductive: why an installer has one key depends on what every earlier
step has left locally, in the registry and among the digests. `IInv` therefore
says for every step what of this execution's own is known to be in each of the
three places (`LocalProgress`, `RemoteProgress`, `DigestProgress`), with
`GroupExclusive`: at most one execution per group is active, hence nobody else
writes the tag meanwhile. `Progress` proves it invariant, and `Lineage`,
`OwnDigests`, `TagsNameDigests`, `InstallersComeLast` and `ImplementsLedger`
follow from it. `Silent` is arbitrary, so every lookup may go unanswered: a digest is
then the own image or empty, and the registry is what says that nothing is missing. The last one shows that the initial states map to the ledger's and
that each step maps to a release or a stutter.

**InstallerAssemblyProofs.** `TypeCorrect`, `ContainersRemoved` (the containers of a
build are those of the command it is at: `ContainersMatchSteps`) and `CacheIsToolkits`
hold without hypotheses, even if all builds share all tags: every image on its way
to the registry has the list of *some* build, and every list ends with the
toolkit (`CacheInv`). `Provenance` has no hypothesis either: builds may share Talos
versions, bases and references, and the imager may replace any kernel. `ProvenanceInv`
says of every tag on the way what it can name: the reference of a base, the base or
an imager's output on it; the relabel tag, an image of a build of that Talos version; and
of a build's kernel, that it is one of `KernelsFor`. `PublishedProvenance` is its last
conjunct.
`VerifiedImageIsClean` assumes `OneBuildPerTag` only, which the run's references
satisfy: two builds that push one reference may each overwrite what the other
verifies. `ReadBackInv` says from which step on the build's digest is what the
reference names; the imager, the extras and the shared docker tags stay arbitrary.

**SamekeyBaseProofs.** `IInv` has two parts. `KernelInv` holds in either kind of
directory: what a step reads is there and comes from the requested kernel; it gives
`TypeCorrect` and `RequestedKernel`. `OwnFiles` holds in a new directory only: it says
which parts of it are of this kernel only after which step, and gives
`FreshDirectoryKeepsKey`. The `samekey_stale` run shows that this one fails in a kept
directory.

**FabricManagerWrapperProofs.** `TypeCorrect` and `NoProcessLeft`: the wait-group
counter equals the number of goroutines that have not called `wg.Done`, so it stays
between 0 and 2, and zero means no process. `LateStartRefused`: when NVLSM's goroutine is
done the context is cancelled (`EndCancels`), and a cancelled context makes `cmd.Start`
refuse. A Fabric Manager whose `cmd.Start` has looked at the context before is still
started; that it is then interrupted and ends is `OneEndsAll`, which TLC checks.

**NodeServicesProofs.** One inductive invariant per service, then the sum.
`IdentityInv` (ZeroTier) is the type invariant, `NoOrphanPublic` and `FilesAtStep`: which
files are known to be good at which step of the *current* start, whatever earlier
starts left. The secret is written only where there is none (`IdentityStays`), and the
networks not yet joined are the ones in `todo`. `NodeInv` (gdrdrv) says for every step
before the end what the number that was read is worth (it is the driver's, while
`loads = seen`) and that from `mknod` on the node has it. `DaemonInv` (persistenced) says
how the wrapper knows of the one daemon at every step (`Known`): by the pid file, by the
number it has read, or as its child; or there was a gap. A daemon that was sent SIGKILL
does not count any more, however long it takes to end. `IInv` of the sum says that the
followed service keeps its invariant and the others' part of the node is untouched.
The theorems are about `NodeServices!Spec`, from the assumption that the constants
satisfy those of all three modules, and name the properties of the `services` run.

**QueueListProofs, QueueMacroProofs, SysQueueProofs.** Everything the `queues` run checks
of `sys/queue.h`, for any heads, any finite set of elements, and thus lists of any
length. Neither `Linked` nor the loop properties are inductive. The invariant, `Shape`
and `LoopInv` of `SysQueue`, is one for the six families, in terms of the *places* of a
list (place 0 is the head, and after the last element comes `End`):

* `ListsOK`: no element is in two places. Without it an assignment to the slot of one
  place could change another one.
* `Forward`, `Backward`, `Lasts`: what the slots of each place hold. A family has `Backward`
  if it is `Doubly` linked and `Lasts` if its heads have a last slot (`Tailed`). For a list
  in `moved`, `Backward` leaves the first back pointer open.
* `LoopInv`: a loop whose `Cursor` (`tvar` of a `_SAFE` loop, else `var`) is an element
  stands at a place of its list, and what it has still to visit is at the places to
  come. When the cursor is the end, nothing is left to visit.

The argument has four layers.

1. `QueueListProofs`: what an insertion, removal, replacement, emptying and joining do to
   the places of every list (`Inserted`, `Removed`, `Replaced`, `Emptied`, `Joined`), and which
   slots have to change for `Forward`, `Backward` and `Lasts` to follow.
2. `QueueMacroProofs`: each of these operations also keeps the loop that it is called in
   (`InsertKeeps` and so on: a place moves with what is inserted before it, and no place
   overtakes another), and so does each `for` statement, in both directions. Then
   one lemma per macro: its assignments, one after the other, change the slots in just
   that way, with and without `QUEUEDEBUG`, from what the macro can know of the slots
   it reads (`Between`, `Around`, `Facing`).
3. `SysQueueProofs`: every action of every family is one of the operations (`SinglySteps`,
   `ListSteps`, `SimpleSteps`, `STailSteps`, `TailSteps`, `CircSteps`), hence `QueueInvariant`.
4. `QueueTypes`, `QueuesLinked`, `AccessorsAgree`, `ChecksNeverAbort`, `LoopsMissNothing` and
   `LoopsStayInLists` read the properties off the invariant.

The theorems have the hypothesis `Careful`: a program that uses LIST does not rely on the
back pointer that `LIST_MOVE` leaves behind (`TrustMoved` is `FALSE`, as in the run). The
`list_move` run shows that it cannot be dropped. The other five families need no
hypothesis beyond the modules' assumption on the constants.

The search of `SLIST_REMOVE`, `SIMPLEQ_REMOVE` and `STAILQ_REMOVE` is a `while` loop over a list of any
length, modelled by a recursive function. Induction over its rounds is out of reach of
the provers; `Least` takes its place: a set of numbers has a least one (a fact of the
library about well-founded relations), so there would be a first round in which
the search is not where it should be (`BeforeIs`). That a list has no more places than
there are elements (`ListIsShort`) bounds the rounds.

Before it was proved, TLC checked `Shape` and `LoopInv` as invariants on the instance of
the `queues` run.

Only model-checked: all liveness (`EveryRunEnds`, `EveryBuildEnds`, `OneEndsAll`,
`SignalEndsWrapper`, `StartupCompletes`, `EveryStartRuns`, `NodeComes`, `ComesBack`), since
liveness under fairness is out of the prover's reach. Every other property of a passing run
is stated by a theorem.

## 5. What is not modelled

* The byte layout of cpio, squashfs, tar and PE files: the scripts take them apart
  and put them together, the models keep which part comes from where.
* SIGKILL of a script, and a signal between `docker create` and the assignment of
  its output: both leave containers whatever the trap does.
* Garbage collection and authentication of the registry, runner setup, log-in.
* `docker`, the Talos imager, kbuild's key generation, `unsquashfs`, NVLSM, the
  Fabric Manager, `zerotier-one` and Talos's service manager: modelled from how the
  code uses them, and marked external where a definition stands for one.
* The validators, the NVSwitch port scan, the hardening filter, the MAC address of
  `revpi-firmware`, the key generator and `hack/release.sh`: sequential selections,
  comparisons and arithmetic on text, without a state that outlives them. The port
  scan's result is an input of `FabricManagerWrapper`, the key generator's failure one
  of `ReleasePipeline`. The validators are in the plan.
* Of `sys/queue.h`: the declarations, what a compiler may make of the aliasing that
  `__launder_type` works around, and calls that the header forbids, such as inserting an
  element twice.
* The remaining recipes, version pins, kernel configurations and patches: data.

## 6. Plan

Done: items 1 to 10.

1. `ReleasePipeline`, `ReleaseLedger` and proofs.
2. `FabricManagerWrapper` and proofs.
3. `InstallerAssembly` and proofs.
4. `SamekeyBase` and proofs.
5. `ZerotierIdentity` and proofs.
6. `PersistencedWrapper` and proofs.
7. `GdrdrvDevice` and proofs; `NodeServices`.
8. `QueueMemory`, the six families of `sys/queue.h` and `SysQueue`.
9. Proofs about the queues, all six families, for any heads and elements: the lists, the
   accessors, the checks of a `QUEUEDEBUG` build and the loops.
10. `StartRefusedAfterSubnetManager` and `VerifiedIsClean` as theorems.
11. `ReleaseMatrix`: the acceptance predicates of the three validators and of
    `build-installer.sh` over bounded matrices: is what one accepts accepted by the
    other?
12. Compositions: `SamekeyBase` and `InstallerAssembly` as implementations of the
    steps `BuildBase` and `BuildInstaller` of `ReleasePipeline`.
