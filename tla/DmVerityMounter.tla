--------------------------- MODULE DmVerityMounter ---------------------------
(***************************************************************************)
(* Mounting a package image with dm-verity: doMount() of                   *)
(* lib/dm-verity/DmVerityMounterLinux.cpp, the device mapper calls of      *)
(* DevMapper.cpp, the udev semaphore of UDevNotifySemaphore.cpp and the    *)
(* object a client keeps, DmVerityMount.cpp.                               *)
(*                                                                         *)
(* Processes of the library run side by side on one kernel, whose loop     *)
(* devices, mapped devices and mounts they share; every system call is a   *)
(* step of its own, every call may fail, a process may crash between two   *)
(* steps, and udev and the administrator act when they like.               *)
(***************************************************************************)
EXTENDS Naturals, Sequences, FiniteSets, Functions

CONSTANTS
    Processes,  \* processes that use the library, one mount() call each
    Loops,      \* loop devices
    Names,      \* names createDeviceNameAndUuid() can generate for the package
    Numbers,    \* device numbers (dev_t) of mapped devices
    PointOf,    \* [Processes -> mount points]
    Flags,      \* the sets of mount flags a caller may use
    MaxRetries, \* maxRetries of findDeviceNode()
    MayBeBusy   \* whether programs open files on the mounts

ASSUME MounterAssumption ==
    /\ IsFiniteSet(Processes)
    /\ "none" \notin Processes \union Loops \union Names \union Numbers
    /\ MaxRetries \in Nat \ {0}
    /\ MayBeBusy \in BOOLEAN
    /\ DOMAIN PointOf = Processes
    /\ Flags \subseteq SUBSET {"UDevSync", "NoAutoClear"}

VARIABLES
    loops,    \* [Loops -> attached image (by whom), autoclear flag, openers]
    devices,  \* the mapped devices: a function from the names in use
    nodes,    \* numbers that have a device node under /dev
    events,   \* activation events that udev has not finished with
    mounts,   \* [mount points -> stack of mounts, the last one on top]
    users,    \* numbers of mounted devices on which programs have files open
    semaphores, \* [Processes -> value of its udev semaphore]
    call,     \* [Processes -> the mount() call]
    object    \* [Processes -> the DmVerityMount object]

vars == <<loops, devices, nodes, events, mounts, users, semaphores, call, object>>

Points == Range(PointOf)

None == "none"

(* The mount() call of a process, by the step it takes next. "failed",      *)
(* "held" (the client has the object), "gone" (it has destroyed it) and     *)
(* "crashed" are final.                                                     *)
Steps == {"idle", "getFreeLoop", "setFd", "setStatus", "create", "loadTable",
          "activate", "wait", "findNode", "closeLoop", "mount", "status",
          "forceUnmount", "unmap", "deferredRemove",
          "failed", "held", "gone", "crashed"}

Final == {"idle", "failed", "held", "gone", "crashed"}

InCall(p) == call[p].pc \notin Final

FreeLoop == [image |-> None, autoclear |-> FALSE, openers |-> {}]

(***************************************************************************)
(* The kernel and udev (external)                                          *)
(***************************************************************************)

\* The device with the number is open: mounted somewhere, or probed by udev.
InUse(num, mnts, evs) ==
    \/ \E m \in Points : \E i \in DOMAIN mnts[m] : mnts[m][i].num = num
    \/ \E e \in evs : e.num = num /\ e.probing

\* Devices marked for deferred removal go when they are no longer in use.
AfterDeferred(devs, mnts, evs) ==
    Restrict(devs, {n \in DOMAIN devs :
                        devs[n].deferred => InUse(devs[n].num, mnts, evs)})

\* Loop devices with the autoclear flag are detached when nobody has them open.
AfterAutoclear(lps, devs) ==
    [l \in Loops |->
        IF /\ lps[l].autoclear
           /\ lps[l].openers = {}
           /\ \A n \in DOMAIN devs : devs[n].loop # l
        THEN FreeLoop
        ELSE lps[l]]

\* A system call leaves the kernel with these objects, less what is cleaned up.
Kernel(lps, devs, mnts, evs) ==
    /\ mounts' = mnts
    /\ events' = evs
    /\ devices' = AfterDeferred(devs, mnts, evs)
    /\ loops' = AfterAutoclear(lps, devices')
    /\ UNCHANGED users

KernelUnchanged == UNCHANGED <<loops, devices, events, mounts, users>>

WithoutOpener(l, p) == [loops EXCEPT ![l].openers = @ \ {p}]

\* umount2() on a mount point takes the topmost mount there, whoever made it,
\* and fails when there is none or a file on it is open.
CanUnmount(m) ==
    mounts[m] # <<>> /\ mounts[m][Len(mounts[m])].num \notin users

PopMount(m) == [mounts EXCEPT ![m] = SubSeq(@, 1, Len(@) - 1)]

Umount(m) ==
    IF CanUnmount(m) THEN Kernel(loops, devices, PopMount(m), events)
    ELSE KernelUnchanged

\* udev opens the device, runs its rules and creates the device node.
UdevProbe(e) ==
    /\ ~e.probing
    /\ \E n \in DOMAIN devices : devices[n].num = e.num
    /\ events' = (events \ {e}) \union {[e EXCEPT !.probing = TRUE]}
    /\ nodes' = nodes \union {e.num}
    /\ UNCHANGED <<loops, devices, mounts, users, semaphores, call, object>>

\* udev is done with an event, or drops that of a device that has gone: it
\* closes the device and decrements the semaphore, if that still exists.
UdevDone(e) ==
    /\ e.probing \/ \A n \in DOMAIN devices : devices[n].num # e.num
    /\ Kernel(loops, devices, mounts, events \ {e})
    /\ semaphores' = [p \in Processes |->
                        IF e.cookie = p /\ semaphores[p] = "one"
                        THEN "zero" ELSE semaphores[p]]
    /\ UNCHANGED <<nodes, call, object>>

\* The node of a device that has gone is removed.
UdevRemoveNode(num) ==
    /\ num \in nodes
    /\ \A n \in DOMAIN devices : devices[n].num # num
    /\ nodes' = nodes \ {num}
    /\ UNCHANGED <<loops, devices, events, mounts, users, semaphores, call, object>>

\* Someone else unmounts what is at a mount point.
ExternalUnmount(m) ==
    /\ CanUnmount(m)
    /\ Umount(m)
    /\ UNCHANGED <<nodes, semaphores, call, object>>

\* A program opens the files on a mounted device, or closes them.
UseMount(m) ==
    /\ MayBeBusy
    /\ mounts[m] # <<>>
    /\ LET num == mounts[m][Len(mounts[m])].num
       IN  users' = IF num \in users THEN users \ {num} ELSE users \union {num}
    /\ UNCHANGED <<loops, devices, nodes, events, mounts, semaphores, call, object>>

\* dm-verity finds a block that does not match its hash.
Corrupt(n) ==
    /\ devices[n].active /\ ~devices[n].corrupted
    /\ devices' = [devices EXCEPT ![n].corrupted = TRUE]
    /\ UNCHANGED <<loops, nodes, events, mounts, users, semaphores, call, object>>

(***************************************************************************)
(* The mount() call                                                        *)
(***************************************************************************)

GoTo(p, step) == call' = [call EXCEPT ![p].pc = step]

\* The call goes on to close the loop device, and then returns an error.
FailMapping(p) ==
    call' = [call EXCEPT ![p].pc = "closeLoop", ![p].mapped = FALSE]

\* createDeviceNameAndUuid(): the names of the existing devices are avoided.
FreeNames == Names \ DOMAIN devices

\* Arguments and superblock are checked, then a name is picked. It is a guess:
\* nothing is reserved in the kernel yet.
BeginMount(p) ==
    /\ call[p].pc = "idle"
    /\ \/ GoTo(p, "failed")
       \/ \E n \in FreeNames, flags \in Flags :
             call' = [call EXCEPT ![p].pc = "getFreeLoop", ![p].name = n,
                                  ![p].flags = flags]
    /\ KernelUnchanged
    /\ UNCHANGED <<nodes, semaphores, object>>

\* LOOP_CTL_GET_FREE, and open() of the device it names.
GetFreeLoop(p) ==
    /\ call[p].pc = "getFreeLoop"
    /\ \/ /\ GoTo(p, "failed")
          /\ UNCHANGED loops
       \/ \E l \in Loops :
             /\ loops[l].image = None
             /\ call' = [call EXCEPT ![p].pc = "setFd", ![p].loop = l]
             /\ loops' = [loops EXCEPT ![l].openers = @ \union {p}]
    /\ UNCHANGED <<devices, nodes, events, mounts, users, semaphores, object>>

\* Mutant: a loop device that another process took is used all the same.
SetFdWithoutBusy(p) ==
    /\ call[p].pc = "setFd"
    /\ loops' = [loops EXCEPT ![call[p].loop].image = p]
    /\ GoTo(p, "setStatus")
    /\ UNCHANGED <<devices, nodes, events, mounts, users, semaphores, object>>

\* LOOP_SET_FD: EBUSY when somebody else was faster, then the loop starts again.
SetFd(p) ==
    LET l == call[p].loop
    IN  /\ call[p].pc = "setFd"
        /\ \/ /\ loops[l].image = None
              /\ loops' = [loops EXCEPT ![l].image = p]
              /\ GoTo(p, "setStatus")
              /\ UNCHANGED <<devices, events, mounts, users>>
           \/ /\ loops[l].image # None
              /\ Kernel(WithoutOpener(l, p), devices, mounts, events)
              /\ call' = [call EXCEPT ![p].pc = "getFreeLoop", ![p].loop = None]
           \/ /\ Kernel(WithoutOpener(l, p), devices, mounts, events)
              /\ GoTo(p, "failed")
        /\ UNCHANGED <<nodes, semaphores, object>>

\* LOOP_SET_STATUS64 with LO_FLAGS_AUTOCLEAR, and LOOP_SET_DIRECT_IO; when one
\* fails LOOP_CLR_FD (which marks a device that others have open) and close().
SetStatus(p) ==
    LET l == call[p].loop
        marked == [loops EXCEPT ![l].autoclear = TRUE]
    IN  /\ call[p].pc = "setStatus"
        /\ \/ /\ loops' = marked
              /\ GoTo(p, "create")
              /\ UNCHANGED <<devices, events, mounts, users>>
           \/ /\ Kernel([marked EXCEPT ![l].openers = @ \ {p}], devices, mounts, events)
              /\ GoTo(p, "failed")
        /\ UNCHANGED <<nodes, semaphores, object>>

(* DM_DEV_REMOVE: what removeDevice() leaves of the devices. A device in    *)
(* use is only marked, and only when the removal is deferred; otherwise the *)
(* call is refused (which the device remembers) and no caller looks at the  *)
(* answer.                                                                  *)
RemoveDevice(n, deferred) ==
    IF n \notin DOMAIN devices THEN devices
    ELSE IF ~InUse(devices[n].num, mounts, events)
         THEN Restrict(devices, DOMAIN devices \ {n})
    ELSE IF deferred THEN [devices EXCEPT ![n].deferred = TRUE]
    ELSE [devices EXCEPT ![n].refused = TRUE]

NewDevice(p, num) ==
    [num |-> num, loop |-> None, owner |-> p, active |-> FALSE,
     deferred |-> FALSE, corrupted |-> FALSE, refused |-> FALSE]

\* DM_DEV_CREATE succeeds, with a device number that is not in use.
DeviceCreated(p) ==
    \E num \in Numbers \ {devices[n].num : n \in DOMAIN devices} :
        /\ devices' = [n \in DOMAIN devices \union {call[p].name} |->
                         IF n = call[p].name THEN NewDevice(p, num) ELSE devices[n]]
        /\ call' = [call EXCEPT ![p].pc = "loadTable", ![p].num = num]

\* Mutant: the name is removed when creating the device fails.
CreateDeviceRemoveOnError(p) ==
    /\ call[p].pc = "create"
    /\ \/ /\ Kernel(loops, RemoveDevice(call[p].name, FALSE), mounts, events)
          /\ FailMapping(p)
       \/ /\ call[p].name \notin DOMAIN devices
          /\ DeviceCreated(p)
          /\ UNCHANGED <<loops, events, mounts, users>>
    /\ UNCHANGED <<nodes, semaphores, object>>

\* mapWithVerity() checks the loop device, then DM_DEV_CREATE: it fails when
\* the name has been taken since it was picked, and nothing is removed.
CreateDevice(p) ==
    /\ call[p].pc = "create"
    /\ \/ /\ FailMapping(p)
          /\ UNCHANGED devices
       \/ /\ call[p].name \notin DOMAIN devices
          /\ DeviceCreated(p)
    /\ UNCHANGED <<loops, nodes, events, mounts, users, semaphores, object>>

\* DM_TABLE_LOAD: the device now holds the loop device open.
LoadTable(p) ==
    LET n == call[p].name
    IN  /\ call[p].pc = "loadTable"
        /\ \/ /\ devices' = [devices EXCEPT ![n].loop = call[p].loop]
              /\ GoTo(p, "activate")
              /\ UNCHANGED <<loops, events, mounts, users>>
           \/ /\ Kernel(loops, RemoveDevice(n, FALSE), mounts, events)
              /\ FailMapping(p)
        /\ UNCHANGED <<nodes, semaphores, object>>

\* Mutant: the device stays when it cannot be activated.
ActivateKeepDevice(p) ==
    /\ call[p].pc = "activate"
    /\ FailMapping(p)
    /\ KernelUnchanged
    /\ UNCHANGED <<nodes, semaphores, object>>

\* activateDevice(): the semaphore is created when udev synchronisation is
\* wanted (going on without when that fails), DM_DEV_SUSPEND resumes the device
\* and queues the event for udev. A failure takes semaphore and device away.
Activate(p) ==
    LET n == call[p].name
    IN  /\ call[p].pc = "activate"
        /\ \/ \E sem \in IF "UDevSync" \in call[p].flags THEN BOOLEAN ELSE {FALSE} :
                 /\ devices' = [devices EXCEPT ![n].active = TRUE]
                 /\ events' = events \union
                       {[num |-> call[p].num, probing |-> FALSE,
                         cookie |-> IF sem THEN p ELSE None]}
                 /\ semaphores' = [semaphores EXCEPT ![p] = IF sem THEN "one" ELSE None]
                 /\ GoTo(p, IF sem THEN "wait" ELSE "findNode")
                 /\ UNCHANGED <<loops, mounts, users>>
           \/ /\ Kernel(loops, RemoveDevice(n, FALSE), mounts, events)
              /\ FailMapping(p)
              /\ UNCHANGED semaphores
        /\ UNCHANGED <<nodes, object>>

\* Mutant: the wait for udev has no timeout.
WaitForever(p) ==
    /\ call[p].pc = "wait"
    /\ semaphores[p] = "zero"
    /\ semaphores' = [semaphores EXCEPT ![p] = None]
    /\ GoTo(p, "findNode")
    /\ KernelUnchanged
    /\ UNCHANGED <<nodes, object>>

\* UDevNotifySemaphore::wait(1s): whether udev was in time makes no difference,
\* and the semaphore is deleted when activateDevice() returns.
WaitUdev(p) ==
    /\ call[p].pc = "wait"
    /\ semaphores' = [semaphores EXCEPT ![p] = None]
    /\ GoTo(p, "findNode")
    /\ KernelUnchanged
    /\ UNCHANGED <<nodes, object>>

\* One attempt of findDeviceNode(); after the last one the device is removed.
FindDeviceNode(p) ==
    /\ call[p].pc = "findNode"
    /\ \/ /\ call[p].num \in nodes
          /\ call' = [call EXCEPT ![p].pc = "closeLoop", ![p].mapped = TRUE]
          /\ KernelUnchanged
       \/ /\ call[p].num \notin nodes
          /\ call[p].tries + 1 < MaxRetries
          /\ call' = [call EXCEPT ![p].tries = @ + 1]
          /\ KernelUnchanged
       \/ /\ call[p].num \notin nodes
          /\ call[p].tries + 1 = MaxRetries
          /\ Kernel(loops, RemoveDevice(call[p].name, FALSE), mounts, events)
          /\ FailMapping(p)
    /\ UNCHANGED <<nodes, semaphores, object>>

\* doMount() closes the loop device, whatever mapWithVerity() has returned.
CloseLoop(p) ==
    /\ call[p].pc = "closeLoop"
    /\ Kernel(WithoutOpener(call[p].loop, p), devices, mounts, events)
    /\ call' = [call EXCEPT ![p].pc = IF call[p].mapped THEN "mount" ELSE "failed",
                            ![p].loop = None, ![p].tries = 0]
    /\ UNCHANGED <<nodes, semaphores, object>>

\* mount(2) of the device node on the mount point, on top of what is there.
MountDevice(p) ==
    /\ call[p].pc = "mount"
    /\ \/ /\ \E n \in DOMAIN devices : devices[n].num = call[p].num
          /\ mounts' = [mounts EXCEPT ![PointOf[p]] =
                           Append(@, [num |-> call[p].num, by |-> p])]
          /\ GoTo(p, "status")
          /\ UNCHANGED <<loops, devices, events, users>>
       \/ /\ Kernel(loops, RemoveDevice(call[p].name, FALSE), mounts, events)
          /\ GoTo(p, "failed")
    /\ UNCHANGED <<nodes, semaphores, object>>

\* mapStatus(): the status of the device with the name, "V" for valid.
StatusIsValid(n) ==
    n \in DOMAIN devices /\ ~devices[n].corrupted

\* Mutant: a device with an invalid status stays mounted.
CheckStatusStaysMounted(p) ==
    /\ call[p].pc = "status"
    /\ GoTo(p, IF StatusIsValid(call[p].name) THEN "deferredRemove" ELSE "unmap")
    /\ KernelUnchanged
    /\ UNCHANGED <<nodes, semaphores, object>>

\* A failed call, a missing device and a status other than "V" undo the mount.
CheckStatus(p) ==
    /\ call[p].pc = "status"
    /\ \/ /\ StatusIsValid(call[p].name)
          /\ GoTo(p, "deferredRemove")
       \/ GoTo(p, "forceUnmount")
    /\ KernelUnchanged
    /\ UNCHANGED <<nodes, semaphores, object>>

\* umount2() with MNT_FORCE, whose answer is not looked at.
ForceUnmount(p) ==
    /\ call[p].pc = "forceUnmount"
    /\ Umount(PointOf[p])
    /\ GoTo(p, "unmap")
    /\ UNCHANGED <<nodes, semaphores, object>>

Unmap(p) ==
    /\ call[p].pc = "unmap"
    /\ Kernel(loops, RemoveDevice(call[p].name, FALSE), mounts, events)
    /\ GoTo(p, "failed")
    /\ UNCHANGED <<nodes, semaphores, object>>

\* The last steps: without NoAutoClear the mapping is removed when it is no
\* longer in use, and the DmVerityMount object is created. Its device number is
\* that of the node, if the node is still there.
DeferredRemove(p) ==
    /\ call[p].pc = "deferredRemove"
    /\ IF "NoAutoClear" \in call[p].flags
       THEN KernelUnchanged
       ELSE Kernel(loops, RemoveDevice(call[p].name, TRUE), mounts, events)
    /\ object' = [object EXCEPT ![p] =
                     [number |-> IF call[p].num \in nodes THEN call[p].num ELSE None,
                      unmounted |-> FALSE, detached |-> FALSE]]
    /\ GoTo(p, "held")
    /\ UNCHANGED <<nodes, semaphores>>

(***************************************************************************)
(* The DmVerityMount object                                                *)
(***************************************************************************)

\* doUnmount(): umount2() of the path, its answer ignored.
DoUnmount(p) == Umount(PointOf[p])

UnmountObject(p) ==
    /\ call[p].pc = "held"
    /\ ~object[p].unmounted
    /\ DoUnmount(p)
    /\ object' = [object EXCEPT ![p].unmounted = TRUE]
    /\ UNCHANGED <<nodes, semaphores, call>>

DetachObject(p) ==
    /\ call[p].pc = "held"
    /\ object' = [object EXCEPT ![p].detached = TRUE]
    /\ KernelUnchanged
    /\ UNCHANGED <<nodes, semaphores, call>>

DestroyObject(p) ==
    /\ call[p].pc = "held"
    /\ IF object[p].detached \/ object[p].unmounted
       THEN KernelUnchanged
       ELSE DoUnmount(p)
    /\ GoTo(p, "gone")
    /\ UNCHANGED <<nodes, semaphores, object>>

\* isMounted(): the device on top at the mount point has the device's number.
IsMounted(p) ==
    /\ ~object[p].unmounted
    /\ object[p].number # None
    /\ mounts[PointOf[p]] # <<>>
    /\ mounts[PointOf[p]][Len(mounts[PointOf[p]])].num = object[p].number

\* status(); any trouble in asking for the device counts as mounted.
Status(p) ==
    IF ~IsMounted(p) THEN "NotMounted"
    ELSE IF call[p].name \in DOMAIN devices /\ devices[call[p].name].corrupted
    THEN "Corrupted"
    ELSE "Mounted"

(* The process dies: its file descriptors are closed, a semaphore stays.    *)
Crash(p) ==
    /\ InCall(p) \/ call[p].pc = "held"
    /\ Kernel([l \in Loops |-> [loops[l] EXCEPT !.openers = @ \ {p}]],
              devices, mounts, events)
    /\ GoTo(p, "crashed")
    /\ UNCHANGED <<nodes, semaphores, object>>

(***************************************************************************)
(* The specification                                                       *)
(***************************************************************************)

Init ==
    /\ loops = [l \in Loops |-> FreeLoop]
    /\ devices = <<>>
    /\ nodes = {}
    /\ users = {}
    /\ events = {}
    /\ mounts = [m \in Points |-> <<>>]
    /\ semaphores = [p \in Processes |-> None]
    /\ call = [p \in Processes |->
                 [pc |-> "idle", name |-> None, loop |-> None, num |-> None,
                  tries |-> 0, mapped |-> FALSE, flags |-> {}]]
    /\ object = [p \in Processes |->
                 [number |-> None, unmounted |-> FALSE, detached |-> FALSE]]

MountStep(p) ==
    \/ GetFreeLoop(p) \/ SetFd(p) \/ SetStatus(p)
    \/ CreateDevice(p) \/ LoadTable(p) \/ Activate(p) \/ WaitUdev(p)
    \/ FindDeviceNode(p) \/ CloseLoop(p) \/ MountDevice(p)
    \/ CheckStatus(p) \/ ForceUnmount(p) \/ Unmap(p) \/ DeferredRemove(p)

ClientStep(p) ==
    BeginMount(p) \/ UnmountObject(p) \/ DetachObject(p) \/ DestroyObject(p)

Environment ==
    \/ \E e \in events : UdevProbe(e) \/ UdevDone(e)
    \/ \E num \in Numbers : UdevRemoveNode(num)
    \/ \E m \in Points : ExternalUnmount(m) \/ UseMount(m)
    \/ \E n \in DOMAIN devices : Corrupt(n)

Finished ==
    /\ \A p \in Processes : call[p].pc \in {"failed", "gone", "crashed"}
    /\ UNCHANGED vars

Next ==
    \/ \E p \in Processes : MountStep(p) \/ ClientStep(p) \/ Crash(p)
    \/ Environment
    \/ Finished

\* A thread that is inside mount() keeps running; nothing is assumed of udev,
\* of the administrator or of what the client does with the object.
Spec == Init /\ [][Next]_vars /\ \A p \in Processes : WF_vars(MountStep(p))

(***************************************************************************)
(* Properties                                                              *)
(***************************************************************************)

LoopTypes == [Loops -> [image : Processes \union {None}, autoclear : BOOLEAN,
                        openers : SUBSET Processes]]

DeviceRecords == [num : Numbers, loop : Loops \union {None}, owner : Processes,
                  active : BOOLEAN, deferred : BOOLEAN, corrupted : BOOLEAN,
                  refused : BOOLEAN]

MountTypes == [Points -> Seq([num : Numbers, by : Processes])]

EventTypes == SUBSET [num : Numbers, probing : BOOLEAN, cookie : Processes \union {None}]

CallTypes == [Processes -> [pc : Steps, name : Names \union {None},
                            loop : Loops \union {None}, num : Numbers \union {None},
                            tries : 0..(MaxRetries - 1), mapped : BOOLEAN,
                            flags : Flags \union {{}}]]

TypeOK ==
    /\ loops \in LoopTypes
    /\ DOMAIN devices \subseteq Names /\ devices \in [DOMAIN devices -> DeviceRecords]
    /\ nodes \subseteq Numbers /\ users \subseteq Numbers
    /\ events \in EventTypes
    /\ mounts \in MountTypes
    /\ semaphores \in [Processes -> {None, "zero", "one"}]
    /\ call \in CallTypes
    /\ object \in [Processes -> [number : Numbers \union {None},
                                 unmounted : BOOLEAN, detached : BOOLEAN]]

(* What a process has mounted is the device over the loop device with the   *)
(* image it was asked to mount: the races for a free loop device, for a     *)
(* name and for a device number never hand it the image of another process, *)
(* as long as the mount exists.                                             *)
MountsOwnImage ==
    \A m \in Points : \A i \in DOMAIN mounts[m] :
        \E n \in DOMAIN devices :
            /\ devices[n].num = mounts[m][i].num
            /\ devices[n].active
            /\ devices[n].loop \in Loops
            /\ loops[devices[n].loop].image = mounts[m][i].by
            /\ devices[n].owner = mounts[m][i].by

(* No loop device is left behind: one with an image is open in a running    *)
(* call or used by a mapped device, unless the process died before it could *)
(* mark the device to clear itself.                                         *)
LoopsReclaimed ==
    \A l \in Loops :
        loops[l].image # None =>
            \/ loops[l].openers # {}
            \/ \E n \in DOMAIN devices : devices[n].loop = l
            \/ ~loops[l].autoclear /\ call[loops[l].image].pc = "crashed"

(* No mapped device is left behind: when its process is no longer in        *)
(* mount(), a mapped device is in use and will go with its last user,       *)
(* unless the caller asked to keep it, the kernel refused to remove a       *)
(* device that udev or a mount was using, or the process died.              *)
DevicesReclaimed ==
    \A n \in DOMAIN devices :
        LET p == devices[n].owner
        IN  \/ InCall(p)
            \/ devices[n].deferred /\ InUse(devices[n].num, mounts, events)
            \/ "NoAutoClear" \in call[p].flags
            \/ devices[n].refused
            \/ call[p].pc = "crashed"

(* The udev semaphore, which outlives its process, exists only while its    *)
(* process waits for it, also when udev is late or never answers.           *)
SemaphoresReclaimed ==
    \A p \in Processes :
        semaphores[p] # None => call[p].pc \in {"wait", "crashed"}

(* Whatever fails, whoever is late or dies, loop devices, mapped devices    *)
(* and semaphores do not outlive their use.                                 *)
NothingLeftBehind == LoopsReclaimed /\ DevicesReclaimed /\ SemaphoresReclaimed

(* mount() never takes away the mapped device of another process, whatever  *)
(* names the two have picked: a device goes, or is marked for deferred      *)
(* removal, by a step of its own process or after that process marked it.   *)
OnlyOwnDeviceRemoved ==
    [][\A n \in DOMAIN devices :
          LET p == devices[n].owner
          IN  (n \notin DOMAIN devices' \/ devices'[n].deferred # devices[n].deferred)
              => devices[n].deferred \/ call'[p] # call[p]]_vars

(* "mounting the same package twice will result in a different volume name  *)
(* for each mount" (PackageMount::volumeName): two objects whose mounts     *)
(* both exist have different names.                                         *)
DistinctVolumeNames ==
    \A p, q \in Processes :
        /\ p # q
        /\ call[p].pc = "held" /\ call[q].pc = "held"
        /\ \A r \in {p, q} : \E i \in DOMAIN mounts[PointOf[r]] :
                                mounts[PointOf[r]][i].by = r
        => call[p].name # call[q].name

(* A call that has failed leaves nothing mounted (for processes with mount  *)
(* points of their own, when no other program uses a file on the mount      *)
(* before mount() has returned).                                            *)
FailedMountUndone ==
    \A p \in Processes :
        call[p].pc = "failed" =>
            \A i \in DOMAIN mounts[PointOf[p]] : mounts[PointOf[p]][i].by # p

(* mount() returns: the loop for a free loop device, the wait for udev and  *)
(* the search for the device node all end, even when udev never runs.       *)
MountReturns ==
    \A p \in Processes : InCall(p) ~> ~InCall(p)

(* "this status reflects the current state of the mount not the logic state *)
(* stored in this object" (PackageMount::status): while the package's mount *)
(* is the one at the mount point, status() does not say NotMounted.         *)
StatusReflectsMount ==
    \A p \in Processes :
        LET stack == mounts[PointOf[p]]
        IN  /\ call[p].pc = "held"
            /\ object[p].number # None
            /\ stack # <<>> /\ stack[Len(stack)].by = p
            => Status(p) # "NotMounted"

(* "On destruction it will unmount the package unless the detach() method   *)
(* was called before the destructor": destroying the object of a package    *)
(* that is mounted, and not in use, unmounts it.                            *)
DestructorUnmounts ==
    [][\A p \in Processes :
          LET stack == mounts[PointOf[p]]
          IN  /\ call[p].pc = "held" /\ call'[p].pc = "gone"
              /\ ~object[p].detached
              /\ stack # <<>> /\ stack[Len(stack)].by = p
              /\ stack[Len(stack)].num \notin users
              => mounts' # mounts]_vars

(* "Performs an explicit unmount of the package" (PackageMount::unmount):   *)
(* what unmount() takes away is the package's mount, never one that another *)
(* process has made at the same mount point.                                *)
OnlyOwnMountUnmounted ==
    [][\A p \in Processes :
          /\ object[p].unmounted # object'[p].unmounted
          /\ mounts' # mounts
          => LET stack == mounts[PointOf[p]] IN stack[Len(stack)].by = p]_vars

=============================================================================
