------------------------ MODULE DmVerityMounter_proofs ------------------------
(***************************************************************************)
(* Proofs about DmVerityMounter: for any number of processes, loop         *)
(* devices, names and device numbers, and every interleaving of their      *)
(* system calls with udev, the administrator and crashes.                  *)
(*                                                                         *)
(* The parts of the invariant take the kernel's objects as arguments, so   *)
(* that they can be said of the objects a system call leaves as well as of *)
(* those that are left after deferred removal and autoclear.               *)
(***************************************************************************)
EXTENDS DmVerityMounter, SequenceTheorems, TLAPS

\* Steps at which the call has a loop device open, and has its image attached.
Opening == {"setFd", "setStatus", "create", "loadTable", "activate", "wait",
            "findNode", "closeLoop"}
Attached == Opening \ {"setFd"}

\* Steps before the mapped device is created.
Before == {"idle", "getFreeLoop", "setFd", "setStatus", "create"}

\* Steps at which the mapped device is ready to be mounted, or is mounted.
Ready == {"mount", "status", "forceUnmount", "unmap", "deferredRemove"}

\* The call has created its mapped device and has not yet let go of it.
Active(c) == c.pc \in Ready \union {"wait", "findNode"} \/ (c.pc = "closeLoop" /\ c.mapped)
Loaded(c) == Active(c) \/ c.pc = "activate"
Owns(c) == Loaded(c) \/ c.pc = "loadTable"

\* The loop device of a call.
CallOpens(lps, c, p) ==
    /\ c.pc \in Opening => c.loop \in Loops /\ p \in lps[c.loop].openers
    /\ c.pc \in Attached => lps[c.loop].image = p

CallsOpen(lps, cal) == \A p \in Processes : CallOpens(lps, cal[p], p)

\* Only a call that has just attached the image has not marked the loop device.
Unmarked(lps, cal) == \A l \in Loops :
    lps[l].image # None /\ ~lps[l].autoclear =>
        \/ cal[lps[l].image].pc = "crashed"
        \/ cal[lps[l].image].pc = "setStatus" /\ cal[lps[l].image].loop = l

\* The mapped device of a call.
CallOwns(devs, c, p) ==
    /\ Owns(c) => /\ c.name \in DOMAIN devs
                  /\ devs[c.name].owner = p
                  /\ devs[c.name].num = c.num
                  /\ ~devs[c.name].deferred
    /\ c.pc = "loadTable" => devs[c.name].loop = None
    /\ Loaded(c) => devs[c.name].loop \in Loops
    /\ Active(c) => devs[c.name].active

CallsOwn(devs, cal) == \A p \in Processes : CallOwns(devs, cal[p], p)

\* The call c that owns the mapped device r has let go of it only for a reason.
DeviceOwned(n, r, c) ==
    /\ c.name = n
    /\ c.pc \notin Before
    /\ \/ Owns(c) \/ c.pc = "crashed" \/ "NoAutoClear" \in c.flags
       \/ r.refused \/ r.deferred

DevicesOwned(devs, cal) == \A n \in DOMAIN devs : DeviceOwned(n, devs[n], cal[devs[n].owner])

DistinctNumbers(devs) == \A n, m \in DOMAIN devs : devs[n].num = devs[m].num => n = m

OverOwnImage(lps, devs) == \A n \in DOMAIN devs :
    devs[n].loop # None => lps[devs[n].loop].image = devs[n].owner

MountsOwn(lps, devs, mnts) == \A m \in Points : \A i \in DOMAIN mnts[m] :
    \E n \in DOMAIN devs :
        /\ devs[n].num = mnts[m][i].num
        /\ devs[n].active
        /\ devs[n].loop \in Loops
        /\ lps[devs[n].loop].image = mnts[m][i].by
        /\ devs[n].owner = mnts[m][i].by

Core(lps, devs, mnts, cal) ==
    /\ CallsOpen(lps, cal) /\ Unmarked(lps, cal)
    /\ CallsOwn(devs, cal) /\ DevicesOwned(devs, cal)
    /\ DistinctNumbers(devs) /\ OverOwnImage(lps, devs)
    /\ MountsOwn(lps, devs, mnts)

\* What the kernel cleans up: a device marked for removal is in use.
DeferredInUse(devs, mnts, evs) == \A n \in DOMAIN devs :
    devs[n].deferred => InUse(devs[n].num, mnts, evs)

Reclaimed(lps, devs, cal) == \A l \in Loops :
    lps[l].image # None =>
        \/ lps[l].openers # {}
        \/ \E n \in DOMAIN devs : devs[n].loop = l
        \/ ~lps[l].autoclear /\ cal[lps[l].image].pc = "crashed"

\* A call that has not yet created its mapped device has picked a name for it.
Named == \A p \in Processes :
    call[p].pc \in {"getFreeLoop", "setFd", "setStatus", "create"} => call[p].name \in Names

MounterInv ==
    /\ TypeOK
    /\ Core(loops, devices, mounts, call)
    /\ DeferredInUse(devices, mounts, events)
    /\ Reclaimed(loops, devices, call)
    /\ SemaphoresReclaimed
    /\ Named

-------------------------------------------------------------------------------
(* What the kernel cleans up after a system call.                              *)

DeviceMap(devs) == DOMAIN devs \subseteq Names /\ devs \in [DOMAIN devs -> DeviceRecords]

\* Devices marked for removal go when they are not in use: nobody else's.
LEMMA DeferredKeeps ==
    ASSUME NEW lps \in LoopTypes, NEW devs, DeviceMap(devs), NEW mnts \in MountTypes,
           NEW evs \in EventTypes, NEW cal \in CallTypes, Core(lps, devs, mnts, cal)
    PROVE  /\ DeviceMap(AfterDeferred(devs, mnts, evs))
           /\ Core(lps, AfterDeferred(devs, mnts, evs), mnts, cal)
           /\ DeferredInUse(AfterDeferred(devs, mnts, evs), mnts, evs)
    <1> DEFINE kept == AfterDeferred(devs, mnts, evs)
    <1>1. /\ DOMAIN kept = {n \in DOMAIN devs : devs[n].deferred => InUse(devs[n].num, mnts, evs)}
          /\ \A n \in DOMAIN kept : kept[n] = devs[n]
          /\ DOMAIN kept \subseteq DOMAIN devs
          /\ DeviceMap(kept)
      BY DEF AfterDeferred, Restrict, DeviceMap
    <1> HIDE DEF kept
    <1>2. DeferredInUse(kept, mnts, evs)
      BY <1>1 DEF DeferredInUse
    <1>3. CallsOwn(kept, cal)
      BY <1>1 DEF Core, CallsOwn, CallOwns, Loaded, Active, Owns
    <1>4. DevicesOwned(kept, cal)
      BY <1>1 DEF Core, DevicesOwned, DeviceOwned
    <1>5. DistinctNumbers(kept) /\ OverOwnImage(lps, kept)
      BY <1>1 DEF Core, DistinctNumbers, OverOwnImage
    <1>6. MountsOwn(lps, kept, mnts)
      <2> SUFFICES ASSUME NEW m \in Points, NEW i \in DOMAIN mnts[m]
                   PROVE  \E n \in DOMAIN kept :
                            /\ kept[n].num = mnts[m][i].num
                            /\ kept[n].active
                            /\ kept[n].loop \in Loops
                            /\ lps[kept[n].loop].image = mnts[m][i].by
                            /\ kept[n].owner = mnts[m][i].by
        BY DEF MountsOwn
      <2>1. PICK n \in DOMAIN devs :
                            /\ devs[n].num = mnts[m][i].num
                            /\ devs[n].active
                            /\ devs[n].loop \in Loops
                            /\ lps[devs[n].loop].image = mnts[m][i].by
                            /\ devs[n].owner = mnts[m][i].by
        BY DEF Core, MountsOwn
      <2>2. InUse(devs[n].num, mnts, evs)
        BY <2>1 DEF InUse
      <2> QED
        BY <2>1, <2>2, <1>1
    <1> QED
      BY <1>1, <1>2, <1>3, <1>4, <1>5, <1>6 DEF Core, kept

\* Loop devices go when nobody has them open: none that a call or a device uses.
LEMMA AutoclearKeeps ==
    ASSUME NEW lps \in LoopTypes, NEW devs, DeviceMap(devs), NEW mnts \in MountTypes,
           NEW cal \in CallTypes, Core(lps, devs, mnts, cal)
    PROVE  /\ AfterAutoclear(lps, devs) \in LoopTypes
           /\ Core(AfterAutoclear(lps, devs), devs, mnts, cal)
           /\ Reclaimed(AfterAutoclear(lps, devs), devs, cal)
    <1> DEFINE kept == AfterAutoclear(lps, devs)
               cleared(l) == /\ lps[l].autoclear
                             /\ lps[l].openers = {}
                             /\ \A n \in DOMAIN devs : devs[n].loop # l
    <1>1. \A l \in Loops : kept[l] = IF cleared(l) THEN FreeLoop ELSE lps[l]
      BY DEF AfterAutoclear
    <1>2. kept \in LoopTypes
      BY DEF AfterAutoclear, LoopTypes, FreeLoop
    <1>3. FreeLoop.image = None
      BY DEF FreeLoop
    <1> HIDE DEF kept
    <1>4. CallsOpen(kept, cal)
      BY <1>1 DEF Core, CallsOpen, CallOpens, Attached
    <1>5. Unmarked(kept, cal)
      BY <1>1, <1>3 DEF Core, Unmarked
    <1>6. OverOwnImage(kept, devs)
      BY <1>1 DEF Core, OverOwnImage, DeviceMap, DeviceRecords
    <1>7. MountsOwn(kept, devs, mnts)
      <2>1. \A n \in DOMAIN devs : devs[n].loop \in Loops => kept[devs[n].loop] = lps[devs[n].loop]
        BY <1>1
      <2> QED
        BY <2>1 DEF Core, MountsOwn
    <1>8. Reclaimed(kept, devs, cal)
      <2> SUFFICES ASSUME NEW l \in Loops, kept[l].image # None, kept[l].openers = {},
                          \A n \in DOMAIN devs : devs[n].loop # l
                   PROVE  ~kept[l].autoclear /\ cal[kept[l].image].pc = "crashed"
        BY DEF Reclaimed
      <2>1. kept[l] = lps[l] /\ ~lps[l].autoclear
        BY <1>1, <1>3
      <2>2. lps[l].image \in Processes
        BY <2>1 DEF LoopTypes
      <2>3. ~(cal[lps[l].image].pc = "setStatus" /\ cal[lps[l].image].loop = l)
        BY <2>1, <2>2 DEF Core, CallsOpen, CallOpens, Opening
      <2> QED
        BY <2>1, <2>3 DEF Core, Unmarked
    <1> QED
      BY <1>2, <1>4, <1>5, <1>6, <1>7, <1>8 DEF Core, kept

\* A system call that leaves good objects leaves good objects after the cleaning.
LEMMA KernelKeeps ==
    ASSUME NEW lps \in LoopTypes, NEW devs, DeviceMap(devs), NEW mnts \in MountTypes,
           NEW evs \in EventTypes, call' \in CallTypes, Core(lps, devs, mnts, call'),
           Kernel(lps, devs, mnts, evs)
    PROVE  /\ loops' \in LoopTypes /\ DeviceMap(devices')
           /\ mounts' \in MountTypes /\ events' \in EventTypes
           /\ Core(loops', devices', mounts', call')
           /\ DeferredInUse(devices', mounts', events')
           /\ Reclaimed(loops', devices', call')
    <1>1. /\ mounts' = mnts /\ events' = evs
          /\ devices' = AfterDeferred(devs, mnts, evs)
          /\ loops' = AfterAutoclear(lps, devices')
      BY DEF Kernel
    <1>2. /\ DeviceMap(devices') /\ Core(lps, devices', mnts, call')
          /\ DeferredInUse(devices', mnts, evs)
      BY <1>1, DeferredKeeps
    <1>3. /\ loops' \in LoopTypes /\ Core(loops', devices', mnts, call')
          /\ Reclaimed(loops', devices', call')
      BY <1>1, <1>2, AutoclearKeeps
    <1> QED
      BY <1>1, <1>2, <1>3

-------------------------------------------------------------------------------
(* Steps of a call.                                                            *)

\* One call goes from c to d, and the others stay where they are.
Moves(p, cal, cal2) ==
    /\ p \in Processes
    /\ cal \in CallTypes /\ cal2 \in CallTypes
    /\ \A q \in Processes : q # p => cal2[q] = cal[q]

\* The objects are good for a call at its new place when it holds no more than at
\* the old one, and lets go only of what is accounted for.
LEMMA CallKeeps ==
    ASSUME NEW lps \in LoopTypes, NEW devs, DeviceMap(devs), NEW mnts, NEW cal, NEW cal2,
           NEW p \in Processes, Moves(p, cal, cal2), Core(lps, devs, mnts, cal),
           cal2[p].pc \in Opening => cal[p].pc \in Opening /\ cal2[p].loop = cal[p].loop,
           cal2[p].pc \in Attached => cal[p].pc \in Attached,
           Owns(cal2[p]) => /\ Owns(cal[p])
                            /\ cal2[p].name = cal[p].name /\ cal2[p].num = cal[p].num,
           cal2[p].pc = "loadTable" => cal[p].pc = "loadTable",
           Loaded(cal2[p]) => Loaded(cal[p]),
           Active(cal2[p]) => Active(cal[p]),
           \A l \in Loops : lps[l].image = p /\ ~lps[l].autoclear =>
               cal2[p].pc = "crashed" \/ (cal2[p].pc = "setStatus" /\ cal2[p].loop = l),
           \A n \in DOMAIN devs : devs[n].owner = p => DeviceOwned(n, devs[n], cal2[p])
    PROVE  Core(lps, devs, mnts, cal2)
    <1>1. \A q \in Processes : q # p => cal2[q] = cal[q]
      BY DEF Moves
    <1>2. CallsOpen(lps, cal2)
      <2> SUFFICES ASSUME NEW q \in Processes
                   PROVE  CallOpens(lps, cal2[q], q)
        BY DEF CallsOpen, CallOpens
      <2>1. CASE q = p
        BY <2>1 DEF Core, CallsOpen, CallOpens, Attached
      <2>2. CASE q # p
        BY <2>2, <1>1 DEF Core, CallsOpen, CallOpens
      <2> QED
        BY <2>1, <2>2
    <1>3. Unmarked(lps, cal2)
      BY <1>1 DEF Core, Unmarked, LoopTypes
    <1>4. CallsOwn(devs, cal2)
      <2> SUFFICES ASSUME NEW q \in Processes
                   PROVE  CallOwns(devs, cal2[q], q)
        BY DEF CallsOwn, CallOwns
      <2>1. CASE q = p
        BY <2>1 DEF Core, CallsOwn, CallOwns, Owns, Loaded
      <2>2. CASE q # p
        BY <2>2, <1>1 DEF Core, CallsOwn, CallOwns
      <2> QED
        BY <2>1, <2>2
    <1>5. DevicesOwned(devs, cal2)
      <2> SUFFICES ASSUME NEW n \in DOMAIN devs
                   PROVE  DeviceOwned(n, devs[n], cal2[devs[n].owner])
        BY DEF DevicesOwned, DeviceOwned
      <2>1. CASE devs[n].owner = p
        BY <2>1
      <2>2. CASE devs[n].owner # p
        <3>1. devs[n].owner \in Processes
          BY DEF DeviceMap, DeviceRecords
        <3>2. cal2[devs[n].owner] = cal[devs[n].owner]
          BY <1>1, <2>2, <3>1
        <3> QED
          BY <3>2 DEF Core, DevicesOwned, DeviceOwned
      <2> QED
        BY <2>1, <2>2
    <1> QED
      BY <1>2, <1>3, <1>4, <1>5 DEF Core

\* The variables outside the kernel's objects.
Rest ==
    /\ nodes \subseteq Numbers /\ users \subseteq Numbers
    /\ semaphores \in [Processes -> {None, "zero", "one"}]
    /\ object \in [Processes -> [number : Numbers \union {None},
                                 unmounted : BOOLEAN, detached : BOOLEAN]]
    /\ SemaphoresReclaimed /\ Named

\* The invariant of the next state, of the objects that are there then.
LEMMA InvNext ==
    ASSUME loops' \in LoopTypes, DeviceMap(devices'),
           mounts' \in MountTypes, events' \in EventTypes, call' \in CallTypes,
           Core(loops', devices', mounts', call'),
           DeferredInUse(devices', mounts', events'),
           Reclaimed(loops', devices', call'), Rest'
    PROVE  MounterInv'
    BY DEF MounterInv, TypeOK, DeviceMap, Rest, Core, DeferredInUse, InUse, Reclaimed,
           CallsOpen, CallOpens, Unmarked, CallsOwn, DevicesOwned, DistinctNumbers, OverOwnImage,
           MountsOwn, Owns, Loaded, Active, LoopTypes, MountTypes, CallTypes, EventTypes

\* A step with a system call.
LEMMA ByKernel ==
    ASSUME NEW lps \in LoopTypes, NEW devs, DeviceMap(devs), NEW mnts \in MountTypes,
           NEW evs \in EventTypes, call' \in CallTypes, Core(lps, devs, mnts, call'),
           Kernel(lps, devs, mnts, evs), Rest'
    PROVE  MounterInv'
    <1>1. /\ loops' \in LoopTypes /\ DeviceMap(devices')
          /\ mounts' \in MountTypes /\ events' \in EventTypes
          /\ Core(loops', devices', mounts', call')
          /\ DeferredInUse(devices', mounts', events')
          /\ Reclaimed(loops', devices', call')
      BY KernelKeeps
    <1> QED
      BY <1>1, InvNext

\* A step that changes only the call and what is outside the kernel.
LEMMA ByCall ==
    ASSUME MounterInv, KernelUnchanged, call' \in CallTypes,
           Core(loops, devices, mounts, call'), Rest',
           \A q \in Processes : call[q].pc = "crashed" => call'[q].pc = "crashed"
    PROVE  MounterInv'
    <1>1. Reclaimed(loops, devices, call')
      BY DEF MounterInv, Reclaimed, TypeOK, LoopTypes
    <1>2. UNCHANGED <<loops, devices, mounts, events>>
      BY DEF KernelUnchanged
    <1> QED
      BY <1>1, <1>2, InvNext DEF MounterInv, TypeOK, DeviceMap

\* The call moves without letting go of anything: what CallKeeps asks of it.
Holds(c, d) ==
    /\ d.pc \in Opening => c.pc \in Opening /\ d.loop = c.loop
    /\ d.pc \in Attached => c.pc \in Attached
    /\ Owns(d) => Owns(c) /\ d.name = c.name /\ d.num = c.num
    /\ d.pc = "loadTable" => c.pc = "loadTable"
    /\ Loaded(d) => Loaded(c)
    /\ Active(d) => Active(c)
    /\ c.pc \notin Before => d.name = c.name /\ d.pc \notin Before
    /\ c.pc = "setStatus" => d.pc = "crashed"
    /\ c.pc = "crashed" => d.pc = "crashed"
    /\ c.pc \notin Before /\ "NoAutoClear" \in c.flags => "NoAutoClear" \in d.flags

\* The objects are good for a call that keeps its mapped device, or has none.
LEMMA CallHolds ==
    ASSUME NEW p \in Processes, MounterInv, Moves(p, call, call'), Holds(call[p], call'[p]),
           Owns(call[p]) => \/ Owns(call'[p]) \/ call'[p].pc = "crashed"
                            \/ "NoAutoClear" \in call'[p].flags
    PROVE  Core(loops, devices, mounts, call')
    <1>1. /\ loops \in LoopTypes /\ DeviceMap(devices)
          /\ Core(loops, devices, mounts, call)
      BY DEF MounterInv, TypeOK, DeviceMap
    <1>2. \A l \in Loops : loops[l].image = p /\ ~loops[l].autoclear =>
               call'[p].pc = "crashed" \/ (call'[p].pc = "setStatus" /\ call'[p].loop = l)
      BY <1>1, MounterAssumption DEF Core, Unmarked, Holds, None
    <1>3. \A n \in DOMAIN devices : devices[n].owner = p => DeviceOwned(n, devices[n], call'[p])
      BY <1>1 DEF Core, DevicesOwned, DeviceOwned, Holds
    <1> QED
      BY <1>1, <1>2, <1>3, CallKeeps DEF Holds

\* A step that changes only the call.
LEMMA CallStepKeeps ==
    ASSUME NEW p \in Processes, MounterInv, KernelUnchanged, Moves(p, call, call'), Rest',
           Holds(call[p], call'[p]),
           Owns(call[p]) => Owns(call'[p]) \/ "NoAutoClear" \in call'[p].flags
    PROVE  MounterInv'
    <1>1. call' \in CallTypes /\ \A q \in Processes : q # p => call'[q] = call[q]
      BY DEF Moves
    <1>2. Core(loops, devices, mounts, call')
      BY CallHolds
    <1>3. \A q \in Processes : call[q].pc = "crashed" => call'[q].pc = "crashed"
      BY <1>1 DEF Holds
    <1> QED
      BY <1>1, <1>2, <1>3, ByCall

\* The call of a process after an assignment to some of its fields.
LEMMA CallAssigned ==
    ASSUME NEW p \in Processes, call \in CallTypes,
           NEW d \in [pc : Steps, name : Names \union {None},
                      loop : Loops \union {None}, num : Numbers \union {None},
                      tries : 0..(MaxRetries - 1), mapped : BOOLEAN,
                      flags : Flags \union {{}}],
           call' = [call EXCEPT ![p] = d]
    PROVE  Moves(p, call, call') /\ call'[p] = d
    BY DEF Moves, CallTypes

LEMMA GoesTo ==
    ASSUME NEW p \in Processes, MounterInv, NEW step \in Steps, GoTo(p, step)
    PROVE  /\ Moves(p, call, call') /\ call'[p] = [call[p] EXCEPT !.pc = step]
           /\ call'[p].pc = step /\ call'[p].name = call[p].name
           /\ call'[p].loop = call[p].loop /\ call'[p].num = call[p].num
           /\ call'[p].mapped = call[p].mapped /\ call'[p].flags = call[p].flags
    <1> DEFINE d == [call[p] EXCEPT !.pc = step]
    <1>1. call \in CallTypes
      BY DEF MounterInv, TypeOK
    <1>2. d \in [pc : Steps, name : Names \union {None},
                 loop : Loops \union {None}, num : Numbers \union {None},
                 tries : 0..(MaxRetries - 1), mapped : BOOLEAN, flags : Flags \union {{}}]
      BY <1>1 DEF CallTypes
    <1>3. call' = [call EXCEPT ![p] = d]
      BY DEF GoTo
    <1>4. d.pc = step /\ d.name = call[p].name /\ d.loop = call[p].loop /\ d.num = call[p].num
          /\ d.mapped = call[p].mapped /\ d.flags = call[p].flags
      BY <1>1 DEF CallTypes
    <1> HIDE DEF d
    <1>5. Moves(p, call, call') /\ call'[p] = d
      BY <1>1, <1>2, <1>3, CallAssigned
    <1> QED
      BY <1>4, <1>5 DEF d

LEMMA RestKept ==
    ASSUME MounterInv, UNCHANGED <<nodes, users, semaphores, object>>, NEW p \in Processes,
           Moves(p, call, call'),
           call[p].pc \in {"wait", "crashed"} => call'[p].pc \in {"wait", "crashed"},
           call'[p].pc \in {"getFreeLoop", "setFd", "setStatus", "create"} => call'[p].name \in Names
    PROVE  Rest'
    <1>1. \A q \in Processes : q # p => call'[q] = call[q]
      BY DEF Moves
    <1>2. SemaphoresReclaimed'
      BY <1>1 DEF MounterInv, SemaphoresReclaimed
    <1>3. Named'
      BY <1>1 DEF MounterInv, Named
    <1> QED
      BY <1>2, <1>3 DEF MounterInv, TypeOK, Rest

-------------------------------------------------------------------------------
(* One lemma per step of mount(), of the client and of the environment.        *)

LEMMA BeginMountKeeps ==
    ASSUME MounterInv, NEW p \in Processes, BeginMount(p) PROVE MounterInv'
    <1>1. CASE GoTo(p, "failed")
      <2>1. /\ Moves(p, call, call') /\ call'[p].pc = "failed" /\ call[p].pc = "idle"
        BY <1>1, GoesTo DEF BeginMount, Steps
      <2>2. Holds(call[p], call'[p]) /\ ~Owns(call[p])
        BY <2>1 DEF Holds, Opening, Attached, Before, Owns, Loaded, Active, Ready
      <2>3. Rest' /\ KernelUnchanged
        BY <2>1, RestKept DEF BeginMount, KernelUnchanged
      <2> QED
        BY <2>1, <2>2, <2>3, CallStepKeeps
    <1>2. ASSUME NEW n \in FreeNames, NEW flags \in Flags,
                 call' = [call EXCEPT ![p].pc = "getFreeLoop", ![p].name = n, ![p].flags = flags]
          PROVE  MounterInv'
      <2> DEFINE d == [call[p] EXCEPT !.pc = "getFreeLoop", !.name = n, !.flags = flags]
      <2>1. call \in CallTypes /\ call[p].pc = "idle"
        BY DEF MounterInv, TypeOK, BeginMount
      <2>2. d \in [pc : Steps, name : Names \union {None},
                   loop : Loops \union {None}, num : Numbers \union {None},
                   tries : 0..(MaxRetries - 1), mapped : BOOLEAN, flags : Flags \union {{}}]
        BY ZenonT(40), <2>1 DEF CallTypes, FreeNames, Steps
      <2>3. call' = [call EXCEPT ![p] = d]
        BY <1>2
      <2>4. d.pc = "getFreeLoop" /\ d.name \in Names
        BY <2>1 DEF CallTypes, FreeNames
      <2> HIDE DEF d
      <2>5. Moves(p, call, call') /\ call'[p].pc = "getFreeLoop" /\ call'[p].name \in Names
        BY <2>1, <2>2, <2>3, <2>4, CallAssigned
      <2>6. Holds(call[p], call'[p]) /\ ~Owns(call[p])
        BY <2>1, <2>5 DEF Holds, Opening, Attached, Before, Owns, Loaded, Active, Ready
      <2>7. Rest' /\ KernelUnchanged
        BY <2>1, <2>5, RestKept DEF BeginMount, KernelUnchanged
      <2> QED
        BY <2>5, <2>6, <2>7, CallStepKeeps
    <1> QED
      BY <1>1, <1>2 DEF BeginMount

\* mapWithVerity() has failed: the call goes on to close the loop device.
LEMMA MappingFails ==
    ASSUME NEW p \in Processes, MounterInv, FailMapping(p)
    PROVE  /\ Moves(p, call, call')
           /\ call'[p].pc = "closeLoop" /\ call'[p].mapped = FALSE
           /\ call'[p].name = call[p].name /\ call'[p].loop = call[p].loop
           /\ call'[p].num = call[p].num /\ call'[p].flags = call[p].flags
    <1> DEFINE d == [call[p] EXCEPT !.pc = "closeLoop", !.mapped = FALSE]
    <1>1. call \in CallTypes
      BY DEF MounterInv, TypeOK
    <1>2. d \in [pc : Steps, name : Names \union {None},
                 loop : Loops \union {None}, num : Numbers \union {None},
                 tries : 0..(MaxRetries - 1), mapped : BOOLEAN, flags : Flags \union {{}}]
      BY ZenonT(40), <1>1 DEF CallTypes, Steps
    <1>3. call' = [call EXCEPT ![p] = d]
      BY DEF FailMapping
    <1>4. d.pc = "closeLoop" /\ d.mapped = FALSE /\ d.name = call[p].name
          /\ d.loop = call[p].loop /\ d.num = call[p].num /\ d.flags = call[p].flags
      BY <1>1 DEF CallTypes
    <1> HIDE DEF d
    <1>5. Moves(p, call, call') /\ call'[p] = d
      BY <1>1, <1>2, <1>3, CallAssigned
    <1> QED
      BY <1>4, <1>5

LEMMA CreateFailsKeeps ==
    ASSUME MounterInv, NEW p \in Processes, call[p].pc = "create", FailMapping(p),
           KernelUnchanged, UNCHANGED <<nodes, semaphores, object>>
    PROVE  MounterInv'
    <1>1. /\ Moves(p, call, call')
          /\ call'[p].pc = "closeLoop" /\ call'[p].mapped = FALSE /\ call'[p].loop = call[p].loop
      BY MappingFails
    <1>2. Holds(call[p], call'[p]) /\ ~Owns(call[p])
      BY <1>1 DEF Holds, Opening, Attached, Before, Owns, Loaded, Active, Ready
    <1>3. Rest'
      BY <1>1, RestKept DEF KernelUnchanged
    <1> QED
      BY <1>1, <1>2, <1>3, CallStepKeeps

LEMMA WaitUdevKeeps ==
    ASSUME MounterInv, NEW p \in Processes, WaitUdev(p) PROVE MounterInv'
    <1>1. /\ Moves(p, call, call') /\ call[p].pc = "wait" /\ call'[p].pc = "findNode"
          /\ call'[p].name = call[p].name /\ call'[p].loop = call[p].loop
          /\ call'[p].num = call[p].num /\ call'[p].flags = call[p].flags
      BY GoesTo DEF WaitUdev, Steps
    <1>2. Holds(call[p], call'[p]) /\ Owns(call'[p])
      BY <1>1 DEF Holds, Opening, Attached, Before, Owns, Loaded, Active, Ready
    <1>3. Rest'
      <2>1. \A q \in Processes : q # p => call'[q] = call[q] /\ semaphores'[q] = semaphores[q]
        BY <1>1 DEF Moves, WaitUdev, MounterInv, TypeOK
      <2>2. semaphores'[p] = None /\ semaphores' \in [Processes -> {None, "zero", "one"}]
        BY DEF WaitUdev, MounterInv, TypeOK
      <2>3. SemaphoresReclaimed' /\ Named'
        BY <1>1, <2>1, <2>2 DEF MounterInv, SemaphoresReclaimed, Named
      <2> QED
        BY <2>2, <2>3 DEF WaitUdev, KernelUnchanged, MounterInv, TypeOK, Rest
    <1> QED
      BY <1>1, <1>2, <1>3, CallStepKeeps DEF WaitUdev

LEMMA CheckStatusKeeps ==
    ASSUME MounterInv, NEW p \in Processes, CheckStatus(p) PROVE MounterInv'
    <1>1. PICK step \in {"deferredRemove", "forceUnmount"} : GoTo(p, step)
      BY DEF CheckStatus
    <1>2. /\ Moves(p, call, call') /\ call[p].pc = "status" /\ call'[p].pc = step
          /\ call'[p].name = call[p].name /\ call'[p].loop = call[p].loop
          /\ call'[p].num = call[p].num /\ call'[p].flags = call[p].flags
      BY <1>1, GoesTo DEF CheckStatus, Steps
    <1>3. Holds(call[p], call'[p]) /\ Owns(call'[p])
      BY <1>2 DEF Holds, Opening, Attached, Before, Owns, Loaded, Active, Ready
    <1>4. Rest'
      BY <1>2, RestKept DEF CheckStatus, KernelUnchanged
    <1> QED
      BY <1>2, <1>3, <1>4, CallStepKeeps DEF CheckStatus

-------------------------------------------------------------------------------
(* Steps on the loop devices.                                                  *)

\* Loop devices that keep their image, their mark and their openers.
LEMMA LoopsRelax ==
    ASSUME NEW lps \in LoopTypes, NEW lps2 \in LoopTypes, NEW devs, DeviceMap(devs), NEW mnts,
           NEW cal \in CallTypes, Core(lps, devs, mnts, cal),
           \A l \in Loops : /\ lps2[l].image = lps[l].image
                            /\ lps[l].autoclear => lps2[l].autoclear
                            /\ \A q \in Processes : cal[q].pc \in Opening /\ q \in lps[l].openers
                                                    => q \in lps2[l].openers
    PROVE  Core(lps2, devs, mnts, cal)
    <1>1. CallsOpen(lps2, cal)
      BY DEF Core, CallsOpen, CallOpens, Attached
    <1>2. Unmarked(lps2, cal)
      BY DEF Core, Unmarked
    <1>3. OverOwnImage(lps2, devs)
      BY DEF Core, OverOwnImage, DeviceMap, DeviceRecords
    <1>4. MountsOwn(lps2, devs, mnts)
      BY DEF Core, MountsOwn
    <1> QED
      BY <1>1, <1>2, <1>3, <1>4 DEF Core

\* A call that has no mapped device yet, and gets none.
LEMMA BeforeDevice ==
    ASSUME NEW lps, NEW devs, DeviceMap(devs), NEW mnts, NEW cal, NEW cal2,
           NEW p \in Processes, Moves(p, cal, cal2), Core(lps, devs, mnts, cal),
           cal[p].pc \in Before, ~Owns(cal2[p])
    PROVE  CallsOwn(devs, cal2) /\ DevicesOwned(devs, cal2)
    <1>1. \A q \in Processes : q # p => cal2[q] = cal[q]
      BY DEF Moves
    <1>2. CallsOwn(devs, cal2)
      <2> SUFFICES ASSUME NEW q \in Processes
                   PROVE  CallOwns(devs, cal2[q], q)
        BY DEF CallsOwn, CallOwns
      <2>1. CASE q = p
        BY <2>1 DEF CallOwns, Owns, Loaded
      <2>2. CASE q # p
        BY <2>2, <1>1 DEF Core, CallsOwn, CallOwns
      <2> QED
        BY <2>1, <2>2
    <1>3. \A n \in DOMAIN devs : devs[n].owner # p /\ devs[n].owner \in Processes
      BY DEF Core, DevicesOwned, DeviceOwned, DeviceMap, DeviceRecords
    <1>4. DevicesOwned(devs, cal2)
      <2>1. \A n \in DOMAIN devs : cal2[devs[n].owner] = cal[devs[n].owner]
        BY <1>1, <1>3
      <2> QED
        BY <2>1 DEF Core, DevicesOwned, DeviceOwned
    <1> QED
      BY <1>2, <1>4

LEMMA GetFreeLoopKeeps ==
    ASSUME MounterInv, NEW p \in Processes, GetFreeLoop(p) PROVE MounterInv'
    <1>1. CASE GoTo(p, "failed") /\ UNCHANGED loops
      <2>1. /\ Moves(p, call, call') /\ call'[p].pc = "failed" /\ call[p].pc = "getFreeLoop"
        BY <1>1, GoesTo DEF GetFreeLoop, Steps
      <2>2. Holds(call[p], call'[p]) /\ ~Owns(call[p])
        BY <2>1 DEF Holds, Opening, Attached, Before, Owns, Loaded, Active, Ready
      <2>3. Rest' /\ KernelUnchanged
        BY <1>1, <2>1, RestKept DEF GetFreeLoop, KernelUnchanged
      <2> QED
        BY <2>1, <2>2, <2>3, CallStepKeeps
    <1>2. ASSUME NEW l \in Loops,
                 call' = [call EXCEPT ![p].pc = "setFd", ![p].loop = l],
                 loops' = [loops EXCEPT ![l].openers = @ \union {p}]
          PROVE  MounterInv'
      <2> DEFINE d == [call[p] EXCEPT !.pc = "setFd", !.loop = l]
      <2>1. /\ call \in CallTypes /\ call[p].pc = "getFreeLoop" /\ loops \in LoopTypes
            /\ DeviceMap(devices) /\ Core(loops, devices, mounts, call) /\ call[p].name \in Names
        BY DEF MounterInv, TypeOK, GetFreeLoop, DeviceMap, Named
      <2>2. d \in [pc : Steps, name : Names \union {None},
                   loop : Loops \union {None}, num : Numbers \union {None},
                   tries : 0..(MaxRetries - 1), mapped : BOOLEAN, flags : Flags \union {{}}]
        BY ZenonT(40), <2>1 DEF CallTypes, Steps
      <2>3. call' = [call EXCEPT ![p] = d] /\ d.pc = "setFd" /\ d.loop = l /\ d.name \in Names
        BY <1>2, <2>1 DEF CallTypes
      <2> HIDE DEF d
      <2>4. /\ Moves(p, call, call') /\ call'[p].pc = "setFd" /\ call'[p].loop = l
            /\ call'[p].name \in Names
        BY <2>1, <2>2, <2>3, CallAssigned
      <2>5. \A q \in Processes : q # p => call'[q] = call[q]
        BY <2>4 DEF Moves
      <2>6. loops' \in LoopTypes
        BY <1>2, <2>1 DEF LoopTypes
      <2>7. \A k \in Loops : /\ loops'[k].image = loops[k].image
                             /\ loops'[k].autoclear = loops[k].autoclear
                             /\ loops[k].openers \subseteq loops'[k].openers
        BY <1>2, <2>1 DEF LoopTypes
      <2>8. p \in loops'[l].openers
        BY <1>2, <2>1 DEF LoopTypes
      <2>9. CallsOpen(loops', call')
        BY <2>1, <2>4, <2>5, <2>7, <2>8 DEF Core, CallsOpen, CallOpens, Opening, Attached
      <2>10. Unmarked(loops', call')
        BY <2>1, <2>5, <2>7 DEF Core, Unmarked, LoopTypes
      <2>11. CallsOwn(devices, call') /\ DevicesOwned(devices, call')
        BY <2>1, <2>4, BeforeDevice DEF Before, Owns, Loaded, Active, Ready
      <2>12. OverOwnImage(loops', devices) /\ MountsOwn(loops', devices, mounts)
        BY <2>1, <2>7 DEF Core, OverOwnImage, MountsOwn, DeviceMap, DeviceRecords
      <2>13. Core(loops', devices, mounts, call')
        BY <2>1, <2>9, <2>10, <2>11, <2>12 DEF Core
      <2>14. Reclaimed(loops', devices, call')
        BY <2>1, <2>5, <2>7 DEF MounterInv, Reclaimed, LoopTypes
      <2>15. Rest' /\ UNCHANGED <<devices, mounts, events>>
        BY <2>1, <2>4, RestKept DEF GetFreeLoop
      <2> QED
        BY <2>1, <2>4, <2>6, <2>13, <2>14, <2>15, InvNext DEF MounterInv, TypeOK, Moves
    <1> QED
      BY <1>1, <1>2 DEF GetFreeLoop

\* The call closes its loop device, or dies: it is no longer among the openers.
LEMMA LetGo ==
    ASSUME MounterInv, NEW p \in Processes, Moves(p, call, call'), Rest',
           NEW lps \in LoopTypes, Core(lps, devices, mounts, call'),
           call'[p].pc \notin Opening,
           NEW lps2 \in LoopTypes, Kernel(lps2, devices, mounts, events),
           \A k \in Loops : /\ lps2[k].image = lps[k].image
                            /\ lps2[k].autoclear = lps[k].autoclear
                            /\ lps[k].openers \subseteq lps2[k].openers \union {p}
    PROVE  MounterInv'
    <1>1. DeviceMap(devices) /\ mounts \in MountTypes /\ events \in EventTypes /\ call' \in CallTypes
      BY DEF MounterInv, TypeOK, DeviceMap, Moves
    <1>2. Core(lps2, devices, mounts, call')
      BY <1>1, LoopsRelax
    <1> QED
      BY <1>1, <1>2, ByKernel

LEMMA WithoutOpenerType ==
    ASSUME NEW l \in Loops, NEW p \in Processes, loops \in LoopTypes
    PROVE  /\ WithoutOpener(l, p) \in LoopTypes
           /\ \A k \in Loops :
                 /\ WithoutOpener(l, p)[k].image = loops[k].image
                 /\ WithoutOpener(l, p)[k].autoclear = loops[k].autoclear
                 /\ loops[k].openers \subseteq WithoutOpener(l, p)[k].openers \union {p}
    BY DEF WithoutOpener, LoopTypes

LEMMA SetFdKeeps ==
    ASSUME MounterInv, NEW p \in Processes, SetFd(p) PROVE MounterInv'
    <1> DEFINE l == call[p].loop
    <1>1. /\ call \in CallTypes /\ call[p].pc = "setFd" /\ loops \in LoopTypes
          /\ DeviceMap(devices) /\ Core(loops, devices, mounts, call) /\ call[p].name \in Names
      BY DEF MounterInv, TypeOK, SetFd, DeviceMap, Named
    <1>2. l \in Loops /\ p \in loops[l].openers
      BY <1>1 DEF Core, CallsOpen, CallOpens, Opening
    <1>3. /\ WithoutOpener(l, p) \in LoopTypes
          /\ \A k \in Loops :
                 /\ WithoutOpener(l, p)[k].image = loops[k].image
                 /\ WithoutOpener(l, p)[k].autoclear = loops[k].autoclear
                 /\ loops[k].openers \subseteq WithoutOpener(l, p)[k].openers \union {p}
      BY <1>1, <1>2, WithoutOpenerType
    <1>4. CASE /\ loops[l].image = None
               /\ loops' = [loops EXCEPT ![l].image = p]
               /\ GoTo(p, "setStatus")
               /\ UNCHANGED <<devices, events, mounts, users>>
      <2>1. /\ Moves(p, call, call') /\ call'[p].pc = "setStatus" /\ call'[p].loop = l
            /\ call'[p].name = call[p].name
        BY <1>4, GoesTo DEF Steps
      <2>2. \A q \in Processes : q # p => call'[q] = call[q]
        BY <2>1 DEF Moves
      <2>3. loops' \in LoopTypes
        BY ZenonT(40), <1>1, <1>4 DEF LoopTypes
      <2>4. /\ \A k \in Loops : k # l => loops'[k] = loops[k]
            /\ loops'[l].image = p /\ loops'[l].autoclear = loops[l].autoclear
            /\ loops'[l].openers = loops[l].openers
        BY <1>1, <1>2, <1>4 DEF LoopTypes
      <2>5. p # None /\ \A q \in Processes : q # None
        BY MounterAssumption DEF None
      <2> HIDE DEF l
      <2>6. CallsOpen(loops', call')
        <3> SUFFICES ASSUME NEW q \in Processes
                     PROVE  CallOpens(loops', call'[q], q)
          BY DEF CallsOpen, CallOpens
        <3>1. CASE q = p
          BY <3>1, <1>2, <2>1, <2>4 DEF CallOpens
        <3>2. CASE q # p
          <4>1. call'[q].pc \in Opening => call[q].loop \in Loops /\ q \in loops[call[q].loop].openers
            BY <3>2, <2>2, <1>1 DEF Core, CallsOpen, CallOpens
          <4>2. call'[q].pc \in Attached => loops[call[q].loop].image = q /\ call[q].loop # l
            BY <3>2, <2>2, <2>5, <1>1, <1>4 DEF Core, CallsOpen, CallOpens
          <4> QED
            BY <3>2, <4>1, <4>2, <2>2, <2>4 DEF CallOpens, Attached
        <3> QED
          BY <3>1, <3>2
      <2>7. Unmarked(loops', call')
        <3> SUFFICES ASSUME NEW k \in Loops, loops'[k].image # None, ~loops'[k].autoclear
                     PROVE  \/ call'[loops'[k].image].pc = "crashed"
                            \/ call'[loops'[k].image].pc = "setStatus" /\ call'[loops'[k].image].loop = k
          BY DEF Unmarked
        <3>1. CASE k = l
          BY <3>1, <2>1, <2>4
        <3>2. CASE k # l
          <4>1. loops'[k] = loops[k] /\ loops[k].image \in Processes
            BY <3>2, <2>4, <1>1 DEF LoopTypes
          <4>2. loops[k].image # p
            BY <4>1, <1>1 DEF Core, Unmarked
          <4> QED
            BY <4>1, <4>2, <2>2, <1>1 DEF Core, Unmarked
        <3> QED
          BY <3>1, <3>2
      <2>8. \A n \in DOMAIN devices : devices[n].loop \in Loops =>
               devices[n].loop # l /\ loops'[devices[n].loop] = loops[devices[n].loop]
        <3> SUFFICES ASSUME NEW n \in DOMAIN devices, devices[n].loop \in Loops
                     PROVE  devices[n].loop # l
          BY <2>4
        <3>1. devices[n].loop # None /\ devices[n].owner \in Processes
          BY <1>1, MounterAssumption DEF DeviceMap, DeviceRecords, None
        <3>2. loops[devices[n].loop].image = devices[n].owner
          BY <3>1, <1>1 DEF Core, OverOwnImage
        <3> QED
          BY <3>1, <3>2, <2>5, <1>4
      <2>9. OverOwnImage(loops', devices) /\ MountsOwn(loops', devices, mounts)
        BY <1>1, <2>8 DEF Core, OverOwnImage, MountsOwn, DeviceMap, DeviceRecords
      <2>10. CallsOwn(devices, call') /\ DevicesOwned(devices, call')
        BY <1>1, <2>1, BeforeDevice DEF Before, Owns, Loaded, Active, Ready
      <2>11. Core(loops', devices, mounts, call')
        BY <1>1, <2>6, <2>7, <2>9, <2>10 DEF Core
      <2>12. Reclaimed(loops', devices, call')
        <3> SUFFICES ASSUME NEW k \in Loops, loops'[k].image # None
                     PROVE  \/ loops'[k].openers # {}
                            \/ \E n \in DOMAIN devices : devices[n].loop = k
                            \/ ~loops'[k].autoclear /\ call'[loops'[k].image].pc = "crashed"
          BY DEF Reclaimed
        <3>1. CASE k = l
          BY <3>1, <2>4, <1>2
        <3>2. CASE k # l
          <4>1. loops'[k] = loops[k] /\ loops[k].image \in Processes
            BY <3>2, <2>4, <1>1 DEF LoopTypes
          <4> QED
            BY <4>1, <2>2, <1>1 DEF MounterInv, Reclaimed
        <3> QED
          BY <3>1, <3>2
      <2>13. Rest'
        BY <1>1, <1>4, <2>1, RestKept DEF SetFd
      <2> QED
        BY <1>1, <1>4, <2>1, <2>3, <2>11, <2>12, <2>13, InvNext DEF MounterInv, TypeOK, Moves
    <1>5. CASE /\ Kernel(WithoutOpener(l, p), devices, mounts, events)
               /\ call' = [call EXCEPT ![p].pc = "getFreeLoop", ![p].loop = None]
      <2> DEFINE d == [call[p] EXCEPT !.pc = "getFreeLoop", !.loop = None]
      <2>1. d \in [pc : Steps, name : Names \union {None},
                   loop : Loops \union {None}, num : Numbers \union {None},
                   tries : 0..(MaxRetries - 1), mapped : BOOLEAN, flags : Flags \union {{}}]
        BY ZenonT(40), <1>1 DEF CallTypes, Steps
      <2>2. call' = [call EXCEPT ![p] = d] /\ d.pc = "getFreeLoop" /\ d.name = call[p].name
        BY <1>1, <1>5 DEF CallTypes
      <2> HIDE DEF d
      <2>3. Moves(p, call, call') /\ call'[p].pc = "getFreeLoop" /\ call'[p].name = call[p].name
        BY <1>1, <2>1, <2>2, CallAssigned
      <2>4. Holds(call[p], call'[p]) /\ ~Owns(call[p])
        BY <1>1, <2>3 DEF Holds, Opening, Attached, Before, Owns, Loaded, Active, Ready
      <2>5. Core(loops, devices, mounts, call')
        BY <2>3, <2>4, CallHolds
      <2>6. Rest'
        BY <1>1, <1>5, <2>3, RestKept DEF SetFd, Kernel
      <2>7. call'[p].pc \notin Opening
        BY <2>3 DEF Opening
      <2> HIDE DEF l
      <2> QED
        BY <1>1, <1>3, <1>5, <2>3, <2>5, <2>6, <2>7, LetGo
    <1>6. CASE /\ Kernel(WithoutOpener(l, p), devices, mounts, events)
               /\ GoTo(p, "failed")
      <2>1. Moves(p, call, call') /\ call'[p].pc = "failed"
        BY <1>6, GoesTo DEF Steps
      <2>2. Holds(call[p], call'[p]) /\ ~Owns(call[p])
        BY <1>1, <2>1 DEF Holds, Opening, Attached, Before, Owns, Loaded, Active, Ready
      <2>3. Core(loops, devices, mounts, call')
        BY <2>1, <2>2, CallHolds
      <2>4. Rest'
        BY <1>1, <1>6, <2>1, RestKept DEF SetFd, Kernel
      <2>5. call'[p].pc \notin Opening
        BY <2>1 DEF Opening
      <2> HIDE DEF l
      <2> QED
        BY <1>1, <1>3, <1>6, <2>1, <2>3, <2>4, <2>5, LetGo
    <1> QED
      BY <1>4, <1>5, <1>6 DEF SetFd

LEMMA CloseLoopKeeps ==
    ASSUME MounterInv, NEW p \in Processes, CloseLoop(p) PROVE MounterInv'
    <1> DEFINE l == call[p].loop
               d == [call[p] EXCEPT !.pc = IF call[p].mapped THEN "mount" ELSE "failed",
                                    !.loop = None, !.tries = 0]
    <1>1. /\ call \in CallTypes /\ call[p].pc = "closeLoop" /\ loops \in LoopTypes
          /\ Core(loops, devices, mounts, call)
      BY DEF MounterInv, TypeOK, CloseLoop
    <1>2. l \in Loops
      BY <1>1 DEF Core, CallsOpen, CallOpens, Opening
    <1>3. d \in [pc : Steps, name : Names \union {None},
                 loop : Loops \union {None}, num : Numbers \union {None},
                 tries : 0..(MaxRetries - 1), mapped : BOOLEAN, flags : Flags \union {{}}]
      <2>1. 0 \in 0..(MaxRetries - 1)
        BY MounterAssumption
      <2>2. (IF call[p].mapped THEN "mount" ELSE "failed") \in Steps
        BY DEF Steps
      <2> QED
        BY <1>1, <2>1, <2>2 DEF CallTypes
    <1>4. /\ call' = [call EXCEPT ![p] = d]
          /\ d.pc = IF call[p].mapped THEN "mount" ELSE "failed"
          /\ d.name = call[p].name /\ d.num = call[p].num /\ d.flags = call[p].flags
      BY <1>1 DEF CloseLoop, CallTypes
    <1> HIDE DEF d
    <1>5. Moves(p, call, call') /\ call'[p] = d
      BY <1>1, <1>3, <1>4, CallAssigned
    <1>6. Holds(call[p], call'[p]) /\ (Owns(call[p]) => Owns(call'[p])) /\ call'[p].pc \notin Opening
      BY <1>1, <1>4, <1>5 DEF Holds, Opening, Attached, Before, Owns, Loaded, Active, Ready
    <1>7. Core(loops, devices, mounts, call')
      BY <1>5, <1>6, CallHolds
    <1>8. Rest'
      <2>1. call'[p].pc \in {"mount", "failed"}
        BY <1>4, <1>5
      <2> QED
        BY <1>1, <1>5, <2>1, RestKept DEF CloseLoop, Kernel
    <1>9. Kernel(WithoutOpener(l, p), devices, mounts, events)
      BY DEF CloseLoop
    <1> HIDE DEF l
    <1>10. /\ WithoutOpener(l, p) \in LoopTypes
           /\ \A k \in Loops :
                 /\ WithoutOpener(l, p)[k].image = loops[k].image
                 /\ WithoutOpener(l, p)[k].autoclear = loops[k].autoclear
                 /\ loops[k].openers \subseteq WithoutOpener(l, p)[k].openers \union {p}
      BY <1>1, <1>2, WithoutOpenerType
    <1> QED
      BY <1>1, <1>5, <1>6, <1>7, <1>8, <1>9, <1>10, LetGo

LEMMA CrashKeeps ==
    ASSUME MounterInv, NEW p \in Processes, Crash(p) PROVE MounterInv'
    <1> DEFINE lps == [l \in Loops |-> [loops[l] EXCEPT !.openers = @ \ {p}]]
    <1>1. /\ loops \in LoopTypes
          /\ call[p].pc \notin {"idle", "failed", "gone", "crashed"}
      BY DEF MounterInv, TypeOK, Crash, InCall, Final
    <1>2. /\ lps \in LoopTypes
          /\ \A k \in Loops : /\ lps[k].image = loops[k].image
                              /\ lps[k].autoclear = loops[k].autoclear
                              /\ loops[k].openers \subseteq lps[k].openers \union {p}
      BY <1>1 DEF LoopTypes
    <1>3. /\ Moves(p, call, call') /\ call'[p].pc = "crashed" /\ call'[p].name = call[p].name
          /\ call'[p].flags = call[p].flags
      BY GoesTo DEF Crash, Steps
    <1>4. Holds(call[p], call'[p]) /\ call'[p].pc \notin Opening
      BY <1>3 DEF Holds, Opening, Attached, Before, Owns, Loaded, Active, Ready
    <1>5. Core(loops, devices, mounts, call')
      BY <1>3, <1>4, CallHolds
    <1>6. Rest'
      BY <1>3, RestKept DEF Crash, Kernel
    <1>7. Kernel(lps, devices, mounts, events)
      BY DEF Crash
    <1> HIDE DEF lps
    <1> QED
      BY <1>1, <1>2, <1>3, <1>4, <1>5, <1>6, <1>7, LetGo

LEMMA SetStatusKeeps ==
    ASSUME MounterInv, NEW p \in Processes, SetStatus(p) PROVE MounterInv'
    <1> DEFINE l == call[p].loop
               marked == [loops EXCEPT ![l].autoclear = TRUE]
               closed == [marked EXCEPT ![l].openers = @ \ {p}]
    <1>1. /\ call \in CallTypes /\ call[p].pc = "setStatus" /\ loops \in LoopTypes
          /\ DeviceMap(devices) /\ Core(loops, devices, mounts, call) /\ call[p].name \in Names
      BY DEF MounterInv, TypeOK, SetStatus, DeviceMap, Named
    <1>2. l \in Loops /\ p \in loops[l].openers /\ p # None
      BY <1>1, MounterAssumption DEF Core, CallsOpen, CallOpens, Opening, None
    <1>3. /\ marked \in LoopTypes /\ marked[l].autoclear
          /\ \A k \in Loops : /\ marked[k].image = loops[k].image
                              /\ marked[k].openers = loops[k].openers
                              /\ loops[k].autoclear => marked[k].autoclear
                              /\ k # l => marked[k] = loops[k]
      BY <1>1, <1>2 DEF LoopTypes
    <1>4. /\ closed \in LoopTypes
          /\ \A k \in Loops : /\ closed[k].image = marked[k].image
                              /\ closed[k].autoclear = marked[k].autoclear
                              /\ marked[k].openers \subseteq closed[k].openers \union {p}
      <2> HIDE DEF marked, l
      <2> QED
        BY <1>2, <1>3 DEF LoopTypes
    <1>5. \/ loops' = marked /\ GoTo(p, "create") /\ UNCHANGED <<devices, events, mounts, users>>
          \/ Kernel(closed, devices, mounts, events) /\ GoTo(p, "failed")
      BY DEF SetStatus
    <1> HIDE DEF marked, closed, l
    <1>6. Core(marked, devices, mounts, call)
      BY <1>1, <1>3, LoopsRelax
    <1>7. \A k \in Loops : marked[k].image = p => marked[k].autoclear
      <2> SUFFICES ASSUME NEW k \in Loops, marked[k].image = p, ~marked[k].autoclear PROVE FALSE
        OBVIOUS
      <2>1. loops[k].image = p /\ ~loops[k].autoclear /\ k # l
        BY <1>3
      <2> QED
        BY <2>1, <1>1, <1>2 DEF Core, Unmarked, l
    <1>8. \A n \in DOMAIN devices : devices[n].owner # p
      BY <1>1 DEF Core, DevicesOwned, DeviceOwned, Before
    <1>9. ASSUME GoTo(p, "create") \/ GoTo(p, "failed")
          PROVE  /\ Moves(p, call, call') /\ call'[p].pc \in {"create", "failed"}
                 /\ Core(marked, devices, mounts, call')
      <2>1. PICK step \in {"create", "failed"} : GoTo(p, step)
        BY <1>9
      <2>2. Moves(p, call, call') /\ call'[p].pc = step /\ call'[p].loop = call[p].loop
        BY <2>1, GoesTo DEF Steps
      <2>3. /\ ~Owns(call'[p]) /\ ~Loaded(call'[p]) /\ ~Active(call'[p])
            /\ call[p].pc \in Opening /\ call[p].pc \in Attached
        BY <1>1, <2>2 DEF Opening, Attached, Owns, Loaded, Active, Ready
      <2> QED
        BY <1>1, <1>3, <1>6, <1>7, <1>8, <2>2, <2>3, CallKeeps
    <1>10. CASE loops' = marked /\ GoTo(p, "create") /\ UNCHANGED <<devices, events, mounts, users>>
      <2>1. /\ Moves(p, call, call') /\ Core(marked, devices, mounts, call')
            /\ call'[p].pc = "create" /\ call'[p].name = call[p].name
        BY <1>9, <1>10, GoesTo DEF Steps
      <2>2. \A q \in Processes : q # p => call'[q] = call[q]
        BY <2>1 DEF Moves
      <2>3. Reclaimed(marked, devices, call')
        <3> SUFFICES ASSUME NEW k \in Loops, marked[k].image # None
                     PROVE  \/ marked[k].openers # {}
                            \/ \E n \in DOMAIN devices : devices[n].loop = k
                            \/ ~marked[k].autoclear /\ call'[marked[k].image].pc = "crashed"
          BY DEF Reclaimed
        <3>1. CASE k = l
          BY <3>1, <1>2, <1>3
        <3>2. CASE k # l
          <4>1. marked[k] = loops[k] /\ loops[k].image \in Processes
            BY <3>2, <1>1, <1>3 DEF LoopTypes
          <4> QED
            BY <4>1, <2>2, <1>1 DEF MounterInv, Reclaimed
        <3> QED
          BY <3>1, <3>2
      <2>4. Rest'
        BY <1>1, <1>10, <2>1, RestKept DEF SetStatus
      <2> QED
        BY <1>1, <1>3, <1>10, <2>1, <2>3, <2>4, InvNext DEF MounterInv, TypeOK, Moves
    <1>11. CASE Kernel(closed, devices, mounts, events) /\ GoTo(p, "failed")
      <2>1. /\ Moves(p, call, call') /\ Core(marked, devices, mounts, call')
            /\ call'[p].pc = "failed"
        BY <1>9, <1>11, GoesTo DEF Steps
      <2>2. Rest'
        BY <1>1, <1>11, <2>1, RestKept DEF SetStatus, Kernel
      <2>3. call'[p].pc \notin Opening
        BY <2>1 DEF Opening
      <2> QED
        BY <1>3, <1>4, <1>11, <2>1, <2>2, <2>3, LetGo
    <1> QED
      BY <1>5, <1>10, <1>11

-------------------------------------------------------------------------------
(* Steps on the mapped devices.                                                *)

\* A mapped device after an assignment to some of its fields.
LEMMA DeviceAssigned ==
    ASSUME NEW devs, DeviceMap(devs), NEW n \in DOMAIN devs, NEW r \in DeviceRecords
    PROVE  LET devs2 == [devs EXCEPT ![n] = r]
           IN  /\ DOMAIN devs2 = DOMAIN devs /\ DeviceMap(devs2) /\ devs2[n] = r
               /\ \A m \in DOMAIN devs : m # n => devs2[m] = devs[m]
    BY DEF DeviceMap

\* removeDevice() takes away the device of the call, or leaves it marked or refused.
LEMMA RemoveOwnDevice ==
    ASSUME MounterInv, NEW p \in Processes, Moves(p, call, call'), Owns(call[p]),
           ~Owns(call'[p]), call'[p].pc \notin Before,
           call'[p].name = call[p].name, call'[p].flags = call[p].flags,
           call'[p].pc \in Opening => call[p].pc \in Opening /\ call'[p].loop = call[p].loop,
           NEW deferred \in BOOLEAN
    PROVE  /\ DeviceMap(RemoveDevice(call[p].name, deferred))
           /\ Core(loops, RemoveDevice(call[p].name, deferred), mounts, call')
    <1> DEFINE n == call[p].name
               devs == RemoveDevice(n, deferred)
    <1>1. /\ loops \in LoopTypes /\ DeviceMap(devices) /\ call \in CallTypes
          /\ Core(loops, devices, mounts, call)
      BY DEF MounterInv, TypeOK, DeviceMap
    <1>2. n \in DOMAIN devices /\ devices[n].owner = p /\ ~devices[n].deferred
      BY <1>1 DEF Core, CallsOwn, CallOwns
    <1>3. /\ DOMAIN devs \subseteq DOMAIN devices
          /\ \A m \in DOMAIN devices : m # n => m \in DOMAIN devs /\ devs[m] = devices[m]
          /\ n \in DOMAIN devs =>
               /\ devs[n].num = devices[n].num /\ devs[n].owner = p
               /\ devs[n].loop = devices[n].loop /\ devs[n].active = devices[n].active
               /\ devs[n].refused \/ devs[n].deferred
          /\ n \notin DOMAIN devs => ~InUse(devices[n].num, mounts, events)
          /\ DeviceMap(devs)
      <2>1. CASE ~InUse(devices[n].num, mounts, events)
        BY <2>1, <1>1, <1>2 DEF RemoveDevice, Restrict, DeviceMap
      <2>2. CASE InUse(devices[n].num, mounts, events) /\ deferred
        <3> DEFINE r == [devices[n] EXCEPT !.deferred = TRUE]
        <3>1. devs = [devices EXCEPT ![n] = r]
          BY <2>2, <1>2 DEF RemoveDevice
        <3>2. /\ r \in DeviceRecords /\ r.num = devices[n].num /\ r.owner = devices[n].owner
              /\ r.loop = devices[n].loop /\ r.active = devices[n].active /\ r.deferred
          BY <1>1, <1>2 DEF DeviceMap, DeviceRecords
        <3> HIDE DEF r, n, devs
        <3>3. /\ DOMAIN devs = DOMAIN devices /\ DeviceMap(devs) /\ devs[n] = r
              /\ \A m \in DOMAIN devices : m # n => devs[m] = devices[m]
          BY <3>1, <3>2, <1>1, <1>2, DeviceAssigned
        <3> QED
          BY <3>2, <3>3, <1>2
      <2>3. CASE InUse(devices[n].num, mounts, events) /\ ~deferred
        <3> DEFINE r == [devices[n] EXCEPT !.refused = TRUE]
        <3>1. devs = [devices EXCEPT ![n] = r]
          BY <2>3, <1>2 DEF RemoveDevice
        <3>2. /\ r \in DeviceRecords /\ r.num = devices[n].num /\ r.owner = devices[n].owner
              /\ r.loop = devices[n].loop /\ r.active = devices[n].active /\ r.refused
          BY <1>1, <1>2 DEF DeviceMap, DeviceRecords
        <3> HIDE DEF r, n, devs
        <3>3. /\ DOMAIN devs = DOMAIN devices /\ DeviceMap(devs) /\ devs[n] = r
              /\ \A m \in DOMAIN devices : m # n => devs[m] = devices[m]
          BY <3>1, <3>2, <1>1, <1>2, DeviceAssigned
        <3> QED
          BY <3>2, <3>3, <1>2
      <2> QED
        BY <2>1, <2>2, <2>3
    <1> HIDE DEF devs, n
    <1>4. \A q \in Processes : q # p => call'[q] = call[q]
      BY DEF Moves
    <1>5. Owns(call[p]) => call[p].pc # "setStatus" /\ call[p].pc # "setFd"
      BY DEF Owns, Loaded, Active, Ready
    <1>6. CallsOpen(loops, call')
      <2> SUFFICES ASSUME NEW q \in Processes
                   PROVE  CallOpens(loops, call'[q], q)
        BY DEF CallsOpen, CallOpens
      <2>1. CASE q = p
        BY <2>1, <1>1, <1>5 DEF Core, CallsOpen, CallOpens, Attached
      <2>2. CASE q # p
        BY <2>2, <1>1, <1>4 DEF Core, CallsOpen, CallOpens
      <2> QED
        BY <2>1, <2>2
    <1>7. Unmarked(loops, call')
      <2>1. call[p].pc # "crashed"
        BY DEF Owns, Loaded, Active, Ready
      <2> QED
        BY <1>1, <1>4, <1>5, <2>1 DEF Core, Unmarked, LoopTypes
    <1>8. CallsOwn(devs, call')
      <2> SUFFICES ASSUME NEW q \in Processes
                   PROVE  CallOwns(devs, call'[q], q)
        BY DEF CallsOwn, CallOwns
      <2>1. CASE q = p
        BY <2>1 DEF CallOwns, Owns, Loaded
      <2>2. CASE q # p
        <3>1. call'[q] = call[q] /\ (Loaded(call[q]) \/ Active(call[q]) \/ call[q].pc = "loadTable" => Owns(call[q]))
          BY <2>2, <1>4 DEF Owns, Loaded
        <3>2. Owns(call[q]) => call[q].name \in DOMAIN devices /\ devices[call[q].name].owner = q
          BY <1>1 DEF Core, CallsOwn, CallOwns
        <3>3. Owns(call[q]) => call[q].name # n
          BY <2>2, <3>2, <1>2
        <3>4. Owns(call[q]) => call[q].name \in DOMAIN devs /\ devs[call[q].name] = devices[call[q].name]
          BY <3>2, <3>3, <1>3
        <3> QED
          BY <3>1, <3>4, <1>1 DEF Core, CallsOwn, CallOwns
      <2> QED
        BY <2>1, <2>2
    <1>9. DevicesOwned(devs, call')
      <2> SUFFICES ASSUME NEW m \in DOMAIN devs
                   PROVE  DeviceOwned(m, devs[m], call'[devs[m].owner])
        BY DEF DevicesOwned, DeviceOwned
      <2>1. CASE m = n
        BY <2>1, <1>3 DEF n, DeviceOwned
      <2>2. CASE m # n
        <3>1. devs[m] = devices[m] /\ m \in DOMAIN devices /\ devices[m].owner \in Processes
          BY <2>2, <1>1, <1>3 DEF DeviceMap, DeviceRecords
        <3>2. devices[m].owner # p
          BY <2>2, <3>1, <1>1 DEF Core, DevicesOwned, DeviceOwned, n
        <3>3. call'[devs[m].owner] = call[devices[m].owner]
          BY <3>1, <3>2, <1>4
        <3> QED
          BY <3>1, <3>3, <1>1 DEF Core, DevicesOwned, DeviceOwned
      <2> QED
        BY <2>1, <2>2
    <1>10. DistinctNumbers(devs) /\ OverOwnImage(loops, devs)
      <2>1. \A m \in DOMAIN devs : /\ m \in DOMAIN devices /\ devs[m].num = devices[m].num
                                   /\ devs[m].loop = devices[m].loop
                                   /\ devs[m].owner = devices[m].owner
        BY <1>2, <1>3
      <2> QED
        BY <2>1, <1>1 DEF Core, DistinctNumbers, OverOwnImage
    <1>11. MountsOwn(loops, devs, mounts)
      <2> SUFFICES ASSUME NEW m \in Points, NEW i \in DOMAIN mounts[m]
                   PROVE  \E k \in DOMAIN devs :
                            /\ devs[k].num = mounts[m][i].num
                            /\ devs[k].active
                            /\ devs[k].loop \in Loops
                            /\ loops[devs[k].loop].image = mounts[m][i].by
                            /\ devs[k].owner = mounts[m][i].by
        BY DEF MountsOwn
      <2>1. PICK k \in DOMAIN devices :
                            /\ devices[k].num = mounts[m][i].num
                            /\ devices[k].active
                            /\ devices[k].loop \in Loops
                            /\ loops[devices[k].loop].image = mounts[m][i].by
                            /\ devices[k].owner = mounts[m][i].by
        BY <1>1 DEF Core, MountsOwn
      <2>2. InUse(devices[k].num, mounts, events)
        BY <2>1 DEF InUse
      <2>3. k \in DOMAIN devs /\ devs[k].num = devices[k].num /\ devs[k].active = devices[k].active
            /\ devs[k].loop = devices[k].loop /\ devs[k].owner = devices[k].owner
        BY <2>2, <1>2, <1>3
      <2> QED
        BY <2>1, <2>3
    <1> QED
      BY <1>3, <1>6, <1>7, <1>8, <1>9, <1>10, <1>11 DEF Core, devs, n

\* A step that ends with removeDevice(): the call lets go of its mapped device.
LEMMA RemoveStepKeeps ==
    ASSUME MounterInv, NEW p \in Processes, Moves(p, call, call'), Owns(call[p]),
           ~Owns(call'[p]), call'[p].pc \notin Before,
           call'[p].name = call[p].name, call'[p].flags = call[p].flags,
           call'[p].pc \in Opening => call[p].pc \in Opening /\ call'[p].loop = call[p].loop,
           NEW deferred \in BOOLEAN, Rest',
           Kernel(loops, RemoveDevice(call[p].name, deferred), mounts, events)
    PROVE  MounterInv'
    <1>1. /\ DeviceMap(RemoveDevice(call[p].name, deferred))
          /\ Core(loops, RemoveDevice(call[p].name, deferred), mounts, call')
      BY RemoveOwnDevice
    <1>2. loops \in LoopTypes /\ mounts \in MountTypes /\ events \in EventTypes /\ call' \in CallTypes
      BY DEF MounterInv, TypeOK, Moves
    <1> QED
      BY <1>1, <1>2, ByKernel

\* The same where mapWithVerity() fails.
LEMMA FailMappingKeeps ==
    ASSUME MounterInv, NEW p \in Processes,
           call[p].pc \in {"loadTable", "activate", "findNode"}, FailMapping(p),
           Kernel(loops, RemoveDevice(call[p].name, FALSE), mounts, events),
           UNCHANGED <<nodes, semaphores, object>>
    PROVE  MounterInv'
    <1>1. /\ Moves(p, call, call')
          /\ call'[p].pc = "closeLoop" /\ call'[p].mapped = FALSE
          /\ call'[p].name = call[p].name /\ call'[p].loop = call[p].loop
          /\ call'[p].flags = call[p].flags
      BY MappingFails
    <1>2. Owns(call[p]) /\ ~Owns(call'[p]) /\ call'[p].pc \notin Before /\ call[p].pc \in Opening
      BY <1>1 DEF Owns, Loaded, Active, Ready, Before, Opening
    <1>3. Rest'
      BY <1>1, RestKept DEF Kernel
    <1> QED
      BY <1>1, <1>2, <1>3, RemoveStepKeeps

\* ... and where doMount() gives up.
LEMMA GiveUpKeeps ==
    ASSUME MounterInv, NEW p \in Processes, call[p].pc \in Ready, GoTo(p, "failed"),
           Kernel(loops, RemoveDevice(call[p].name, FALSE), mounts, events),
           UNCHANGED <<nodes, semaphores, object>>
    PROVE  MounterInv'
    <1>1. /\ Moves(p, call, call')
          /\ call'[p].pc = "failed" /\ call'[p].name = call[p].name
          /\ call'[p].flags = call[p].flags
      BY GoesTo DEF Steps
    <1>2. Owns(call[p]) /\ ~Owns(call'[p]) /\ call'[p].pc \notin Before \union Opening
      BY <1>1 DEF Owns, Loaded, Active, Ready, Before, Opening
    <1>3. Rest'
      BY <1>1, RestKept DEF Kernel, Ready
    <1> QED
      BY <1>1, <1>2, <1>3, RemoveStepKeeps

LEMMA UnmapKeeps ==
    ASSUME MounterInv, NEW p \in Processes, Unmap(p) PROVE MounterInv'
    BY GiveUpKeeps DEF Unmap, Ready

LEMMA DeferredRemoveKeeps ==
    ASSUME MounterInv, NEW p \in Processes, DeferredRemove(p) PROVE MounterInv'
    <1>1. /\ Moves(p, call, call') /\ call[p].pc = "deferredRemove" /\ call'[p].pc = "held"
          /\ call'[p].name = call[p].name /\ call'[p].flags = call[p].flags
      BY GoesTo DEF DeferredRemove, Steps
    <1>2. Owns(call[p]) /\ ~Owns(call'[p]) /\ call'[p].pc \notin Before \union Opening
      BY <1>1 DEF Owns, Loaded, Active, Ready, Before, Opening
    <1>3. Rest'
      <2>1. UNCHANGED <<nodes, users, semaphores>>
        BY DEF DeferredRemove, KernelUnchanged, Kernel
      <2>2. \A q \in Processes : q # p => call'[q] = call[q]
        BY <1>1 DEF Moves
      <2>3. SemaphoresReclaimed' /\ Named'
        BY <1>1, <2>1, <2>2 DEF MounterInv, SemaphoresReclaimed, Named
      <2>4. object' \in [Processes -> [number : Numbers \union {None},
                                       unmounted : BOOLEAN, detached : BOOLEAN]]
        BY DEF DeferredRemove, MounterInv, TypeOK
      <2> QED
        BY <2>1, <2>3, <2>4 DEF MounterInv, TypeOK, Rest
    <1>4. CASE "NoAutoClear" \in call[p].flags
      <2>1. Holds(call[p], call'[p])
        BY <1>1, <1>2 DEF Holds, Opening, Attached, Before, Owns, Loaded, Active, Ready
      <2> QED
        BY <1>1, <1>3, <1>4, <2>1, CallStepKeeps DEF DeferredRemove
    <1>5. CASE "NoAutoClear" \notin call[p].flags
      BY <1>1, <1>2, <1>3, <1>5, RemoveStepKeeps DEF DeferredRemove
    <1> QED
      BY <1>4, <1>5

LEMMA FindDeviceNodeKeeps ==
    ASSUME MounterInv, NEW p \in Processes, FindDeviceNode(p) PROVE MounterInv'
    <1>1. CASE Kernel(loops, RemoveDevice(call[p].name, FALSE), mounts, events) /\ FailMapping(p)
      BY <1>1, FailMappingKeeps DEF FindDeviceNode
    <1>2. CASE /\ KernelUnchanged
               /\ \/ call' = [call EXCEPT ![p].pc = "closeLoop", ![p].mapped = TRUE]
                  \/ /\ call[p].tries + 1 < MaxRetries
                     /\ call' = [call EXCEPT ![p].tries = @ + 1]
      <2>1. call \in CallTypes /\ call[p].pc = "findNode"
        BY DEF MounterInv, TypeOK, FindDeviceNode
      <2>2. PICK d \in [pc : Steps, name : Names \union {None},
                        loop : Loops \union {None}, num : Numbers \union {None},
                        tries : 0..(MaxRetries - 1), mapped : BOOLEAN, flags : Flags \union {{}}] :
                 /\ call' = [call EXCEPT ![p] = d]
                 /\ d.pc = "findNode" \/ (d.pc = "closeLoop" /\ d.mapped = TRUE)
                 /\ d.name = call[p].name /\ d.loop = call[p].loop
                 /\ d.num = call[p].num /\ d.flags = call[p].flags
        <3>1. CASE call' = [call EXCEPT ![p].pc = "closeLoop", ![p].mapped = TRUE]
          <4> DEFINE e == [call[p] EXCEPT !.pc = "closeLoop", !.mapped = TRUE]
          <4>1. e \in [pc : Steps, name : Names \union {None},
                        loop : Loops \union {None}, num : Numbers \union {None},
                        tries : 0..(MaxRetries - 1), mapped : BOOLEAN, flags : Flags \union {{}}]
            BY ZenonT(40), <2>1 DEF CallTypes, Steps
          <4>2. /\ e.pc = "closeLoop" /\ e.mapped = TRUE
                /\ e.name = call[p].name /\ e.loop = call[p].loop
                /\ e.num = call[p].num /\ e.flags = call[p].flags
            BY <2>1 DEF CallTypes
          <4>3. call' = [call EXCEPT ![p] = e]
            BY <3>1
          <4> HIDE DEF e
          <4> QED
            BY <4>1, <4>2, <4>3
        <3>2. CASE /\ call[p].tries + 1 < MaxRetries
                   /\ call' = [call EXCEPT ![p].tries = @ + 1]
          <4> DEFINE e == [call[p] EXCEPT !.tries = @ + 1]
          <4>0. call[p].tries + 1 \in 0..(MaxRetries - 1)
            BY <2>1, <3>2, MounterAssumption DEF CallTypes
          <4>1. e \in [pc : Steps, name : Names \union {None},
                        loop : Loops \union {None}, num : Numbers \union {None},
                        tries : 0..(MaxRetries - 1), mapped : BOOLEAN, flags : Flags \union {{}}]
            BY <2>1, <4>0 DEF CallTypes
          <4>2. /\ e.pc = "findNode"
                /\ e.name = call[p].name /\ e.loop = call[p].loop
                /\ e.num = call[p].num /\ e.flags = call[p].flags
            BY <2>1 DEF CallTypes
          <4>3. call' = [call EXCEPT ![p] = e]
            BY <3>2
          <4> HIDE DEF e
          <4> QED
            BY <4>1, <4>2, <4>3
        <3> QED
          BY <1>2, <3>1, <3>2
      <2>3. Moves(p, call, call') /\ call'[p] = d
        BY <2>1, <2>2, CallAssigned
      <2>4. Holds(call[p], call'[p]) /\ Owns(call'[p])
        BY <2>1, <2>2, <2>3 DEF Holds, Opening, Attached, Before, Owns, Loaded, Active, Ready
      <2>5. Rest'
        <3>1. call'[p].pc \in {"findNode", "closeLoop"}
          BY <2>2, <2>3
        <3> QED
          BY <1>2, <2>1, <2>3, <3>1, RestKept DEF FindDeviceNode, KernelUnchanged
      <2> QED
        BY <1>2, <2>3, <2>4, <2>5, CallStepKeeps
    <1> QED
      BY <1>1, <1>2 DEF FindDeviceNode

\* The devices after DM_DEV_CREATE: one more, under a new name and number.
LEMMA CreateDeviceKeeps ==
    ASSUME MounterInv, NEW p \in Processes, CreateDevice(p) PROVE MounterInv'
    <1> DEFINE n == call[p].name
    <1>1. CASE FailMapping(p) /\ UNCHANGED devices
      BY <1>1, CreateFailsKeeps DEF CreateDevice, KernelUnchanged
    <1>2. CASE n \notin DOMAIN devices /\ DeviceCreated(p)
      <2>1. /\ call \in CallTypes /\ call[p].pc = "create" /\ loops \in LoopTypes
            /\ DeviceMap(devices) /\ Core(loops, devices, mounts, call) /\ n \in Names
        BY DEF MounterInv, TypeOK, CreateDevice, DeviceMap, Named
      <2>2. PICK num \in Numbers \ {devices[m].num : m \in DOMAIN devices} :
              /\ devices' = [m \in DOMAIN devices \union {n} |->
                               IF m = n THEN NewDevice(p, num) ELSE devices[m]]
              /\ call' = [call EXCEPT ![p].pc = "loadTable", ![p].num = num]
        BY <1>2 DEF DeviceCreated
      <2> DEFINE d == [call[p] EXCEPT !.pc = "loadTable", !.num = num]
      <2>3. d \in [pc : Steps, name : Names \union {None},
                   loop : Loops \union {None}, num : Numbers \union {None},
                   tries : 0..(MaxRetries - 1), mapped : BOOLEAN, flags : Flags \union {{}}]
        BY ZenonT(40), <2>1 DEF CallTypes, Steps
      <2>4. /\ call' = [call EXCEPT ![p] = d] /\ d.pc = "loadTable" /\ d.name = n
            /\ d.num = num /\ d.loop = call[p].loop
        BY <2>1, <2>2 DEF CallTypes
      <2> HIDE DEF d
      <2>5. /\ Moves(p, call, call') /\ call'[p].pc = "loadTable" /\ call'[p].name = n
            /\ call'[p].num = num /\ call'[p].loop = call[p].loop
        BY <2>1, <2>3, <2>4, CallAssigned
      <2>6. \A q \in Processes : q # p => call'[q] = call[q]
        BY <2>5 DEF Moves
      <2> HIDE DEF n
      <2>7. /\ DOMAIN devices' = DOMAIN devices \union {n}
            /\ devices'[n] = NewDevice(p, num)
            /\ \A m \in DOMAIN devices : m # n /\ devices'[m] = devices[m]
        BY <1>2, <2>2
      <2>8. NewDevice(p, num) \in DeviceRecords
        BY DEF NewDevice, DeviceRecords
      <2>9. DeviceMap(devices')
        BY <2>1, <2>2, <2>8 DEF DeviceMap
      <2>10. /\ devices'[n].owner = p /\ devices'[n].num = num /\ ~devices'[n].deferred
             /\ devices'[n].loop = None
        BY <2>7 DEF NewDevice
      <2>11. CallsOpen(loops, call')
        <3> SUFFICES ASSUME NEW q \in Processes
                     PROVE  CallOpens(loops, call'[q], q)
          BY DEF CallsOpen, CallOpens
        <3>1. CASE q = p
          BY <3>1, <2>1, <2>5 DEF Core, CallsOpen, CallOpens, Opening, Attached
        <3>2. CASE q # p
          BY <3>2, <2>1, <2>6 DEF Core, CallsOpen, CallOpens
        <3> QED
          BY <3>1, <3>2
      <2>12. Unmarked(loops, call')
        BY <2>1, <2>6 DEF Core, Unmarked, LoopTypes
      <2>13. CallsOwn(devices', call')
        <3> SUFFICES ASSUME NEW q \in Processes
                     PROVE  CallOwns(devices', call'[q], q)
          BY DEF CallsOwn, CallOwns
        <3>1. CASE q = p
          BY <3>1, <2>5, <2>7, <2>10 DEF CallOwns, Owns, Loaded, Active, Ready
        <3>2. CASE q # p
          <4>1. /\ call'[q] = call[q]
                /\ (Loaded(call[q]) \/ Active(call[q]) \/ call[q].pc = "loadTable" => Owns(call[q]))
            BY <3>2, <2>6 DEF Owns, Loaded
          <4>2. Owns(call[q]) => call[q].name \in DOMAIN devices
            BY <2>1 DEF Core, CallsOwn, CallOwns
          <4> QED
            BY <4>1, <4>2, <2>1, <2>7 DEF Core, CallsOwn, CallOwns
        <3> QED
          BY <3>1, <3>2
      <2>14. DevicesOwned(devices', call')
        <3> SUFFICES ASSUME NEW m \in DOMAIN devices'
                     PROVE  DeviceOwned(m, devices'[m], call'[devices'[m].owner])
          BY DEF DevicesOwned, DeviceOwned
        <3>1. CASE m = n
          BY <3>1, <2>5, <2>10 DEF DeviceOwned, Before, Owns
        <3>2. CASE m # n
          <4>1. m \in DOMAIN devices /\ devices'[m] = devices[m] /\ devices[m].owner \in Processes
            BY <3>2, <2>1, <2>7 DEF DeviceMap, DeviceRecords
          <4>2. devices[m].owner # p
            BY <4>1, <2>1 DEF Core, DevicesOwned, DeviceOwned, Before
          <4>3. call'[devices'[m].owner] = call[devices[m].owner]
            BY <4>1, <4>2, <2>6
          <4> QED
            BY <4>1, <4>3, <2>1 DEF Core, DevicesOwned, DeviceOwned
        <3> QED
          BY <3>1, <3>2
      <2>15. DistinctNumbers(devices')
        BY <2>1, <2>2, <2>7, <2>10 DEF Core, DistinctNumbers
      <2>16. OverOwnImage(loops, devices')
        BY <2>1, <2>7, <2>10 DEF Core, OverOwnImage
      <2>17. MountsOwn(loops, devices', mounts)
        <3>1. \A m \in DOMAIN devices : m \in DOMAIN devices' /\ devices'[m] = devices[m]
          BY <2>7
        <3> QED
          BY <3>1, <2>1 DEF Core, MountsOwn
      <2>18. Core(loops, devices', mounts, call')
        BY <2>11, <2>12, <2>13, <2>14, <2>15, <2>16, <2>17 DEF Core
      <2>19. Reclaimed(loops, devices', call')
        BY <2>1, <2>6, <2>7 DEF MounterInv, Reclaimed, LoopTypes
      <2>20. DeferredInUse(devices', mounts, events)
        BY <2>7, <2>10 DEF MounterInv, DeferredInUse
      <2>21. Rest' /\ UNCHANGED <<loops, mounts, events>>
        BY <2>1, <2>5, RestKept DEF CreateDevice
      <2> QED
        BY <2>5, <2>9, <2>18, <2>19, <2>20, <2>21, InvNext DEF MounterInv, TypeOK, Moves
    <1> QED
      BY <1>1, <1>2 DEF CreateDevice

\* One device changes fields that nothing else depends on, or gets the loop device of
\* its own call.
LEMMA DeviceKeeps ==
    ASSUME MounterInv, NEW n \in DOMAIN devices, NEW r \in DeviceRecords,
           r.num = devices[n].num, r.owner = devices[n].owner,
           r.deferred = devices[n].deferred, r.refused = devices[n].refused,
           devices[n].active => r.active,
           r.loop # devices[n].loop => /\ devices[n].loop = None /\ r.loop \in Loops
                                       /\ loops[r.loop].image = r.owner,
           devices' = [devices EXCEPT ![n] = r]
    PROVE  /\ DeviceMap(devices') /\ DOMAIN devices' = DOMAIN devices /\ devices'[n] = r
           /\ \A m \in DOMAIN devices : m # n => devices'[m] = devices[m]
           /\ DevicesOwned(devices', call) /\ DistinctNumbers(devices')
           /\ OverOwnImage(loops, devices') /\ MountsOwn(loops, devices', mounts)
           /\ Reclaimed(loops, devices', call)
           /\ \A evs : DeferredInUse(devices, mounts, evs) => DeferredInUse(devices', mounts, evs)
    <1>1. /\ loops \in LoopTypes /\ DeviceMap(devices) /\ call \in CallTypes
          /\ Core(loops, devices, mounts, call)
      BY DEF MounterInv, TypeOK, DeviceMap
    <1>2. /\ DOMAIN devices' = DOMAIN devices /\ DeviceMap(devices') /\ devices'[n] = r
          /\ \A m \in DOMAIN devices : m # n => devices'[m] = devices[m]
      BY <1>1, DeviceAssigned
    <1>3. \A m \in DOMAIN devices :
              /\ devices'[m].num = devices[m].num /\ devices'[m].owner = devices[m].owner
              /\ devices'[m].deferred = devices[m].deferred /\ devices'[m].refused = devices[m].refused
              /\ devices[m].active => devices'[m].active
              /\ devices[m].loop # None => devices'[m].loop = devices[m].loop
              /\ devices'[m].loop = devices[m].loop
                   \/ loops[devices'[m].loop].image = devices'[m].owner
      BY <1>2
    <1>4. None \notin Loops
      BY MounterAssumption DEF None
    <1>6. DevicesOwned(devices', call)
      BY <1>1, <1>2, <1>3 DEF Core, DevicesOwned, DeviceOwned
    <1>7. DistinctNumbers(devices')
      BY <1>1, <1>2, <1>3 DEF Core, DistinctNumbers
    <1>8. OverOwnImage(loops, devices')
      BY <1>1, <1>2, <1>3 DEF Core, OverOwnImage
    <1>9. MountsOwn(loops, devices', mounts)
      BY <1>1, <1>2, <1>3, <1>4 DEF Core, MountsOwn
    <1>10. Reclaimed(loops, devices', call)
      BY <1>2, <1>3, <1>4 DEF MounterInv, Reclaimed
    <1>11. \A evs : DeferredInUse(devices, mounts, evs) => DeferredInUse(devices', mounts, evs)
      BY <1>2, <1>3 DEF DeferredInUse
    <1> QED
      BY <1>2, <1>6, <1>7, <1>8, <1>9, <1>10, <1>11

\* A change of a device that touches neither its owner nor its loop device.
LEMMA DeviceFieldKeeps ==
    ASSUME MounterInv, NEW n \in DOMAIN devices, NEW r \in DeviceRecords,
           r.num = devices[n].num, r.owner = devices[n].owner, r.loop = devices[n].loop,
           r.deferred = devices[n].deferred, r.refused = devices[n].refused,
           devices[n].active => r.active,
           devices' = [devices EXCEPT ![n] = r]
    PROVE  Core(loops, devices', mounts, call)
    <1>1. /\ DeviceMap(devices') /\ DOMAIN devices' = DOMAIN devices /\ devices'[n] = r
          /\ \A m \in DOMAIN devices : m # n => devices'[m] = devices[m]
          /\ DevicesOwned(devices', call) /\ DistinctNumbers(devices')
          /\ OverOwnImage(loops, devices') /\ MountsOwn(loops, devices', mounts)
      BY DeviceKeeps
    <1>2. \A m \in DOMAIN devices :
              /\ devices'[m].num = devices[m].num /\ devices'[m].owner = devices[m].owner
              /\ devices'[m].deferred = devices[m].deferred /\ devices'[m].loop = devices[m].loop
              /\ devices[m].active => devices'[m].active
      BY <1>1
    <1>3. CallsOwn(devices', call)
      BY <1>1, <1>2 DEF MounterInv, Core, CallsOwn, CallOwns, Owns, Loaded
    <1> QED
      BY <1>1, <1>3 DEF MounterInv, Core

LEMMA LoadTableKeeps ==
    ASSUME MounterInv, NEW p \in Processes, LoadTable(p) PROVE MounterInv'
    <1> DEFINE n == call[p].name
               r == [devices[n] EXCEPT !.loop = call[p].loop]
    <1>1. /\ call \in CallTypes /\ call[p].pc = "loadTable" /\ loops \in LoopTypes
          /\ DeviceMap(devices) /\ Core(loops, devices, mounts, call)
      BY DEF MounterInv, TypeOK, LoadTable, DeviceMap
    <1>2. CASE Kernel(loops, RemoveDevice(n, FALSE), mounts, events) /\ FailMapping(p)
      BY <1>1, <1>2, FailMappingKeeps DEF LoadTable
    <1>3. CASE /\ devices' = [devices EXCEPT ![n].loop = call[p].loop]
               /\ GoTo(p, "activate")
               /\ UNCHANGED <<loops, events, mounts, users>>
      <2>1. /\ n \in DOMAIN devices /\ devices[n].owner = p /\ devices[n].loop = None
            /\ devices[n].num = call[p].num /\ ~devices[n].deferred
            /\ call[p].loop \in Loops /\ loops[call[p].loop].image = p
        BY <1>1 DEF Core, CallsOwn, CallOwns, CallsOpen, CallOpens, Owns, Opening, Attached
      <2>2. /\ r \in DeviceRecords /\ r.num = devices[n].num /\ r.owner = p
            /\ r.loop = call[p].loop /\ r.active = devices[n].active
            /\ r.deferred = devices[n].deferred /\ r.refused = devices[n].refused
        BY <1>1, <2>1 DEF DeviceMap, DeviceRecords
      <2>3. devices' = [devices EXCEPT ![n] = r]
        BY <1>3
      <2>4. /\ Moves(p, call, call') /\ call'[p].pc = "activate" /\ call'[p].name = n
            /\ call'[p].loop = call[p].loop /\ call'[p].num = call[p].num
        BY <1>3, GoesTo DEF Steps
      <2>5. \A q \in Processes : q # p => call'[q] = call[q]
        BY <2>4 DEF Moves
      <2> HIDE DEF r, n
      <2>6. /\ DeviceMap(devices') /\ DOMAIN devices' = DOMAIN devices /\ devices'[n] = r
            /\ \A m \in DOMAIN devices : m # n => devices'[m] = devices[m]
            /\ DevicesOwned(devices', call) /\ DistinctNumbers(devices')
            /\ OverOwnImage(loops, devices') /\ MountsOwn(loops, devices', mounts)
            /\ Reclaimed(loops, devices', call)
            /\ DeferredInUse(devices', mounts, events)
        BY <2>1, <2>2, <2>3, DeviceKeeps DEF MounterInv
      <2>7. CallsOpen(loops, call')
        <3> SUFFICES ASSUME NEW q \in Processes PROVE CallOpens(loops, call'[q], q)
          BY DEF CallsOpen
        <3>1. CASE q = p
          BY <3>1, <1>1, <2>4 DEF Core, CallsOpen, CallOpens, Opening, Attached
        <3>2. CASE q # p
          BY <3>2, <1>1, <2>5 DEF Core, CallsOpen
        <3> QED
          BY <3>1, <3>2
      <2>8. Unmarked(loops, call')
        BY <1>1, <2>5 DEF Core, Unmarked, LoopTypes
      <2>9. CallsOwn(devices', call')
        <3> SUFFICES ASSUME NEW q \in Processes PROVE CallOwns(devices', call'[q], q)
          BY DEF CallsOwn
        <3>1. CASE q = p
          BY <3>1, <2>1, <2>2, <2>4, <2>6 DEF CallOwns, Owns, Loaded, Active, Ready
        <3>2. CASE q # p
          <4>1. /\ call'[q] = call[q]
                /\ (Loaded(call[q]) \/ Active(call[q]) \/ call[q].pc = "loadTable" => Owns(call[q]))
            BY <3>2, <2>5 DEF Owns, Loaded
          <4>2. Owns(call[q]) => call[q].name \in DOMAIN devices /\ devices[call[q].name].owner = q
            BY <1>1 DEF Core, CallsOwn, CallOwns
          <4>3. Owns(call[q]) => devices'[call[q].name] = devices[call[q].name]
            BY <3>2, <4>2, <2>1, <2>6
          <4> QED
            BY <4>1, <4>2, <4>3, <1>1, <2>6 DEF Core, CallsOwn, CallOwns
        <3> QED
          BY <3>1, <3>2
      <2>10. DevicesOwned(devices', call')
        <3> SUFFICES ASSUME NEW m \in DOMAIN devices'
                     PROVE  DeviceOwned(m, devices'[m], call'[devices'[m].owner])
          BY DEF DevicesOwned
        <3>1. CASE devices'[m].owner = p
          <4>1. m = n
            BY <3>1, <1>1, <2>1, <2>6 DEF Core, DevicesOwned, DeviceOwned, n
          <4> QED
            BY <3>1, <4>1, <2>4 DEF DeviceOwned, Before, Owns, Loaded
        <3>2. CASE devices'[m].owner # p
          <4>1. devices'[m].owner \in Processes
            BY <2>6 DEF DeviceMap, DeviceRecords
          <4> QED
            BY <3>2, <4>1, <2>5, <2>6 DEF DevicesOwned
        <3> QED
          BY <3>1, <3>2
      <2>11. Core(loops, devices', mounts, call')
        BY <2>6, <2>7, <2>8, <2>9, <2>10 DEF Core
      <2>12. Reclaimed(loops, devices', call')
        BY <1>1, <2>5, <2>6 DEF Reclaimed, LoopTypes
      <2>13. Rest'
        BY <1>1, <1>3, <2>4, RestKept DEF LoadTable
      <2> QED
        BY <1>1, <1>3, <2>4, <2>6, <2>11, <2>12, <2>13, InvNext DEF MounterInv, TypeOK, Moves
    <1> QED
      BY <1>2, <1>3 DEF LoadTable

\* A probe of udev keeps a device in use: with more of them no device stops being used.
LEMMA MoreInUse ==
    ASSUME NEW devs, NEW mnts, NEW evs, NEW mnts2, NEW evs2, DeferredInUse(devs, mnts, evs),
           \A e \in evs : e.probing => \E f \in evs2 : f.num = e.num /\ f.probing,
           \A m \in Points : \A i \in DOMAIN mnts[m] :
               \E j \in DOMAIN mnts2[m] : mnts2[m][j].num = mnts[m][i].num
    PROVE  DeferredInUse(devs, mnts2, evs2)
    <1> SUFFICES ASSUME NEW n \in DOMAIN devs, devs[n].deferred
                 PROVE  InUse(devs[n].num, mnts2, evs2)
      BY DEF DeferredInUse
    <1>1. InUse(devs[n].num, mnts, evs)
      BY DEF DeferredInUse
    <1>2. CASE \E m \in Points : \E i \in DOMAIN mnts[m] : mnts[m][i].num = devs[n].num
      <2>0. PICK m \in Points : \E i \in DOMAIN mnts[m] : mnts[m][i].num = devs[n].num
        BY <1>2
      <2>1. PICK i \in DOMAIN mnts[m] : mnts[m][i].num = devs[n].num
        BY <2>0
      <2>2. PICK j \in DOMAIN mnts2[m] : mnts2[m][j].num = mnts[m][i].num
        OBVIOUS
      <2> QED
        BY <2>1, <2>2 DEF InUse
    <1>3. CASE \E e \in evs : e.num = devs[n].num /\ e.probing
      <2>1. PICK e \in evs : e.num = devs[n].num /\ e.probing
        BY <1>3
      <2> QED
        BY <2>1 DEF InUse
    <1> QED
      BY <1>1, <1>2, <1>3 DEF InUse

LEMMA ActivateKeeps ==
    ASSUME MounterInv, NEW p \in Processes, Activate(p) PROVE MounterInv'
    <1> DEFINE n == call[p].name
               r == [devices[n] EXCEPT !.active = TRUE]
    <1>1. /\ call \in CallTypes /\ call[p].pc = "activate" /\ loops \in LoopTypes
          /\ DeviceMap(devices) /\ Core(loops, devices, mounts, call)
          /\ events \in EventTypes /\ mounts \in MountTypes
      BY DEF MounterInv, TypeOK, Activate, DeviceMap
    <1>2. CASE /\ Kernel(loops, RemoveDevice(n, FALSE), mounts, events) /\ FailMapping(p)
               /\ UNCHANGED semaphores
      BY <1>1, <1>2, FailMappingKeeps DEF Activate
    <1>3. ASSUME NEW sem \in BOOLEAN,
                 devices' = [devices EXCEPT ![n].active = TRUE],
                 events' = events \union {[num |-> call[p].num, probing |-> FALSE,
                                           cookie |-> IF sem THEN p ELSE None]},
                 semaphores' = [semaphores EXCEPT ![p] = IF sem THEN "one" ELSE None],
                 GoTo(p, IF sem THEN "wait" ELSE "findNode"),
                 UNCHANGED <<loops, mounts, users>>
          PROVE  MounterInv'
      <2>1. /\ n \in DOMAIN devices /\ devices[n].owner = p
            /\ devices[n].num = call[p].num /\ ~devices[n].deferred /\ devices[n].loop \in Loops
        BY <1>1 DEF Core, CallsOwn, CallOwns, Owns, Loaded
      <2>2. /\ r \in DeviceRecords /\ r.num = devices[n].num /\ r.owner = devices[n].owner
            /\ r.loop = devices[n].loop /\ r.active
            /\ r.deferred = devices[n].deferred /\ r.refused = devices[n].refused
        BY <1>1, <2>1 DEF DeviceMap, DeviceRecords
      <2>3. devices' = [devices EXCEPT ![n] = r]
        BY <1>3
      <2>4. PICK step \in {"wait", "findNode"} : GoTo(p, step) /\ (sem <=> step = "wait")
        BY <1>3
      <2>5. /\ Moves(p, call, call') /\ call'[p].pc = step /\ call'[p].name = n
            /\ call'[p].loop = call[p].loop /\ call'[p].num = call[p].num
            /\ call'[p].flags = call[p].flags
        BY <2>4, GoesTo DEF Steps
      <2>6. \A q \in Processes : q # p => call'[q] = call[q]
        BY <2>5 DEF Moves
      <2>7. events' \in EventTypes
        <3>1. call[p].num \in Numbers
          BY <1>1, <2>1 DEF DeviceMap, DeviceRecords
        <3>2. (IF sem THEN p ELSE None) \in Processes \union {None}
          OBVIOUS
        <3>3. [num |-> call[p].num, probing |-> FALSE, cookie |-> IF sem THEN p ELSE None]
                \in [num : Numbers, probing : BOOLEAN, cookie : Processes \union {None}]
          BY <3>1, <3>2
        <3> QED
          BY <1>1, <1>3, <3>3 DEF EventTypes
      <2> HIDE DEF r, n
      <2>8. /\ DeviceMap(devices') /\ DOMAIN devices' = DOMAIN devices /\ devices'[n] = r
            /\ \A m \in DOMAIN devices : m # n => devices'[m] = devices[m]
            /\ DevicesOwned(devices', call) /\ DistinctNumbers(devices')
            /\ OverOwnImage(loops, devices') /\ MountsOwn(loops, devices', mounts)
            /\ Reclaimed(loops, devices', call)
            /\ DeferredInUse(devices', mounts, events)
        BY <2>1, <2>2, <2>3, DeviceKeeps DEF MounterInv
      <2>9. CallsOpen(loops, call')
        <3> SUFFICES ASSUME NEW q \in Processes PROVE CallOpens(loops, call'[q], q)
          BY DEF CallsOpen
        <3>1. CASE q = p
          BY <3>1, <1>1, <2>5 DEF Core, CallsOpen, CallOpens, Opening, Attached
        <3>2. CASE q # p
          BY <3>2, <1>1, <2>6 DEF Core, CallsOpen
        <3> QED
          BY <3>1, <3>2
      <2>10. Unmarked(loops, call')
        BY <1>1, <2>6 DEF Core, Unmarked, LoopTypes
      <2>11. CallsOwn(devices', call')
        <3> SUFFICES ASSUME NEW q \in Processes PROVE CallOwns(devices', call'[q], q)
          BY DEF CallsOwn
        <3>1. CASE q = p
          BY <3>1, <2>1, <2>2, <2>5, <2>8 DEF CallOwns, Owns, Loaded, Active, Ready
        <3>2. CASE q # p
          <4>1. /\ call'[q] = call[q]
                /\ (Loaded(call[q]) \/ Active(call[q]) \/ call[q].pc = "loadTable" => Owns(call[q]))
            BY <3>2, <2>6 DEF Owns, Loaded
          <4>2. Owns(call[q]) => call[q].name \in DOMAIN devices /\ devices[call[q].name].owner = q
            BY <1>1 DEF Core, CallsOwn, CallOwns
          <4>3. Owns(call[q]) => devices'[call[q].name] = devices[call[q].name]
            BY <3>2, <4>2, <2>1, <2>8
          <4> QED
            BY <4>1, <4>2, <4>3, <1>1, <2>8 DEF Core, CallsOwn, CallOwns
        <3> QED
          BY <3>1, <3>2
      <2>12. DevicesOwned(devices', call')
        <3> SUFFICES ASSUME NEW m \in DOMAIN devices'
                     PROVE  DeviceOwned(m, devices'[m], call'[devices'[m].owner])
          BY DEF DevicesOwned
        <3>1. CASE devices'[m].owner = p
          <4>1. m = n
            BY <3>1, <1>1, <2>2, <2>8 DEF Core, DevicesOwned, DeviceOwned, n
          <4> QED
            BY <3>1, <4>1, <2>5 DEF DeviceOwned, Before, Owns, Loaded, Active
        <3>2. CASE devices'[m].owner # p
          <4>1. devices'[m].owner \in Processes
            BY <2>8 DEF DeviceMap, DeviceRecords
          <4> QED
            BY <3>2, <4>1, <2>6, <2>8 DEF DevicesOwned
        <3> QED
          BY <3>1, <3>2
      <2>13. Core(loops, devices', mounts, call')
        BY <2>8, <2>9, <2>10, <2>11, <2>12 DEF Core
      <2>14. Reclaimed(loops, devices', call')
        BY <1>1, <2>6, <2>8 DEF Reclaimed, LoopTypes
      <2>15. DeferredInUse(devices', mounts, events')
        BY <1>3, <2>8, MoreInUse
      <2>16. Rest'
        <3>1. /\ \A q \in Processes : q # p => semaphores'[q] = semaphores[q]
              /\ semaphores'[p] # None => call'[p].pc = "wait"
              /\ semaphores' \in [Processes -> {None, "zero", "one"}]
          BY <1>3, <2>4, <2>5 DEF MounterInv, TypeOK
        <3>2. SemaphoresReclaimed' /\ Named'
          BY <3>1, <2>5, <2>6 DEF MounterInv, SemaphoresReclaimed, Named
        <3> QED
          BY <1>3, <3>1, <3>2 DEF MounterInv, TypeOK, Rest, Activate
      <2> QED
        BY <1>1, <1>3, <2>5, <2>7, <2>8, <2>13, <2>14, <2>15, <2>16, InvNext DEF Moves
    <1> QED
      BY <1>2, <1>3 DEF Activate

-------------------------------------------------------------------------------
(* Steps on the mounts, and those of the client and the environment.           *)

LEMMA PointsOf == \A p \in Processes : PointOf[p] \in Points
    BY MounterAssumption DEF Points, Range

\* mount(2): what is mounted is the device of the call, and no other has its number.
LEMMA MountDeviceKeeps ==
    ASSUME MounterInv, NEW p \in Processes, MountDevice(p) PROVE MounterInv'
    <1> DEFINE n == call[p].name
               pt == PointOf[p]
               new == [num |-> call[p].num, by |-> p]
    <1>1. /\ call \in CallTypes /\ call[p].pc = "mount" /\ loops \in LoopTypes
          /\ DeviceMap(devices) /\ Core(loops, devices, mounts, call)
          /\ events \in EventTypes /\ mounts \in MountTypes
      BY DEF MounterInv, TypeOK, MountDevice, DeviceMap
    <1>2. CASE Kernel(loops, RemoveDevice(n, FALSE), mounts, events) /\ GoTo(p, "failed")
      BY <1>1, <1>2, GiveUpKeeps DEF MountDevice, Ready
    <1>3. CASE /\ mounts' = [mounts EXCEPT ![pt] = Append(@, new)]
               /\ GoTo(p, "status")
               /\ UNCHANGED <<loops, devices, events, users>>
      <2>1. /\ n \in DOMAIN devices /\ devices[n].owner = p
            /\ devices[n].num = call[p].num /\ devices[n].loop \in Loops /\ devices[n].active
        BY <1>1 DEF Core, CallsOwn, CallOwns, Owns, Loaded, Active, Ready
      <2>2. loops[devices[n].loop].image = p
        BY <1>1, <2>1, MounterAssumption DEF Core, OverOwnImage, None
      <2>3. new \in [num : Numbers, by : Processes]
        BY <1>1, <2>1 DEF DeviceMap, DeviceRecords
      <2>4. pt \in Points
        BY PointsOf
      <2>5. /\ Moves(p, call, call') /\ call'[p].pc = "status" /\ call'[p].name = n
            /\ call'[p].loop = call[p].loop /\ call'[p].num = call[p].num
            /\ call'[p].flags = call[p].flags
        BY <1>3, GoesTo DEF Steps
      <2>6. new.num = call[p].num /\ new.by = p
        OBVIOUS
      <2> HIDE DEF new, pt, n
      <2>7. mounts[pt] \in Seq([num : Numbers, by : Processes])
        BY <1>1, <2>4 DEF MountTypes
      <2>8. /\ Append(mounts[pt], new) \in Seq([num : Numbers, by : Processes])
            /\ DOMAIN Append(mounts[pt], new) = DOMAIN mounts[pt] \union {Len(mounts[pt]) + 1}
            /\ \A i \in DOMAIN mounts[pt] : Append(mounts[pt], new)[i] = mounts[pt][i]
            /\ Append(mounts[pt], new)[Len(mounts[pt]) + 1] = new
        BY <2>3, <2>7, AppendProperties
      <2>9. /\ mounts' \in MountTypes
            /\ mounts'[pt] = Append(mounts[pt], new)
            /\ \A m \in Points : m # pt => mounts'[m] = mounts[m]
        BY <1>1, <1>3, <2>4, <2>8 DEF MountTypes
      <2>10. \A m \in Points : \A i \in DOMAIN mounts'[m] :
                \/ i \in DOMAIN mounts[m] /\ mounts'[m][i] = mounts[m][i]
                \/ mounts'[m][i] = new
        BY <2>8, <2>9
      <2>11. MountsOwn(loops, devices, mounts')
        BY <1>1, <2>1, <2>2, <2>6, <2>10 DEF Core, MountsOwn
      <2>12. Holds(call[p], call'[p]) /\ Owns(call'[p])
        BY <1>1, <2>5 DEF Holds, Opening, Attached, Before, Owns, Loaded, Active, Ready, n
      <2>13. Core(loops, devices, mounts, call')
        BY <2>5, <2>12, CallHolds
      <2>14. Core(loops, devices, mounts', call')
        BY <2>11, <2>13 DEF Core
      <2>15. \A q \in Processes : q # p => call'[q] = call[q]
        BY <2>5 DEF Moves
      <2>16. Reclaimed(loops, devices, call')
        BY <1>1, <2>15 DEF MounterInv, Reclaimed, LoopTypes
      <2>17. DeferredInUse(devices, mounts', events)
        <3>1. \A m \in Points : \A i \in DOMAIN mounts[m] :
                 i \in DOMAIN mounts'[m] /\ mounts'[m][i] = mounts[m][i]
          BY <2>8, <2>9
        <3>2. DeferredInUse(devices, mounts, events)
          BY DEF MounterInv
        <3> QED
          BY <3>1, <3>2, MoreInUse
      <2>18. Rest'
        BY <1>1, <1>3, <2>5, RestKept DEF MountDevice
      <2> QED
        BY <1>1, <1>3, <2>5, <2>9, <2>14, <2>16, <2>17, <2>18, InvNext DEF Moves
    <1> QED
      BY <1>2, <1>3 DEF MountDevice

\* umount2() leaves fewer mounts.
LEMMA PopKeeps ==
    ASSUME NEW m \in Points, mounts \in MountTypes, mounts[m] # <<>>, NEW cal,
           Core(loops, devices, mounts, cal)
    PROVE  PopMount(m) \in MountTypes /\ Core(loops, devices, PopMount(m), cal)
    <1> DEFINE S == [num : Numbers, by : Processes]
               rest == SubSeq(mounts[m], 1, Len(mounts[m]) - 1)
    <1>0. mounts[m] \in Seq(S)
      BY DEF MountTypes
    <1> HIDE DEF S
    <1>1. mounts[m] \in Seq(S) /\ Len(mounts[m]) \in Nat \ {0}
      <2>1. Len(mounts[m]) \in Nat /\ Len(mounts[m]) # 0
        BY <1>0, EmptySeq
      <2> QED
        BY <1>0, <2>1
    <1>2. /\ rest \in Seq(S) /\ Len(rest) = Len(mounts[m]) - 1
          /\ \A i \in 1..Len(rest) : rest[i] = mounts[m][i]
      <2>1. \A i \in 1..(Len(mounts[m]) - 1) : mounts[m][i] \in S
        BY <1>1
      <2> QED
        BY <1>1, <2>1, SubSeqProperties
    <1>3. PopMount(m) = [mounts EXCEPT ![m] = rest]
      BY DEF PopMount
    <1> HIDE DEF rest
    <1>4. PopMount(m) \in MountTypes
      BY <1>2, <1>3 DEF MountTypes, S
    <1>5. \A k \in Points : \A i \in DOMAIN PopMount(m)[k] :
             i \in DOMAIN mounts[k] /\ PopMount(m)[k][i] = mounts[k][i]
      <2> SUFFICES ASSUME NEW k \in Points, NEW i \in DOMAIN PopMount(m)[k]
                   PROVE  i \in DOMAIN mounts[k] /\ PopMount(m)[k][i] = mounts[k][i]
        OBVIOUS
      <2>1. CASE k = m
        <3>1. PopMount(m)[k] = rest
          BY <2>1, <1>3 DEF MountTypes
        <3>2. DOMAIN rest = 1..Len(rest) /\ DOMAIN mounts[m] = 1..Len(mounts[m])
          BY <1>1, <1>2
        <3> QED
          BY <2>1, <3>1, <3>2, <1>1, <1>2
      <2>2. CASE k # m
        BY <2>2, <1>3 DEF MountTypes
      <2> QED
        BY <2>1, <2>2
    <1>6. MountsOwn(loops, devices, PopMount(m))
      BY <1>5 DEF Core, MountsOwn
    <1> QED
      BY <1>4, <1>6 DEF Core

LEMMA UmountKeeps ==
    ASSUME MounterInv, NEW m \in Points, Umount(m), call' \in CallTypes, Rest',
           Core(loops, devices, mounts, call'),
           \A q \in Processes : call[q].pc = "crashed" => call'[q].pc = "crashed"
    PROVE  MounterInv'
    <1>1. CASE CanUnmount(m)
      <2>1. /\ loops \in LoopTypes /\ DeviceMap(devices) /\ events \in EventTypes
            /\ mounts \in MountTypes /\ mounts[m] # <<>>
            /\ Kernel(loops, devices, PopMount(m), events)
        BY <1>1 DEF MounterInv, TypeOK, DeviceMap, CanUnmount, Umount
      <2>2. PopMount(m) \in MountTypes /\ Core(loops, devices, PopMount(m), call')
        BY <2>1, PopKeeps
      <2> QED
        BY <2>1, <2>2, ByKernel
    <1>2. CASE ~CanUnmount(m)
      BY <1>2, ByCall DEF Umount
    <1> QED
      BY <1>1, <1>2

LEMMA UmountUsers ==
    ASSUME NEW m, Umount(m) PROVE UNCHANGED users
    BY DEF Umount, Kernel, KernelUnchanged

LEMMA ForceUnmountKeeps ==
    ASSUME MounterInv, NEW p \in Processes, ForceUnmount(p) PROVE MounterInv'
    <1>1. /\ Moves(p, call, call') /\ call[p].pc = "forceUnmount" /\ call'[p].pc = "unmap"
          /\ call'[p].name = call[p].name /\ call'[p].loop = call[p].loop
          /\ call'[p].num = call[p].num /\ call'[p].flags = call[p].flags
      BY GoesTo DEF ForceUnmount, Steps
    <1>2. Holds(call[p], call'[p]) /\ Owns(call'[p])
      BY <1>1 DEF Holds, Opening, Attached, Before, Owns, Loaded, Active, Ready
    <1>3. Core(loops, devices, mounts, call')
      BY <1>1, <1>2, CallHolds
    <1>4. Rest'
      BY <1>1, RestKept, UmountUsers DEF ForceUnmount
    <1>5. \A q \in Processes : call[q].pc = "crashed" => call'[q].pc = "crashed"
      BY <1>1 DEF Moves
    <1> QED
      BY <1>1, <1>3, <1>4, <1>5, UmountKeeps, PointsOf DEF ForceUnmount, Moves

LEMMA DestroyObjectKeeps ==
    ASSUME MounterInv, NEW p \in Processes, DestroyObject(p) PROVE MounterInv'
    <1>1. /\ Moves(p, call, call') /\ call[p].pc = "held" /\ call'[p].pc = "gone"
          /\ call'[p].name = call[p].name /\ call'[p].flags = call[p].flags
      BY GoesTo DEF DestroyObject, Steps
    <1>2. Holds(call[p], call'[p]) /\ ~Owns(call[p])
      BY <1>1 DEF Holds, Opening, Attached, Before, Owns, Loaded, Active, Ready
    <1>3. Core(loops, devices, mounts, call')
      BY <1>1, <1>2, CallHolds
    <1>4. Rest'
      <2>1. UNCHANGED users
        BY UmountUsers DEF DestroyObject, DoUnmount, KernelUnchanged
      <2> QED
        BY <1>1, <2>1, RestKept DEF DestroyObject
    <1>5. \A q \in Processes : call[q].pc = "crashed" => call'[q].pc = "crashed"
      BY <1>1 DEF Moves
    <1>6. CASE KernelUnchanged
      BY <1>1, <1>2, <1>4, <1>6, CallStepKeeps
    <1>7. CASE DoUnmount(p)
      BY <1>1, <1>3, <1>4, <1>5, <1>7, UmountKeeps, PointsOf DEF DoUnmount, Moves
    <1> QED
      BY <1>6, <1>7 DEF DestroyObject

\* The steps that leave the calls alone.
LEMMA RestOfOthers ==
    ASSUME MounterInv, UNCHANGED call, nodes' \subseteq Numbers, users' \subseteq Numbers,
           semaphores' \in [Processes -> {None, "zero", "one"}],
           \A q \in Processes : semaphores'[q] # None => semaphores[q] # None,
           object' \in [Processes -> [number : Numbers \union {None},
                                      unmounted : BOOLEAN, detached : BOOLEAN]]
    PROVE  Rest'
    BY DEF Rest, MounterInv, SemaphoresReclaimed, Named

LEMMA UnmountObjectKeeps ==
    ASSUME MounterInv, NEW p \in Processes, UnmountObject(p) \/ DetachObject(p) PROVE MounterInv'
    <1>1. object' \in [Processes -> [number : Numbers \union {None},
                                     unmounted : BOOLEAN, detached : BOOLEAN]]
      BY ZenonT(40) DEF UnmountObject, DetachObject, MounterInv, TypeOK
    <1>2. UNCHANGED <<nodes, users, semaphores, call>>
      BY UmountUsers DEF UnmountObject, DetachObject, DoUnmount, KernelUnchanged
    <1>3. Rest'
      BY <1>1, <1>2, RestOfOthers DEF MounterInv, TypeOK
    <1>4. call' \in CallTypes /\ Core(loops, devices, mounts, call')
      BY <1>2 DEF MounterInv, TypeOK
    <1>5. CASE UnmountObject(p)
      BY <1>2, <1>3, <1>4, <1>5, UmountKeeps, PointsOf DEF UnmountObject, DoUnmount
    <1>6. CASE DetachObject(p)
      BY <1>2, <1>3, <1>4, <1>6, ByCall DEF DetachObject
    <1> QED
      BY <1>5, <1>6

LEMMA ExternalUnmountKeeps ==
    ASSUME MounterInv, NEW m \in Points, ExternalUnmount(m) PROVE MounterInv'
    <1>1. UNCHANGED <<nodes, users, semaphores, object, call>>
      BY UmountUsers DEF ExternalUnmount
    <1>2. Rest'
      BY <1>1, RestOfOthers DEF MounterInv, TypeOK
    <1>3. call' \in CallTypes /\ Core(loops, devices, mounts, call')
      BY <1>1 DEF MounterInv, TypeOK
    <1> QED
      BY <1>1, <1>2, <1>3, UmountKeeps DEF ExternalUnmount

LEMMA UdevProbeKeeps ==
    ASSUME MounterInv, NEW e \in events, UdevProbe(e) PROVE MounterInv'
    <1> DEFINE f == [e EXCEPT !.probing = TRUE]
    <1>1. events \in EventTypes /\ e \in [num : Numbers, probing : BOOLEAN, cookie : Processes \union {None}]
      BY DEF MounterInv, TypeOK, EventTypes
    <1>2. f \in [num : Numbers, probing : BOOLEAN, cookie : Processes \union {None}]
      BY <1>1
    <1>3. events' = (events \ {e}) \union {f} /\ ~e.probing
      BY DEF UdevProbe
    <1> HIDE DEF f
    <1>4. events' \in EventTypes
      BY <1>1, <1>2, <1>3 DEF EventTypes
    <1>5. UNCHANGED <<loops, devices, mounts, users, semaphores, call, object>>
      BY DEF UdevProbe
    <1>6. Rest'
      <2>1. nodes' \subseteq Numbers
        BY <1>1 DEF UdevProbe, MounterInv, TypeOK
      <2> QED
        BY <1>5, <2>1, RestOfOthers DEF MounterInv, TypeOK
    <1>7. DeferredInUse(devices, mounts, events')
      <2>1. DeferredInUse(devices, mounts, events)
        BY DEF MounterInv
      <2>2. \A g \in events : g.probing => g \in events'
        BY <1>3
      <2> QED
        BY <2>1, <2>2, MoreInUse
    <1> QED
      BY <1>4, <1>5, <1>6, <1>7, InvNext DEF MounterInv, TypeOK, DeviceMap

LEMMA UdevDoneKeeps ==
    ASSUME MounterInv, NEW e \in events, UdevDone(e) PROVE MounterInv'
    <1>1. /\ Kernel(loops, devices, mounts, events \ {e})
          /\ UNCHANGED <<nodes, call, object, users>>
      BY DEF UdevDone, Kernel
    <1>2. /\ semaphores' \in [Processes -> {None, "zero", "one"}]
          /\ \A q \in Processes : semaphores'[q] # None => semaphores[q] # None
      BY DEF UdevDone, MounterInv, TypeOK, None
    <1>3. Rest'
      BY <1>1, <1>2, RestOfOthers DEF MounterInv, TypeOK
    <1>4. /\ loops \in LoopTypes /\ DeviceMap(devices) /\ mounts \in MountTypes
          /\ events \ {e} \in EventTypes /\ call' \in CallTypes
          /\ Core(loops, devices, mounts, call')
      BY <1>1 DEF MounterInv, TypeOK, DeviceMap, EventTypes
    <1> QED
      BY <1>1, <1>3, <1>4, ByKernel

LEMMA CorruptKeeps ==
    ASSUME MounterInv, NEW n \in DOMAIN devices, Corrupt(n) PROVE MounterInv'
    <1> DEFINE r == [devices[n] EXCEPT !.corrupted = TRUE]
    <1>1. /\ loops \in LoopTypes /\ DeviceMap(devices) /\ mounts \in MountTypes
          /\ events \in EventTypes /\ call \in CallTypes
      BY DEF MounterInv, TypeOK, DeviceMap
    <1>2. /\ r \in DeviceRecords /\ r.num = devices[n].num /\ r.owner = devices[n].owner
          /\ r.loop = devices[n].loop /\ r.active = devices[n].active
          /\ r.deferred = devices[n].deferred /\ r.refused = devices[n].refused
      BY <1>1 DEF DeviceMap, DeviceRecords
    <1>3. devices' = [devices EXCEPT ![n] = r]
      BY DEF Corrupt
    <1> HIDE DEF r
    <1>4. /\ DeviceMap(devices') /\ Reclaimed(loops, devices', call)
          /\ DeferredInUse(devices', mounts, events)
      BY <1>2, <1>3, DeviceKeeps DEF MounterInv
    <1>5. Core(loops, devices', mounts, call)
      BY <1>2, <1>3, DeviceFieldKeeps
    <1>6. UNCHANGED <<loops, nodes, events, mounts, users, semaphores, call, object>>
      BY DEF Corrupt
    <1>7. Rest'
      BY <1>6, RestOfOthers DEF MounterInv, TypeOK
    <1> QED
      BY <1>1, <1>4, <1>5, <1>6, <1>7, InvNext

LEMMA OtherStepsKeep ==
    ASSUME MounterInv,
           \/ \E num \in Numbers : UdevRemoveNode(num)
           \/ \E m \in Points : UseMount(m)
           \/ UNCHANGED vars
    PROVE  MounterInv'
    <1>1. UNCHANGED <<loops, devices, events, mounts, semaphores, call, object>>
      BY DEF UdevRemoveNode, UseMount, vars
    <1>2. nodes' \subseteq Numbers
      BY DEF UdevRemoveNode, UseMount, vars, MounterInv, TypeOK
    <1>3. users' \subseteq Numbers
      <2>1. ASSUME NEW m \in Points, UseMount(m) PROVE users' \subseteq Numbers
        <3>1. mounts[m] \in Seq([num : Numbers, by : Processes]) /\ mounts[m] # <<>>
          BY <2>1 DEF UseMount, MounterInv, TypeOK, MountTypes
        <3> DEFINE S == [num : Numbers, by : Processes]
        <3> HIDE DEF S
        <3>2. mounts[m][Len(mounts[m])] \in S
          <4>1. mounts[m] \in Seq(S)
            BY <3>1 DEF S
          <4>2. Len(mounts[m]) \in Nat /\ Len(mounts[m]) # 0
            BY <3>1, <4>1, EmptySeq
          <4> QED
            BY <4>1, <4>2, ElementOfSeq
        <3>3. mounts[m][Len(mounts[m])].num \in Numbers
          BY <3>2 DEF S
        <3> QED
          BY <2>1, <3>3 DEF UseMount, MounterInv, TypeOK
      <2> QED
        BY <2>1 DEF UdevRemoveNode, vars, MounterInv, TypeOK
    <1>4. Rest'
      BY <1>1, <1>2, <1>3, RestOfOthers DEF MounterInv, TypeOK
    <1> QED
      BY <1>1, <1>4, InvNext DEF MounterInv, TypeOK, DeviceMap

LEMMA InitMounter == Init => MounterInv
    <1> SUFFICES ASSUME Init PROVE MounterInv
      OBVIOUS
    <1>1. DOMAIN devices = {} /\ devices \in [DOMAIN devices -> DeviceRecords]
      BY DEF Init
    <1>2. loops \in LoopTypes /\ \A l \in Loops : loops[l].image = None
      BY DEF Init, LoopTypes, FreeLoop
    <1>3. mounts \in MountTypes /\ \A m \in Points : DOMAIN mounts[m] = {}
      BY DEF Init, MountTypes
    <1>4. call \in CallTypes /\ \A p \in Processes : call[p].pc = "idle"
      <2>1. 0 \in 0..(MaxRetries - 1)
        BY MounterAssumption
      <2>2. [pc |-> "idle", name |-> None, loop |-> None, num |-> None,
             tries |-> 0, mapped |-> FALSE, flags |-> {}]
              \in [pc : Steps, name : Names \union {None},
                   loop : Loops \union {None}, num : Numbers \union {None},
                   tries : 0..(MaxRetries - 1), mapped : BOOLEAN, flags : Flags \union {{}}]
        BY <2>1 DEF Steps
      <2> QED
        BY <2>2 DEF Init, CallTypes
    <1>5. TypeOK
      BY <1>1, <1>2, <1>3, <1>4 DEF Init, TypeOK, EventTypes
    <1>6. CallsOpen(loops, call) /\ Unmarked(loops, call)
      BY <1>2, <1>4 DEF CallsOpen, CallOpens, Unmarked, Opening, Attached
    <1>7. CallsOwn(devices, call) /\ DevicesOwned(devices, call)
      BY <1>1, <1>4 DEF CallsOwn, CallOwns, DevicesOwned, Owns, Loaded, Active, Ready
    <1>8. DistinctNumbers(devices) /\ OverOwnImage(loops, devices) /\ MountsOwn(loops, devices, mounts)
      BY <1>1, <1>3 DEF DistinctNumbers, OverOwnImage, MountsOwn
    <1>9. DeferredInUse(devices, mounts, events) /\ Reclaimed(loops, devices, call)
      BY <1>1, <1>2 DEF DeferredInUse, Reclaimed
    <1>10. SemaphoresReclaimed /\ Named
      BY <1>4 DEF Init, SemaphoresReclaimed, Named
    <1> QED
      BY <1>5, <1>6, <1>7, <1>8, <1>9, <1>10 DEF MounterInv, Core

LEMMA NextMounter == MounterInv /\ [Next]_vars => MounterInv'
    <1> SUFFICES ASSUME MounterInv, [Next]_vars PROVE MounterInv'
      OBVIOUS
    <1>1. ASSUME NEW p \in Processes, MountStep(p) PROVE MounterInv'
      BY <1>1, GetFreeLoopKeeps, SetFdKeeps, SetStatusKeeps, CreateDeviceKeeps, LoadTableKeeps,
         ActivateKeeps, WaitUdevKeeps, FindDeviceNodeKeeps, CloseLoopKeeps, MountDeviceKeeps,
         CheckStatusKeeps, ForceUnmountKeeps, UnmapKeeps, DeferredRemoveKeeps DEF MountStep
    <1>2. ASSUME NEW p \in Processes, ClientStep(p) \/ Crash(p) PROVE MounterInv'
      BY <1>2, BeginMountKeeps, UnmountObjectKeeps, DestroyObjectKeeps, CrashKeeps DEF ClientStep
    <1>3. CASE Environment
      BY <1>3, UdevProbeKeeps, UdevDoneKeeps, ExternalUnmountKeeps, CorruptKeeps, OtherStepsKeep
      DEF Environment
    <1>4. CASE Finished \/ UNCHANGED vars
      BY <1>4, OtherStepsKeep DEF Finished
    <1> QED
      BY <1>1, <1>2, <1>3, <1>4 DEF Next

\* The inductive invariant of the mounter.
THEOREM MounterInvariant == Spec => []MounterInv
    BY InitMounter, NextMounter, PTL DEF Spec

-------------------------------------------------------------------------------
(* The theorems.                                                               *)

\* Every variable keeps its type, however the processes interleave.
THEOREM MounterTypeCorrect == Spec => []TypeOK
    <1>1. MounterInv => TypeOK
      BY DEF MounterInv
    <1> QED
      BY <1>1, MounterInvariant, PTL

\* The races for a loop device, a name and a device number never mount the image of
\* another process.
THEOREM MountsAreOwn == Spec => []MountsOwnImage
    <1>1. MounterInv => MountsOwnImage
      BY DEF MounterInv, Core, MountsOwn, MountsOwnImage
    <1> QED
      BY <1>1, MounterInvariant, PTL

\* Loop devices, mapped devices and semaphores do not outlive their use, whatever
\* fails and whoever crashes.
THEOREM NothingIsLeft == Spec => []NothingLeftBehind
    <1>1. MounterInv => LoopsReclaimed /\ SemaphoresReclaimed
      BY DEF MounterInv, Reclaimed, LoopsReclaimed
    <1>2. MounterInv => DevicesReclaimed
      <2> SUFFICES ASSUME MounterInv, NEW n \in DOMAIN devices
                   PROVE  LET p == devices[n].owner
                          IN  \/ InCall(p)
                              \/ devices[n].deferred /\ InUse(devices[n].num, mounts, events)
                              \/ "NoAutoClear" \in call[p].flags
                              \/ devices[n].refused
                              \/ call[p].pc = "crashed"
        BY DEF DevicesReclaimed
      <2>1. DeviceOwned(n, devices[n], call[devices[n].owner])
        BY DEF MounterInv, Core, DevicesOwned
      <2>2. devices[n].deferred => InUse(devices[n].num, mounts, events)
        BY DEF MounterInv, DeferredInUse
      <2>3. Owns(call[devices[n].owner]) => InCall(devices[n].owner)
        BY DEF Owns, Loaded, Active, Ready, InCall, Final
      <2> QED
        BY <2>1, <2>2, <2>3 DEF DeviceOwned
    <1> QED
      BY <1>1, <1>2, MounterInvariant, PTL DEF NothingLeftBehind

\* Two packages that are mounted at the same time have different volume names.
THEOREM VolumeNamesDistinct == Spec => []DistinctVolumeNames
    <1>1. MounterInv => DistinctVolumeNames
      <2> SUFFICES ASSUME MounterInv, NEW p \in Processes, NEW q \in Processes, p # q,
                          \A r \in {p, q} : \E i \in DOMAIN mounts[PointOf[r]] :
                                               mounts[PointOf[r]][i].by = r
                   PROVE  call[p].name # call[q].name
        BY DEF DistinctVolumeNames
      <2>1. ASSUME NEW r \in {p, q}
            PROVE  call[r].name \in DOMAIN devices /\ devices[call[r].name].owner = r
        <3>1. PICK i \in DOMAIN mounts[PointOf[r]] : mounts[PointOf[r]][i].by = r
          OBVIOUS
        <3>2. PICK n \in DOMAIN devices : devices[n].owner = r
          BY <3>1, PointsOf DEF MounterInv, Core, MountsOwn
        <3> QED
          BY <3>2 DEF MounterInv, Core, DevicesOwned, DeviceOwned
      <2> QED
        BY <2>1
    <1> QED
      BY <1>1, MounterInvariant, PTL

\* What a step does to the devices of others.
OwnRemoved ==
    \A n \in DOMAIN devices :
        LET p == devices[n].owner
        IN  (n \notin DOMAIN devices' \/ devices'[n].deferred # devices[n].deferred)
            => devices[n].deferred \/ call'[p] # call[p]

LEMMA KernelRemoves ==
    ASSUME NEW lps, NEW mnts, NEW evs, Kernel(lps, devices, mnts, evs) PROVE OwnRemoved
    BY DEF Kernel, AfterDeferred, Restrict, OwnRemoved

LEMMA UmountRemoves ==
    ASSUME NEW m, Umount(m) PROVE OwnRemoved
    BY KernelRemoves DEF Umount, KernelUnchanged, OwnRemoved

LEMMA OwnerRemoves ==
    ASSUME MounterInv, NEW p \in Processes, Owns(call[p]), call'[p] # call[p], NEW deferred,
           NEW lps, NEW mnts, NEW evs,
           Kernel(lps, RemoveDevice(call[p].name, deferred), mnts, evs)
    PROVE  OwnRemoved
    <1> DEFINE n == call[p].name
               devs == RemoveDevice(n, deferred)
    <1>1. n \in DOMAIN devices /\ devices[n].owner = p /\ DeviceMap(devices)
      BY DEF MounterInv, TypeOK, Core, CallsOwn, CallOwns, DeviceMap
    <1>2. \A m \in DOMAIN devices : m # n => m \in DOMAIN devs /\ devs[m] = devices[m]
      BY <1>1 DEF RemoveDevice, Restrict, DeviceMap
    <1>3. devices' = AfterDeferred(devs, mnts, evs)
      BY DEF Kernel
    <1> HIDE DEF devs, n
    <1>4. \A m \in DOMAIN devices : m # n =>
             ((m \notin DOMAIN devices' \/ devices'[m].deferred # devices[m].deferred)
               => devices[m].deferred)
      BY <1>2, <1>3 DEF AfterDeferred, Restrict
    <1> QED
      BY <1>1, <1>4 DEF OwnRemoved

LEMMA StepRemoves == MounterInv /\ [Next]_vars => [OwnRemoved]_vars
    <1> SUFFICES ASSUME MounterInv, Next PROVE OwnRemoved
      OBVIOUS
    <1>0. /\ call \in CallTypes /\ DeviceMap(devices)
          /\ Core(loops, devices, mounts, call)
      BY DEF MounterInv, TypeOK, DeviceMap
    <1>1. CASE UNCHANGED devices
      BY <1>1 DEF OwnRemoved
    <1>2. ASSUME NEW p \in Processes,
                 Crash(p) \/ SetFd(p) \/ SetStatus(p) \/ CloseLoop(p) \/ GetFreeLoop(p)
          PROVE  OwnRemoved
      BY <1>1, <1>2, KernelRemoves DEF Crash, SetFd, SetStatus, CloseLoop, GetFreeLoop
    <1>3. ASSUME NEW p \in Processes,
                 ForceUnmount(p) \/ UnmountObject(p) \/ DetachObject(p) \/ DestroyObject(p)
          PROVE  OwnRemoved
      BY <1>1, <1>3, UmountRemoves
      DEF ForceUnmount, UnmountObject, DetachObject, DestroyObject, DoUnmount, KernelUnchanged
    <1>4. ASSUME NEW p \in Processes, BeginMount(p) \/ WaitUdev(p) \/ CheckStatus(p)
          PROVE  OwnRemoved
      BY <1>1, <1>4 DEF BeginMount, WaitUdev, CheckStatus, KernelUnchanged
    <1>5. CASE Environment
      <2>1. ASSUME NEW n \in DOMAIN devices, Corrupt(n) PROVE OwnRemoved
        BY <1>0, <2>1 DEF Corrupt, OwnRemoved, DeviceMap, DeviceRecords
      <2>2. ASSUME NEW e \in events, UdevDone(e) PROVE OwnRemoved
        BY <2>2, KernelRemoves DEF UdevDone
      <2> QED
        BY <1>1, <1>5, <2>1, <2>2, UmountRemoves
        DEF Environment, UdevProbe, UdevRemoveNode, UseMount, ExternalUnmount
    <1>6. ASSUME NEW p \in Processes, CreateDevice(p) PROVE OwnRemoved
      BY <1>1, <1>6 DEF CreateDevice, DeviceCreated, OwnRemoved
    <1>7. ASSUME NEW p \in Processes, Owns(call[p]), FailMapping(p), call[p].pc # "closeLoop",
                 Kernel(loops, RemoveDevice(call[p].name, FALSE), mounts, events)
          PROVE  OwnRemoved
      <2>1. call'[p].pc = "closeLoop"
        BY <1>7, MappingFails
      <2> QED
        BY <1>7, <2>1, OwnerRemoves
    <1>8. ASSUME NEW p \in Processes, NEW deferred, call[p].pc \in Ready, NEW step \in Steps \ Ready,
                 GoTo(p, step), Kernel(loops, RemoveDevice(call[p].name, deferred), mounts, events)
          PROVE  OwnRemoved
      <2>1. call'[p].pc = step
        BY <1>8, GoesTo
      <2>2. Owns(call[p])
        BY <1>8 DEF Owns, Loaded, Active
      <2> QED
        BY <1>8, <2>1, <2>2, OwnerRemoves
    <1>9. ASSUME NEW p \in Processes, FindDeviceNode(p) PROVE OwnRemoved
      <2>1. Owns(call[p])
        BY <1>9 DEF FindDeviceNode, Owns, Loaded, Active
      <2> QED
        BY <1>1, <1>7, <1>9, <2>1 DEF FindDeviceNode, KernelUnchanged
    <1>10. ASSUME NEW p \in Processes, LoadTable(p) PROVE OwnRemoved
      <2>1. Owns(call[p]) /\ call[p].name \in DOMAIN devices
        BY <1>0, <1>10 DEF LoadTable, Owns, Core, CallsOwn, CallOwns
      <2>2. CASE devices' = [devices EXCEPT ![call[p].name].loop = call[p].loop]
        BY <1>0, <2>1, <2>2 DEF OwnRemoved, DeviceMap, DeviceRecords
      <2> QED
        BY <1>7, <1>10, <2>1, <2>2 DEF LoadTable
    <1>11. ASSUME NEW p \in Processes, Activate(p) PROVE OwnRemoved
      <2>1. Owns(call[p]) /\ call[p].name \in DOMAIN devices
        BY <1>0, <1>11 DEF Activate, Owns, Loaded, Core, CallsOwn, CallOwns
      <2>2. CASE devices' = [devices EXCEPT ![call[p].name].active = TRUE]
        BY <1>0, <2>1, <2>2 DEF OwnRemoved, DeviceMap, DeviceRecords
      <2> QED
        BY <1>7, <1>11, <2>1, <2>2 DEF Activate
    <1>12. ASSUME NEW p \in Processes, MountDevice(p) \/ Unmap(p) PROVE OwnRemoved
      <2>1. "failed" \in Steps \ Ready /\ call[p].pc \in Ready
        BY <1>12 DEF Steps, Ready, MountDevice, Unmap
      <2> QED
        BY <1>1, <1>8, <1>12, <2>1 DEF MountDevice, Unmap
    <1>13. ASSUME NEW p \in Processes, DeferredRemove(p) PROVE OwnRemoved
      <2>1. "held" \in Steps \ Ready /\ call[p].pc \in Ready
        BY <1>13 DEF Steps, Ready, DeferredRemove
      <2> QED
        BY <1>1, <1>8, <1>13, <2>1 DEF DeferredRemove, KernelUnchanged
    <1>14. CASE Finished
      BY <1>1, <1>14 DEF Finished, vars
    <1> QED
      BY <1>2, <1>3, <1>4, <1>5, <1>6, <1>9, <1>10, <1>11, <1>12, <1>13, <1>14
      DEF Next, MountStep, ClientStep

\* mount() never takes away the mapped device of another process.
THEOREM OthersDevicesStay == Spec => OnlyOwnDeviceRemoved
    BY MounterInvariant, StepRemoves, PTL DEF Spec, OnlyOwnDeviceRemoved, OwnRemoved

-------------------------------------------------------------------------------
(* A failed call leaves nothing mounted. This needs what the property says: no *)
(* two processes share a mount point, and no program opens a file on the mount *)
(* before mount() has returned.                                                *)

Undisturbed == ~MayBeBusy /\ \A p, q \in Processes : PointOf[p] = PointOf[q] => p = q

\* Steps at which the call may have its mount.
Mounted == {"status", "forceUnmount", "deferredRemove", "held", "gone", "crashed"}

\* At a mount point there is at most the one mount of its process.
PointInv == \A p \in Processes :
    /\ Len(mounts[PointOf[p]]) <= 1
    /\ call[p].pc \notin Mounted => mounts[PointOf[p]] = <<>>

UndoneInv == users = {} /\ PointInv

\* No mount is made, and no call forgets one.
LEMMA SameMounts ==
    ASSUME UndoneInv, UNCHANGED <<mounts, users>>,
           \A p \in Processes : call[p].pc \in Mounted => call'[p].pc \in Mounted
    PROVE  UndoneInv'
    BY DEF UndoneInv, PointInv

\* A mount point after umount2(): empty, as nothing on it is open.
LEMMA Popped ==
    ASSUME MounterInv, UndoneInv, NEW p \in Processes, Umount(PointOf[p]), Undisturbed
    PROVE  /\ UNCHANGED users
           /\ mounts'[PointOf[p]] = <<>>
           /\ \A q \in Processes : q # p => mounts'[PointOf[q]] = mounts[PointOf[q]]
    <1> DEFINE m == PointOf[p]
    <1>1. mounts \in MountTypes /\ m \in Points /\ mounts[m] \in Seq([num : Numbers, by : Processes])
      BY PointsOf DEF MounterInv, TypeOK, MountTypes
    <1>2. Len(mounts[m]) <= 1 /\ users = {}
      BY DEF UndoneInv, PointInv
    <1>3. \A q \in Processes : q # p => PointOf[q] # m /\ PointOf[q] \in Points
      BY PointsOf DEF Undisturbed
    <1>4. CASE mounts[m] = <<>>
      BY <1>4 DEF Umount, CanUnmount, KernelUnchanged
    <1>5. CASE mounts[m] # <<>>
      <2>1. Len(mounts[m]) = 1
        <3> DEFINE E == [num : Numbers, by : Processes]
                   stack == mounts[m]
                   n == Len(stack)
        <3>1. stack \in Seq(E) /\ stack # <<>> /\ n <= 1
          BY <1>1, <1>2, <1>5
        <3> HIDE DEF E, stack
        <3>2. n \in Nat /\ n # 0
          BY <3>1, EmptySeq, LenProperties
        <3> HIDE DEF n
        <3>3. n = 1
          BY <3>1, <3>2
        <3> QED
          BY <3>3 DEF n, stack
      <2>2. mounts' = [mounts EXCEPT ![m] = SubSeq(mounts[m], 1, 0)] /\ UNCHANGED users
        BY <1>2, <1>5, <2>1 DEF Umount, CanUnmount, Kernel, PopMount
      <2>3. SubSeq(mounts[m], 1, 0) = <<>>
        BY <1>1, SubSeqProperties
      <2> QED
        BY <1>1, <1>3, <2>2, <2>3 DEF MountTypes
    <1> QED
      BY <1>4, <1>5

\* umount2() at the mount point of p, by p itself or by somebody else.
LEMMA PoppedKeeps ==
    ASSUME MounterInv, UndoneInv, Undisturbed, NEW p \in Processes, Umount(PointOf[p]),
           \A q \in Processes : q # p => call'[q] = call[q]
    PROVE  UndoneInv'
    <1>1. /\ UNCHANGED users
          /\ mounts'[PointOf[p]] = <<>>
          /\ \A q \in Processes : q # p => mounts'[PointOf[q]] = mounts[PointOf[q]]
      BY Popped
    <1>2. Len(<<>>) = 0
      OBVIOUS
    <1> QED
      BY <1>1, <1>2 DEF UndoneInv, PointInv

LEMMA NextUndone == Undisturbed /\ MounterInv /\ UndoneInv /\ [Next]_vars => UndoneInv'
    <1> SUFFICES ASSUME Undisturbed, MounterInv, UndoneInv, [Next]_vars PROVE UndoneInv'
      OBVIOUS
    <1>0. call \in CallTypes /\ mounts \in MountTypes
      BY DEF MounterInv, TypeOK
    <1>1. ASSUME NEW p \in Processes, NEW step \in Steps, GoTo(p, step), UNCHANGED <<mounts, users>>,
                 call[p].pc \in Mounted => step \in Mounted
          PROVE  UndoneInv'
      <2>1. Moves(p, call, call') /\ call'[p].pc = step
        BY <1>1, GoesTo
      <2> QED
        BY <1>1, <2>1, SameMounts DEF Moves
    <1>2. ASSUME NEW p \in Processes, call[p].pc \notin Mounted, UNCHANGED <<mounts, users>>,
                 \A q \in Processes : q # p => call'[q] = call[q]
          PROVE  UndoneInv'
      BY <1>2, SameMounts
    <1>3. ASSUME NEW p \in Processes,
                 \/ BeginMount(p) \/ GetFreeLoop(p) \/ SetFd(p) \/ SetStatus(p) \/ CreateDevice(p)
                 \/ LoadTable(p) \/ Activate(p) \/ WaitUdev(p) \/ FindDeviceNode(p) \/ CloseLoop(p)
                 \/ Unmap(p)
          PROVE  UndoneInv'
      <2>1. UNCHANGED <<mounts, users>>
        BY <1>3 DEF BeginMount, GetFreeLoop, SetFd, SetStatus, CreateDevice, LoadTable, Activate,
                    WaitUdev, FindDeviceNode, CloseLoop, Unmap, Kernel, KernelUnchanged
      <2>2. call[p].pc \notin Mounted
        BY <1>3 DEF BeginMount, GetFreeLoop, SetFd, SetStatus, CreateDevice, LoadTable, Activate,
                    WaitUdev, FindDeviceNode, CloseLoop, Unmap, Mounted
      <2>3. \A q \in Processes : q # p => call'[q] = call[q]
        BY <1>0, <1>3 DEF BeginMount, GetFreeLoop, SetFd, SetStatus, CreateDevice, LoadTable, Activate,
                    WaitUdev, FindDeviceNode, CloseLoop, Unmap, GoTo, FailMapping, DeviceCreated, CallTypes
      <2> QED
        BY <1>2, <2>1, <2>2, <2>3
    <1>4. ASSUME NEW p \in Processes, CheckStatus(p) \/ DeferredRemove(p) \/ Crash(p)
          PROVE  UndoneInv'
      <2>1. UNCHANGED <<mounts, users>>
        BY <1>4 DEF CheckStatus, DeferredRemove, Crash, Kernel, KernelUnchanged
      <2>2. PICK step \in Mounted : GoTo(p, step)
        BY <1>4 DEF CheckStatus, DeferredRemove, Crash, Mounted
      <2> QED
        BY <1>1, <2>1, <2>2 DEF Mounted, Steps
    <1>5. ASSUME NEW p \in Processes, MountDevice(p) PROVE UndoneInv'
      <2>1. CASE /\ Kernel(loops, RemoveDevice(call[p].name, FALSE), mounts, events)
                 /\ GoTo(p, "failed")
        BY <1>1, <1>5, <2>1 DEF MountDevice, Kernel, Mounted, Steps
      <2>2. CASE /\ mounts' = [mounts EXCEPT ![PointOf[p]] = Append(@, [num |-> call[p].num, by |-> p])]
                 /\ GoTo(p, "status") /\ UNCHANGED users
        <3>1. Moves(p, call, call') /\ call'[p].pc = "status"
          BY <2>2, GoesTo DEF Steps
        <3>2. mounts[PointOf[p]] = <<>> /\ PointOf[p] \in Points
          BY <1>5, PointsOf DEF UndoneInv, PointInv, MountDevice, Mounted
        <3>3. mounts'[PointOf[p]] = Append(<<>>, [num |-> call[p].num, by |-> p])
          BY <1>0, <2>2, <3>2 DEF MountTypes
        <3>4. Len(mounts'[PointOf[p]]) = 1
          BY <3>3
        <3>5. \A q \in Processes : q # p => mounts'[PointOf[q]] = mounts[PointOf[q]]
          BY <1>0, <2>2, PointsOf DEF Undisturbed, MountTypes
        <3>6. ASSUME NEW q \in Processes
              PROVE  /\ Len(mounts'[PointOf[q]]) <= 1
                     /\ call'[q].pc \notin Mounted => mounts'[PointOf[q]] = <<>>
          <4>1. CASE q = p
            <5>1. 1 <= 1 /\ "status" \in Mounted
              BY DEF Mounted
            <5> QED
              BY <3>1, <3>4, <4>1, <5>1
          <4>2. CASE q # p
            BY <3>1, <3>5, <4>2 DEF UndoneInv, PointInv, Moves
          <4> QED
            BY <4>1, <4>2
        <3> QED
          BY <2>2, <3>6 DEF UndoneInv, PointInv
      <2> QED
        BY <1>5, <2>1, <2>2 DEF MountDevice
    <1>6. ASSUME NEW p \in Processes, ForceUnmount(p) PROVE UndoneInv'
      <2>1. Moves(p, call, call')
        BY <1>6, GoesTo DEF ForceUnmount, Steps
      <2> QED
        BY <1>6, <2>1, PoppedKeeps DEF ForceUnmount, Moves
    <1>7. ASSUME NEW p \in Processes, DestroyObject(p) PROVE UndoneInv'
      <2>1. Moves(p, call, call')
        BY <1>7, GoesTo DEF DestroyObject, Steps
      <2>2. CASE DoUnmount(p)
        BY <2>1, <2>2, PoppedKeeps DEF DoUnmount, Moves
      <2>3. CASE KernelUnchanged
        BY <1>1, <1>7, <2>3 DEF DestroyObject, KernelUnchanged, Mounted, Steps
      <2> QED
        BY <1>7, <2>2, <2>3 DEF DestroyObject
    <1>8. ASSUME NEW p \in Processes, UnmountObject(p) PROVE UndoneInv'
      BY <1>8, PoppedKeeps DEF UnmountObject, DoUnmount
    <1>9. ASSUME NEW m \in Points, ExternalUnmount(m) PROVE UndoneInv'
      <2>1. PICK p \in Processes : m = PointOf[p]
        BY MounterAssumption DEF Points, Range
      <2> QED
        BY <1>9, <2>1, PoppedKeeps DEF ExternalUnmount
    <1>10. CASE UNCHANGED <<mounts, users, call>>
      BY <1>10, SameMounts
    <1>11. CASE Environment
      BY <1>9, <1>10, <1>11 DEF Environment, UdevProbe, UdevDone, UdevRemoveNode, UseMount, Corrupt,
                                Kernel, Undisturbed
    <1>12. ASSUME NEW p \in Processes, DetachObject(p) PROVE UndoneInv'
      BY <1>10, <1>12 DEF DetachObject, KernelUnchanged
    <1>13. CASE Finished \/ UNCHANGED vars
      BY <1>10, <1>13 DEF Finished, vars
    <1> QED
      BY <1>3, <1>4, <1>5, <1>6, <1>7, <1>8, <1>11, <1>12, <1>13 DEF Next, MountStep, ClientStep

\* A call that has failed leaves nothing mounted at its own mount point.
THEOREM FailedMountsUndone ==
    ASSUME Undisturbed PROVE Spec => []FailedMountUndone
    <1>1. Init => UndoneInv
      <2> SUFFICES ASSUME Init PROVE UndoneInv
        OBVIOUS
      <2>1. users = {} /\ \A p \in Processes : mounts[PointOf[p]] = <<>>
        BY PointsOf DEF Init
      <2>2. Len(<<>>) = 0
        OBVIOUS
      <2> QED
        BY <2>1, <2>2 DEF UndoneInv, PointInv
    <1>2. MounterInv /\ UndoneInv /\ [Next]_vars => UndoneInv'
      BY NextUndone
    <1>3. UndoneInv => FailedMountUndone
      <2>1. DOMAIN <<>> = {}
        OBVIOUS
      <2> QED
        BY <2>1 DEF UndoneInv, PointInv, Mounted, FailedMountUndone
    <1> QED
      BY <1>1, <1>2, <1>3, MounterInvariant, PTL DEF Spec

===============================================================================
